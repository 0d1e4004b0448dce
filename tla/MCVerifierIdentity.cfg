SPECIFICATION Spec
CONSTANTS
    r1 = r1
    r2 = r2
    r3 = r3
    Regs = {r1, r2, r3}
    Requests = {q1}
    Backends = {"memory", "aws", "gcp"}
    MaxActive = 2
    MaxRestarts = 1
    None = None
SYMMETRY Symmetry
INVARIANTS
    TypeOK
    HeaderNamesSigner
    PublishedKeyHeld
CHECK_DEADLOCK FALSE
