SPECIFICATION Spec
CONSTANTS
    c1 = c1
    c2 = c2
    Calls = {c1, c2}
    ES256 = ES256
    ES384 = ES384
    Algs = {ES256, ES384}
    Backends = {"memory", "aws", "gcp"}
    Roles = {"issuer", "verifier"}
    NoKey = NoKey
    NoCall = NoCall
SYMMETRY ProvisioningSymmetry
INVARIANTS
    TypeOK
    
    NoOrphanKeys
PROPERTY GeneratedKeyStays
CHECK_DEADLOCK FALSE
