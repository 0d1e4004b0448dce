SPECIFICATION FairSpec
CONSTANTS
    r1 = r1
    Requests = {r1}
    cx = cx
    cy = cy
    Clients = {cx, cy}
    kx = kx
    kx2 = kx2
    ky = ky
    Keys = {kx, kx2, ky}
    KeyAlg <- MCKeyAlg
    Assertions <- MCAssertions
    Registrations <- MCRegistrations
    Policies <- MCPolicies
    Metadata <- MCMetadata
    Backends = {"dynamodb", "firestore"}
    MaxSaves = 3
    Absent = Absent
    NoClient = NoClient
    NoAssertion = NoAssertion
INVARIANTS
    TypeOK
    AuthenticatedClient
    ModeInForce
PROPERTY DisabledTakesEffect
CHECK_DEADLOCK FALSE
