SPECIFICATION Spec
CONSTANTS
    t1 = t1
    t2 = t2
    TokenRequests = {t1, t2}
    CredentialRequests = {}
    k1 = k1
    Keys = {k1}
    j1 = j1
    Jtis = {j1}
    n1 = n1
    n2 = n2
    Nonces = {n1, n2}
    c1 = c1
    c2 = c2
    Codes = {c1, c2}
    g1 = g1
    Configs = {g1}
    a1 = a1
    Assertions = {a1}
    Anonymous = Anonymous
    PublicClient = PublicClient
    NoProof = NoProof
    NoNonce = NoNonce
    NoToken = NoToken
    NoKey = NoKey
    Clients = {a1, PublicClient}
    StaleReads = FALSE
    AnonymousAccess = TRUE
    Modes = {"off", "required"}
    MaxProofs = 1
SYMMETRY IssuanceSymmetry
INVARIANTS
    TypeOK
    ProofHonouredOnce
    OneTokenPerGrant
