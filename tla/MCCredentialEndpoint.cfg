SPECIFICATION Spec
CONSTANTS
    t1 = t1
    TokenRequests = {t1}
    r1 = r1
    r2 = r2
    CredentialRequests = {r1, r2}
    k1 = k1
    k2 = k2
    Keys = {k1, k2}
    j1 = j1
    Jtis = {j1}
    n1 = n1
    n2 = n2
    Nonces = {n1, n2}
    c1 = c1
    Codes = {c1}
    g1 = g1
    g2 = g2
    Configs = {g1, g2}
    Assertions = {}
    Anonymous = Anonymous
    PublicClient = PublicClient
    NoProof = NoProof
    NoNonce = NoNonce
    NoToken = NoToken
    NoKey = NoKey
    Clients = {Anonymous}
    StaleReads = TRUE
    AnonymousAccess = TRUE
    Modes = {"off", "optional"}
    MaxProofs = 1
SYMMETRY IssuanceSymmetry
INVARIANTS
    CredentialAuthorized
    SpentCNonceStaysSpent
PROPERTY
    RefinesCredentialGrant
