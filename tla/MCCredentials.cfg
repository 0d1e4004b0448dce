SPECIFICATION Spec
CONSTANTS
    h1 = h1
    h2 = h2
    hd = hd
    HolderKeys = {h1, h2, hd}
    HolderAlg <- MCHolderAlg
    OtherKeys <- MCOtherKeys
    MaxVersion = 2
    MaxCredentials = 1
    MaxPresentations = 2
    name = name
    Claims = {name}
    q1 = q1
    q2 = q2
    QueryIds = {q1, q2}
    Registrations <- MCRegistrations
    Proofs <- MCProofs
    Transactions <- MCTransactions
    Foreign <- MCForeign
    NoKey = NoKey
    Absent = Absent
INVARIANTS
    TypeOK
    AcceptedIsGenuine
    HonestVerifies
CHECK_DEADLOCK FALSE
