SPECIFICATION Spec
CONSTANTS
    p1 = p1
    Processes = {p1}
    q1 = q1
    q2 = q2
    Txs = {q1, q2}
    s1 = s1
    s2 = s2
    States = {s1, s2}
    f1 = f1
    f2 = f2
    Fetches = {f1, f2}
    k1 = k1
    k2 = k2
    Callbacks = {k1, k2}
    d1 = d1
    Cancels = {d1}
    Workloads <- MCWorkloads
    Free = Free
    Reserved = Reserved
    NoTx = NoTx
SYMMETRY PresentationSymmetry
INVARIANTS
    TypeOK
    AcceptedForItsRequest
    AnsweredIsClosed
    OpenTransactionIsBound
    RetrievedObjectIsClosed
PROPERTY
    RefinesPresentationExchange
