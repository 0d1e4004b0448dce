SPECIFICATION Spec
CONSTANTS
    p1 = p1
    p2 = p2
    Processes = {p1, p2}
    q1 = q1
    Txs = {q1}
    s1 = s1
    States = {s1}
    Fetches = {}
    k1 = k1
    Callbacks = {k1}
    Cancels = {}
    Free = Free
    Reserved = Reserved
    NoTx = NoTx
    Workloads <- MCInstanceWorkloads
SYMMETRY PresentationSymmetry
INVARIANTS
    ResponseFindsTransaction
