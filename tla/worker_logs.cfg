\* Logs, clears and the exit; no node statuses.
SPECIFICATION Spec
CONSTANTS
    c1 = c1
    c2 = c2
    n1 = n1
    n2 = n2
    NoClearer = NoClearer
    Capacity = 2
    FailureReserve = 1
    BatchSize = 2
    Clearers = {c1, c2}
    Nodes = {}
    MaxLogs = 4
    MaxGen = 1
    MaxRevision = 0
    MaxErrors = 1
SYMMETRY ClearerSymmetry
INVARIANTS
    QueueInv
    ClearsAreHonest
    SealedFlushIsDurable
PROPERTIES
    ClearIsAtomic
CHECK_DEADLOCK FALSE
