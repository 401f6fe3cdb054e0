\* Statuses, a log and a clear; liveness of the writer.
SPECIFICATION FairSpec
CONSTANTS
    c1 = c1
    c2 = c2
    n1 = n1
    n2 = n2
    NoClearer = NoClearer
    Capacity = 2
    FailureReserve = 1
    BatchSize = 1
    Clearers = {c1}
    Nodes = {n1}
    MaxLogs = 1
    MaxGen = 2
    MaxRevision = 2
    MaxErrors = 1
INVARIANTS
    StatusOnItsWay
PROPERTIES
    StatusNeverRegresses
    
CHECK_DEADLOCK FALSE
