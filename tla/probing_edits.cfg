SPECIFICATION Spec
CONSTANTS
    n1 = n1
    n2 = n2
    m1 = m1
    NoNode = NoNode
    Nodes = {n1}
    Manual = {m1}
    Required = {n1}
    Configs = {"c1"}
    Slots = 1
    Concurrencies = {1}
    DownThreshold = 2
    RecoveryThreshold = 2
    FailureThreshold = 1
    Edited = {n1}
    MaxGen = 3
    MaxSettings = 1
    MaxTests = 3
    Outcomes = {"success", "proxyFail"}
INVARIANTS
    ProbingInv
    ReadyIsEarned
    EditedNodeIsDue
    OverlapIsMerged
PROPERTIES
    InactiveIsEarned
