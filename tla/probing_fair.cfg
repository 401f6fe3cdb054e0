SPECIFICATION FairSpec
CONSTANTS
    n1 = n1
    n2 = n2
    m1 = m1
    NoNode = NoNode
    Nodes = {n1, n2}
    Manual = {}
    Required = {n1}
    Configs = {"c1"}
    Slots = 2
    Concurrencies = {1, 2}
    DownThreshold = 1
    RecoveryThreshold = 1
    FailureThreshold = 1
    Edited = {}
    MaxGen = 1
    MaxSettings = 1
    MaxTests = 0
    Outcomes = {"targetFail"}
INVARIANTS
    TestsWithinConcurrency
PROPERTIES
    CycleEnds
