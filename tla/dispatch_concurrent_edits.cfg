SPECIFICATION Spec
CONSTANTS
    r1 = r1
    r2 = r2
    r3 = r3
    n1 = n1
    n2 = n2
    t1 = t1
    t2 = t2
    c1 = c1
    c2 = c2
    NoNode = NoNode
    NoToken = NoToken
    DeadToken = DeadToken
    Requests = {r1}
    Nodes = {n1}
    Targets = {t1}
    Admins = {a1, a2}
    Configs = {c1, c2}
    Probed = {}
    Required = {}
    PoolOf <- WholePool
    TargetOf <- SameTarget
    MaxProxyDials = 1
    MaxGlobalDials = 2
    FailFast = TRUE
    MaxAttempts = 2
    Thresholds = {1}
    MaxFailures = 1
    MaxGen = 4
INVARIANTS
    EvidenceIsCurrent
