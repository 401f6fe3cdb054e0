SPECIFICATION FairSpec

CONSTANTS
    r1 = r1
    r2 = r2
    r3 = r3
    n1 = n1
    n2 = n2
    t1 = t1
    t2 = t2
    c1 = c1
    c2 = c2
    NoNode = NoNode
    NoToken = NoToken
    DeadToken = DeadToken
    Requests = {r1, r2, r3}
    Nodes = {n1}
    Targets = {t1}
    Admins = {}
    Configs = {c1}
    Probed = {}
    Required = {}
    PoolOf <- PoolWithoutR3
    TargetOf <- SameTarget
    MaxProxyDials = 1
    MaxGlobalDials = 2
    FailFast = TRUE
    MaxAttempts = 1
    Thresholds = {2}
    MaxFailures = 2
    MaxGen = 1
PROPERTIES
    ParkedIsWoken
    QueuedIsServed
