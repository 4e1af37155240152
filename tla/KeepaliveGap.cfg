SPECIFICATION Spec
CONSTANTS
    c1 = c1
    c2 = c2
    t1 = t1
    t2 = t2
    api = api
    NoThread = NoThread
    Conns = {c1}
    Threads = {t1}
    Workloads = {api}
    Labelled = {api}
    Clash <- NoClash
    PriorPRs <- ApiPrior
    MaxRetries = 1
    TTL = 1
    MaxPosts = 1
    MaxClock = 1
    Faults = {"gap"}
SYMMETRY Symmetry
CHECK_DEADLOCK FALSE
INVARIANTS
    EndIsReported
