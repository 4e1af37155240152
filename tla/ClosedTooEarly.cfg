SPECIFICATION Spec
CONSTANTS
    c1 = c1
    c2 = c2
    t1 = t1
    t2 = t2
    api = api
    NoThread = NoThread
    Conns = {c1, c2}
    Threads = {t1, t2}
    Workloads = {api}
    Labelled = {}
    Clash <- NoClash
    PriorPRs <- ApiPrior
    MaxRetries = 1
    TTL = 0
    MaxPosts = 1
    MaxClock = 0
    Faults = {"people"}
SYMMETRY Symmetry
CHECK_DEADLOCK FALSE
INVARIANTS
    ClosedMeansClosed
