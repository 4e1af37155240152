SPECIFICATION LiveSpec
CONSTANTS
    c1 = c1
    c2 = c2
    t1 = t1
    t2 = t2
    api = api
    NoThread = NoThread
    Conns = {c1, c2}
    Threads = {t1}
    Workloads = {api}
    Labelled = {api}
    Clash <- NoClash
    PriorPRs <- ApiPrior
    MaxRetries = 2
    TTL = 0
    MaxPosts = 2
    MaxClock = 1
    Faults = {"call", "raise", "gap", "leave", "restart", "people"}
CHECK_DEADLOCK FALSE
INVARIANTS
    TypeOK
    SingleExecution
    RecordNamesOwnPr
    EndIsExplained
PROPERTIES
    ShownPatchIsFrozen
    ImplementsApproval
    StreamsEnd
    ApprovalIsAnswered
