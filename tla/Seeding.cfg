SPECIFICATION Spec
CONSTANTS
    Procs = {service, person}
    Startup = service
    service = service
    person = person
    NRules = 2
    MaxVersion = 2
    MaxRuns = 3
    MaxChanges = 1
CHECK_DEADLOCK FALSE
INVARIANTS
    SeedTypeOK
    HashIsIndexed
    ExitZeroMeansIndexed
    SavedWasAcknowledged
