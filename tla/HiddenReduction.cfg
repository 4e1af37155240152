SPECIFICATION Spec
CONSTANTS
    Kibi = 4
    Kilo = 3
    Slots = {"memory"}
    NContainers = 2
    Numbers = {1, 2}
    Units = {"Mi"}
    MaxRetries = 2
    MaxAttempts = 2
CHECK_DEADLOCK FALSE
INVARIANTS
    OfferNeverReduces
