SPECIFICATION LiveSpec
CONSTANTS
    MaxAttempts = 3
    MaxChunks = 2
    Amounts = {0, 1, 2}
    Faults = {"call", "gap", "leave"}
CHECK_DEADLOCK FALSE
INVARIANTS
    ExplainTypeOK
    AnswerIsWhole
    LastWord
    SpentBudgetIsFree
    CountedOnce
PROPERTIES
    ExplainEnds
