SPECIFICATION Spec
CONSTANTS
    c1 = c1
    c2 = c2
    listPrs = listPrs
    sloStatus = sloStatus
    createPr = createPr
    pushFiles = pushFiles
    Conns = {c1}
    ReadTools = {listPrs, sloStatus}
    WriteTools = {createPr, pushFiles}
    PrTool = createPr
    MaxRounds = 2
    MaxReplies = 2
    MaxBody = 2
    MaxTurns = 3
    Faults = {"call", "cut", "leave"}
SYMMETRY Symmetry
CHECK_DEADLOCK FALSE
INVARIANTS
    AgentTypeOK
    NeverRefused
    UnansweredArePending
