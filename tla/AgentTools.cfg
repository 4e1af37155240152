SPECIFICATION LiveSpec
CONSTANTS
    MaxAttempts = 3
    MaxPosts = 3
    MaxCalls = 2
CHECK_DEADLOCK FALSE
INVARIANTS
    ToolsTypeOK
    ServersAreOwned
    ProposalsInOrder
PROPERTIES
    NoStartAfterBegin
    TurnEnds
