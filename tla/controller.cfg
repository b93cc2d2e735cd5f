SPECIFICATION Spec
CONSTANT
    MaxRequests = 2
INVARIANTS
    HaltOutlastsRequests
    ReplyAccountsForTasks
    LatestTextWins
PROPERTIES
    EveryRequestAnswered
CHECK_DEADLOCK FALSE
