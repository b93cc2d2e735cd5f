SPECIFICATION Spec
CONSTANTS
    a1 = a1
    a2 = a2
    a3 = a3
    Agents <- MCAgents
    MaxBusCalls = 4
    Callers <- MCCallers
    Tools = {"read"}
    Parameters = {"path"}
    Definitions <- MCDefinitions
    Traces = {"trace"}
    Scopes <- MCScopes
    MaxToolCalls = 4
    Keys = {"k1", "k2", "k3"}
    Texts = {"x", "y", "z"}
    Sources = {"s", "t"}
    Stances <- MCStances
    Confidences = {4, 8}
INVARIANTS
    TypeOK
    QueueHoldsWhatIsDue
    BroadcastReaches
    HeldListIsLive
    AuditTellsOutcome
    MergeKeepsAll
    MergeSaysTheCertain
CHECK_DEADLOCK FALSE
