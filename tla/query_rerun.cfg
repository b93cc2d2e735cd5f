SPECIFICATION Spec
CONSTANTS
    q1 = q1
    q2 = q2
    Calls <- MCCalls
    MaxConcurrent = 2
    MaxFaults = 2
    MaxPasses = 3
    MaxTurns = 3
    Replies <- MCReplies
    AgentScopes <- MCScopes
INVARIANT
    RerunLimit
CHECK_DEADLOCK FALSE
