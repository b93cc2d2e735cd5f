SPECIFICATION FairSpec
CONSTANTS
    Tasks <- MCTasks
    Graphs <- MCGraphs
    Priority <- MCPriority
    MaxRetries = 1
    MaxWorkers = 2
    Publishing <- MCPublishing
INVARIANTS
    DependenciesRespected
    FailureCascades
    CleanRunCompletesAll
    ReturnAccountsForAll
    BoardMatchesOutcome
PROPERTIES
    ImplementsTaskExecution
CHECK_DEADLOCK FALSE
