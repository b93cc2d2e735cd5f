SPECIFICATION Spec
CONSTANTS
    a = a
    b = b
    Sources <- MCSources
    TotalBudget = 40
    MaxText = 4
    MaxItem = 5
    MaxResults = 4
    MaxFaults = 2
    MaxLoad = 6
    FaultSize = 3
INVARIANTS
    NothingRefused
    ContentWithinBudget
    
CHECK_DEADLOCK FALSE
