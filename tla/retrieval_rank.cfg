SPECIFICATION RetrievalSpec
CONSTANTS
    Passages = {"p1", "p2", "p3"}
    Origins <- MCOrigins
    Corpora <- MCCorpora
    MaxCandidates = 2
    MaxResults = 2
INVARIANTS
    BestMatchScoresOne
CHECK_DEADLOCK FALSE
