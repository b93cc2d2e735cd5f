SPECIFICATION MCSpec
CONSTANTS
    ChunkSize = 6
    Overlap = 2
    Lengths <- MCLengths
    MaxSentences = 3
    MaxParagraphs = 2
    Passages = {"p1", "p2", "p3"}
    Origins <- MCOrigins
    Corpora <- MCCorpora
    MaxCandidates = 2
    MaxResults = 2
INVARIANTS
    TypeOK
    ChunksAdjoin
    OversizedIsOneSentence
    NoBetterLeftOut
    LeadsSurviveReranking
CHECK_DEADLOCK FALSE
