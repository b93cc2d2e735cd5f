SPECIFICATION Spec
CONSTANTS
    s1 = s1
    s2 = s2
    Sources <- MCSources
    MaxChunks = 2
    MaxUploads = 4
INVARIANT
    KeywordHitsRetrievable
