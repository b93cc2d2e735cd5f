SPECIFICATION Spec
CONSTANTS
    m1 = m1
    m2 = m2
    t1 = t1
    t2 = t2
    Memories <- MCMemories
    Texts <- MCTexts
    MaxRowid = 3
INVARIANTS
    EveryMemoryFound
    WrongHitsOnlyOfReplaced
    ArchiveLeavesNoneBehind
