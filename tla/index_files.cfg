SPECIFICATION FilesSpec
CONSTANTS
    c1 = c1
    c2 = c2
    ChunkIds <- MCChunks
    MaxIds = 4
INVARIANTS
    MapsAgree
    SearchExact
