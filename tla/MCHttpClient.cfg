SPECIFICATION FairSpec
CONSTANTS
    Chunk <- MCChunk
    MaxChunks = 2
    MaxDeclared = 5
CHECK_DEADLOCK FALSE
INVARIANTS
    TypeOK
    BodyIsTheServers
    NeverWaitsForMore
PROPERTIES
    Finishes
