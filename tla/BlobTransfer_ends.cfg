SPECIFICATION FairBlobSpec
CONSTANTS
    f = f
    g = g
    a = a
    b = b
    base = base
    second = second
    Transfer <- MCOne
    Data = {a, b}
    Hole = Hole
    Path = {base, second}
    NoPath = NoPath
    Candidates <- MCCandidates
    Versions <- MCManyVersions
    MaxChunks = 2
    StoreFails = TRUE
INVARIANTS
    TypeOK
    NoChunkOnRefusal
    StoredMeansSent
PROPERTIES
    TransfersEnd
