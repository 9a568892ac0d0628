SPECIFICATION BlobSpec
CONSTANTS
    f = f
    g = g
    a = a
    b = b
    base = base
    second = second
    Transfer <- MCBoth
    Data = {a, b}
    Hole = Hole
    Path = {base, second}
    NoPath = NoPath
    Candidates <- MCCandidates
    Versions <- MCTwoFiles
    MaxChunks = 2
    StoreFails = FALSE
INVARIANTS
    InboxSound
PROPERTIES
    KeptIntact
    DeliversWhole
