SPECIFICATION SharedSpec
CONSTANTS
    h1 = h1
    h2 = h2
    t1 = t1
    t2 = t2
    p1 = p1
    small = small
    Handler <- MCHandler
    Task <- MCTask
    Runnable <- MCTask
    Peer <- MCPeer
    Output <- MCOutput
    BigOutput <- MCBigOutput
    NoTask = NoTask
    NoPeer = NoPeer
    NoOutput = NoOutput
    StoreFails = TRUE
SYMMETRY MCSymmetry
INVARIANTS
    InterruptedIsDead
