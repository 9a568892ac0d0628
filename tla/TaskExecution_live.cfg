SPECIFICATION FairSpec
CONSTANTS
    h1 = h1
    h2 = h2
    t1 = t1
    t2 = t2
    p1 = p1
    p2 = p2
    small = small
    big = big
    Handler <- MCHandler
    Task <- MCTask
    Runnable <- MCTask
    Peer <- MCOnePeer
    Output <- MCOneOutput
    BigOutput <- MCNoOutput
    NoTask = NoTask
    NoPeer = NoPeer
    NoOutput = NoOutput
    StoreFails = FALSE
PROPERTIES
    CloseReturns
    SlotComesFree
    RunsSettle
    KeepsPromise
