SPECIFICATION FairGridSpec
CONSTANTS
    n1 = n1
    n2 = n2
    t1 = t1
    o1 = o1
    Me = Me
    Node <- MCNode
    Task <- MCTask
    Peer <- MCPeer
    Output <- MCOutput
    NoNode = NoNode
    NoTask = NoTask
    NoPeer = NoPeer
    NoOutput = NoOutput
    ReadFails = TRUE
    SentFails = TRUE
INVARIANTS
    GridTypeOK
    AskedPeerTookIt
    EndsAgree
    SentRunningIsAwaited
PROPERTIES
    TellsOutcomes
    AwaitEnds
