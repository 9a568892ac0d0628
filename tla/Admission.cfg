SPECIFICATION FairSpec
CONSTANTS
    c1 = c1
    c2 = c2
    p = p
    Conn = {c1, c2}
    Peer = {p}
    PeerOf <- MCPeerOf
    Intents <- MCIntents
    Setter = {s1, s2}
INVARIANTS
    TypeOK
PROPERTIES
    VerdictAsTold
    ConnsClose
