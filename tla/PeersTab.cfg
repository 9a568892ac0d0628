SPECIFICATION PeersSpec
CONSTANTS
    Peer = {p, q}
    File = {f, g}
    Task = {t, u, v}
    NoPeer = NoPeer
    NoFile = NoFile
    NoTask = NoTask
    MaxBuilds = 2
SYMMETRY MCSymmetry
INVARIANTS
    TypeOK
    SentAsConfirmed
    OneWait
    TabsLoseNothing
PROPERTIES
    LateResultDropped
