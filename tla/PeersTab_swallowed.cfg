SPECIFICATION PeersSpec
CONSTANTS
    Peer = {p}
    File = {f}
    Task = {t}
    NoPeer = NoPeer
    NoFile = NoFile
    NoTask = NoTask
    MaxBuilds = 2
SYMMETRY MCSymmetry
INVARIANTS
    NothingSwallowed
