---------------------------- MODULE MCTaskExecution ----------------------------
EXTENDS TaskExecution, TLC

CONSTANTS h1, h2, t1, t2, p1, p2, small, big

MCHandler == {h1, h2}
MCTask == {t1, t2}
MCPeer == {p1, p2}
MCOnePeer == {p1}
MCOutput == {small, big}
MCOneOutput == {small}
MCBigOutput == {big}
MCNoOutput == {}

\* Safety runs only: a liveness run declares no symmetry.
MCSymmetry ==
    Permutations(MCHandler) \cup Permutations(MCPeer) \cup Permutations(MCTask)
=============================================================================
