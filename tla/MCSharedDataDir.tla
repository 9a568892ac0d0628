---------------------------- MODULE MCSharedDataDir ----------------------------
EXTENDS SharedDataDir, TLC

CONSTANTS h1, h2, t1, t2, p1, small

MCHandler == {h1, h2}
MCTask == {t1, t2}
MCPeer == {p1}
MCOutput == {small}
MCBigOutput == {}

MCSymmetry == Permutations(MCHandler) \cup Permutations(MCTask)
=============================================================================
