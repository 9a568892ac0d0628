------------------------------- MODULE MCTaskGrid -------------------------------
EXTENDS TaskGrid

CONSTANTS n1, n2, t1, o1

MCNode == {n1, n2}
MCTask == {t1}
MCPeer == {Me}
MCOutput == {o1}
=============================================================================
