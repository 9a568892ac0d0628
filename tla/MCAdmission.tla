------------------------------- MODULE MCAdmission -------------------------------
EXTENDS Admission

CONSTANTS c1, c2, p

MCPeerOf == [c \in Conn |-> p]
MCIntents == [c \in Conn |-> IF c = c1 THEN {"hello", "task"} ELSE {"result"}]
=============================================================================
