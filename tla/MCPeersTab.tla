------------------------------- MODULE MCPeersTab -------------------------------
(* Every set is of interchangeable values and no run asks for liveness. *)
EXTENDS PeersTab, TLC

MCSymmetry == Permutations(Peer) \cup Permutations(File) \cup Permutations(Task)
=============================================================================
