------------------------------ MODULE MCLeader ------------------------------
(* Finite instances of DispatchLeader for TLC.                              *)
EXTENDS DispatchLeader

CONSTANT a1

MCAgentOf == [m \in Messages |-> a1]
NoFaults == {}
=============================================================================
