------------------------------ MODULE MCEvents ------------------------------
(* Finite instances of SessionEvents for TLC.                               *)
EXTENDS SessionEvents

AllFaults == FaultKinds
=============================================================================
