------------------------------ MODULE MCConfig ------------------------------
(* Finite instances of ConfigRevisions for TLC.                            *)
EXTENDS ConfigRevisions

\* Everything that can fail, with and without racing lifecycle operations.
AllFaults == FaultKinds
DatabaseFaults == {"database"}
=============================================================================
