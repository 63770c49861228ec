------------------------------- MODULE MCGate -------------------------------
(* Finite instances of AgentGate for TLC.                                  *)
EXTENDS AgentGate

CONSTANT a1

MCAgentOf == [m \in Messages |-> a1]
None == {}
Crashes == {"crash"}
HostFaults == {"crash", "files", "readiness"}
=============================================================================
