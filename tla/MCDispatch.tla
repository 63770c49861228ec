----------------------------- MODULE MCDispatch -----------------------------
(* Finite instances of Dispatch for TLC.                                    *)
EXTENDS Dispatch, TLC

CONSTANT a1

\* The prompts compete for one agent.
MCAgentOf == [m \in Messages |-> a1]

AllFaults == FaultKinds
ControlFaults == {"control"}

\* Which prompt is which does not matter.
Prompts == Permutations(Messages)
=============================================================================
