----------------------------- MODULE AgentSlots -----------------------------
(***************************************************************************)
(* What dispatch promises, seen from outside: an agent is one slot, and a  *)
(* prompt occupies the slot of its agent at most once in its life.         *)
(***************************************************************************)

CONSTANTS Prompts, Agents, AgentOf

VARIABLE phase  \* "stored", "occupying" its agent's slot, or "over"

Init == phase = [p \in Prompts |-> "stored"]

Occupy(p) ==
    /\ phase[p] = "stored"
    /\ \A q \in Prompts : AgentOf[q] = AgentOf[p] => phase[q] # "occupying"
    /\ phase' = [phase EXCEPT ![p] = "occupying"]

Leave(p) ==
    /\ phase[p] = "occupying"
    /\ phase' = [phase EXCEPT ![p] = "over"]

Next == \E p \in Prompts : Occupy(p) \/ Leave(p)

Spec == Init /\ [][Next]_phase
=============================================================================
