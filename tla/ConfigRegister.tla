--------------------------- MODULE ConfigRegister ---------------------------
(***************************************************************************)
(* What configuration revisions promise of one agent.                      *)
(*                                                                         *)
(* Saving and taking effect are different facts: a saved revision changes  *)
(* nothing until an activation blocks the agent, and the activation either *)
(* makes the newest saved revision effective or leaves the effective one   *)
(* as it was.  Nothing is saved while the agent is blocked.                *)
(***************************************************************************)
EXTENDS Integers

CONSTANTS Agents, Revisions

VARIABLES
    desired,    \* the newest saved revision, 0 when there is none
    effective,  \* the revision in effect, 0 when there is none
    blocked     \* no new work for the agent

vars == <<desired, effective, blocked>>

Init ==
    /\ desired = [a \in Agents |-> 0]
    /\ effective = [a \in Agents |-> 0]
    /\ blocked = [a \in Agents |-> FALSE]

Save(a) ==
    /\ ~ blocked[a]
    /\ \E r \in Revisions :
          r > desired[a] /\ desired' = [desired EXCEPT ![a] = r]
    /\ UNCHANGED <<effective, blocked>>

Block(a) ==
    /\ ~ blocked[a]
    /\ desired[a] # 0
    /\ blocked' = [blocked EXCEPT ![a] = TRUE]
    /\ UNCHANGED <<desired, effective>>

Commit(a) ==
    /\ blocked[a]
    /\ effective' = [effective EXCEPT ![a] = desired[a]]
    /\ blocked' = [blocked EXCEPT ![a] = FALSE]
    /\ UNCHANGED desired

Abort(a) ==
    /\ blocked[a]
    /\ blocked' = [blocked EXCEPT ![a] = FALSE]
    /\ UNCHANGED <<desired, effective>>

Next == \E a \in Agents : Save(a) \/ Block(a) \/ Commit(a) \/ Abort(a)

Spec == Init /\ [][Next]_vars
=============================================================================
