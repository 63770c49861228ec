--------------------------- MODULE DispatchLeader ---------------------------
(***************************************************************************)
(* Dispatch, when the leader of a session may be assigned again.           *)
(*                                                                         *)
(* The run of a prompt whose primary agent is a leader has the role        *)
(* 'leader'.  Assigning the session's leader, even the same one, replaces  *)
(* the rows of that role.  Each prompt has a session of its own here.      *)
(***************************************************************************)
EXTENDS Dispatch

CONSTANT Leaders    \* agents whose runs have the role 'leader'

\* run_role.
HasLeaderRole(m) == AgentOf[m] \in Leaders

\* One transaction deletes the leader rows in whatever state they are; the
\* new row is not bound to a runtime session, so no query counts it.
AssignLeader(m) ==
    /\ HasLeaderRole(m)
    /\ RowExists(m)
    /\ run' = [run EXCEPT ![m] = "deleted"]
    /\ UNCHANGED <<queueVars, outbox, delivery, rid, replies, agentVars, taskVars,
                   follower, controls, runtimeVars>>

LeaderNext == Next \/ \E m \in Messages : AssignLeader(m)

LeaderSpec == Init /\ [][LeaderNext]_vars

=============================================================================
