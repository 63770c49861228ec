------------------------------- MODULE Alerts -------------------------------
(***************************************************************************)
(* The alerts of one agent.                                                *)
(*                                                                         *)
(* Lifecycle handlers hand a health transition to a task that raises or    *)
(* resolves alerts while the handler goes on, so these tasks end in any    *)
(* order.  A scan of the reconciler reads agents, then alerts, and raises  *)
(* or resolves heartbeat_stale; several Fleet processes may scan at once.  *)
(* Operators acknowledge.  The status of the agent and its last health     *)
(* timestamp change freely here: what writes them is in AgentLifecycle.    *)
(* Alerts of one kind and state are counted, resolved ones are forgotten.  *)
(***************************************************************************)
EXTENDS Integers

CONSTANTS
    Scanners,       \* reconciler loops, one of each Fleet process
    Tasks,          \* bound: tasks that record a transition at one time
    MaxDown,        \* bound: active agent_down alerts
    NULL

VARIABLES
    status,         \* agents.status: "up", "down", or "other" (no alert cares)
    beat,           \* agent_runtime.last_health_at: "fresh", "stale" (older than
                    \* ten minutes) or "unknown" (missing or in the future)
    open,           \* alerts in state open, by kind
    acknowledged,   \* alerts in state acknowledged, by kind
    scan,           \* what each scan has read, NULL between scans
    task            \* the step of each task, NULL when it is free

alertVars == <<open, acknowledged>>
vars == <<status, beat, alertVars, scan, task>>

Kinds == {"agent_down", "heartbeat_stale"}
Ages == {"fresh", "stale", "none"}

\* heartbeat_age: only a running agent with a known timestamp has one.
Age == IF status = "up" /\ beat # "unknown" THEN beat ELSE "none"

TypeOK ==
    /\ status \in {"up", "down", "other"}
    /\ beat \in {"fresh", "stale", "unknown"}
    /\ open \in [Kinds -> Nat] /\ acknowledged \in [Kinds -> Nat]
    /\ scan \in [Scanners ->
          [age : Ages, active : {"unread", "yes", "no"}] \cup {NULL}]
    /\ task \in [Tasks -> {NULL, "down", "recovered", "recovered2"}]

Init ==
    /\ status = "other" /\ beat = "unknown"
    /\ open = [k \in Kinds |-> 0] /\ acknowledged = [k \in Kinds |-> 0]
    /\ scan = [s \in Scanners |-> NULL]
    /\ task = [t \in Tasks |-> NULL]

Active(k) == open[k] + acknowledged[k]

\* insert_fleet_alert and resolve_active_alerts_of_kind: one transaction each,
\* the second with the audit of the resolution.
Raise(k) ==
    /\ open' = [open EXCEPT ![k] = @ + 1]
    /\ UNCHANGED acknowledged

Resolve(k) ==
    /\ open' = [open EXCEPT ![k] = 0]
    /\ acknowledged' = [acknowledged EXCEPT ![k] = 0]

-----------------------------------------------------------------------------
(* The agent.                                                              *)

\* A lifecycle operation writes a status and the health timestamp; an API
\* handler leaves the transition from the status it read before to a task.
StatusWritten ==
    /\ status' \in {"up", "down", "other"}
    /\ beat' \in {"fresh", "unknown"}
    /\ \/ UNCHANGED task
       \/ \E t \in Tasks :
             /\ task[t] = NULL
             /\ \/ status' = "down" /\ task' = [task EXCEPT ![t] = "down"]
                \/ status' = "up" /\ task' = [task EXCEPT ![t] = "recovered"]
    /\ UNCHANGED <<alertVars, scan>>

\* Ten minutes without a health check.  (What a scan has read grows old too; a
\* scan is short against ten minutes.)
TimePasses ==
    /\ beat = "fresh"
    /\ beat' = "stale"
    /\ scan' = [s \in Scanners |->
                  IF scan[s] # NULL /\ scan[s].age = "fresh"
                  THEN [scan[s] EXCEPT !.age = "stale"] ELSE scan[s]]
    /\ UNCHANGED <<status, alertVars, task>>

-----------------------------------------------------------------------------
(* The tasks that record a transition.                                     *)

\* A failure raises agent_down, once per transition.
RecordDown(t) ==
    /\ task[t] = "down"
    /\ Active("agent_down") < MaxDown
    /\ Raise("agent_down")
    /\ task' = [task EXCEPT ![t] = NULL]
    /\ UNCHANGED <<status, beat, scan>>

\* A recovery resolves agent_down (and agent_restart_loop, which nothing
\* raises), then heartbeat_stale.
RecordRecovered(t) ==
    /\ \/ /\ task[t] = "recovered"
          /\ Resolve("agent_down")
          /\ task' = [task EXCEPT ![t] = "recovered2"]
       \/ /\ task[t] = "recovered2"
          /\ Resolve("heartbeat_stale")
          /\ task' = [task EXCEPT ![t] = NULL]
    /\ UNCHANGED <<status, beat, scan>>

\* A task ends early: its database call failed, or the process did.
TaskFails(t) ==
    /\ task[t] # NULL
    /\ task' = [task EXCEPT ![t] = NULL]
    /\ UNCHANGED <<status, beat, alertVars, scan>>

-----------------------------------------------------------------------------
(* A scan: record_heartbeat_freshness.                                     *)

ReadAgents(s) ==
    /\ scan[s] = NULL
    /\ scan' = [scan EXCEPT ![s] = [age |-> Age, active |-> "unread"]]
    /\ UNCHANGED <<status, beat, alertVars, task>>

ReadAlerts(s) ==
    /\ scan[s] # NULL /\ scan[s].active = "unread"
    /\ scan' = [scan EXCEPT ![s].active =
                   IF Active("heartbeat_stale") > 0 THEN "yes" ELSE "no"]
    /\ UNCHANGED <<status, beat, alertVars, task>>

\* Mutant: the insert does not look again under the lock of the agent row.
RaiseStaleUnlocked(s) ==
    /\ scan[s] # NULL /\ scan[s].active = "no"
    /\ scan[s].age = "stale"
    /\ Raise("heartbeat_stale")
    /\ scan' = [scan EXCEPT ![s] = NULL]
    /\ UNCHANGED <<status, beat, task>>

\* A running agent was silent for ten minutes and the scan saw no alert.  The
\* insert locks the agent row and looks again.
RaiseStale(s) ==
    /\ scan[s] # NULL /\ scan[s].active = "no"
    /\ scan[s].age = "stale"
    /\ \/ Active("heartbeat_stale") = 0 /\ Raise("heartbeat_stale")
       \/ Active("heartbeat_stale") > 0 /\ UNCHANGED alertVars
    /\ scan' = [scan EXCEPT ![s] = NULL]
    /\ UNCHANGED <<status, beat, task>>

\* Mutant: a fresh heartbeat resolves what is open; an acknowledged alert stays.
ResolveOpenOnly(s) ==
    /\ scan[s] # NULL /\ scan[s].active = "yes"
    /\ scan[s].age = "fresh"
    /\ open' = [open EXCEPT !["heartbeat_stale"] = 0]
    /\ scan' = [scan EXCEPT ![s] = NULL]
    /\ UNCHANGED <<status, beat, acknowledged, task>>

\* A running agent answered lately and the scan saw an active alert.
ResolveFresh(s) ==
    /\ scan[s] # NULL /\ scan[s].active = "yes"
    /\ scan[s].age = "fresh"
    /\ Resolve("heartbeat_stale")
    /\ scan' = [scan EXCEPT ![s] = NULL]
    /\ UNCHANGED <<status, beat, task>>

\* Anything else is left alone: an agent that is not running, an unknown
\* timestamp, an alert that is there already, or none to resolve.  A scan also
\* ends where a database call fails or its process dies.
EndScan(s) ==
    /\ scan[s] # NULL
    /\ scan' = [scan EXCEPT ![s] = NULL]
    /\ UNCHANGED <<status, beat, alertVars, task>>

-----------------------------------------------------------------------------
\* An operator acknowledges an open alert.
Acknowledge(k) ==
    /\ open[k] > 0
    /\ open' = [open EXCEPT ![k] = @ - 1]
    /\ acknowledged' = [acknowledged EXCEPT ![k] = @ + 1]
    /\ UNCHANGED <<status, beat, scan, task>>

Scan(s) == ReadAgents(s) \/ ReadAlerts(s) \/ RaiseStale(s) \/ ResolveFresh(s) \/ EndScan(s)

Task(t) == RecordDown(t) \/ RecordRecovered(t) \/ TaskFails(t)

Next ==
    \/ StatusWritten \/ TimePasses
    \/ \E s \in Scanners : Scan(s)
    \/ \E t \in Tasks : Task(t)
    \/ \E k \in Kinds : Acknowledge(k)

Spec == Init /\ [][Next]_vars

\* The reconciler loop scans for ever, and a scan does not always fail.
FairSpec ==
    /\ Spec
    /\ WF_vars(\E s \in Scanners : Scan(s))
    /\ SF_vars(\E s \in Scanners : ReadAlerts(s))
    /\ SF_vars(\E s \in Scanners : ResolveFresh(s))

-----------------------------------------------------------------------------
\* An agent has at most one active heartbeat_stale alert, however scans overlap
\* with each other, with recoveries and with acknowledgements (docs/API.md:239).
OneHeartbeatAlert == Active("heartbeat_stale") <= 1

\* An agent that runs and answers its health checks loses its heartbeat_stale
\* alert, acknowledged or not, without any change of status (docs/API.md:240).
FreshResolves ==
    <>[](status = "up" /\ beat = "fresh") => <>[](Active("heartbeat_stale") = 0)
=============================================================================
