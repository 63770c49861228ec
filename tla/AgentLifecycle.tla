--------------------------- MODULE AgentLifecycle ---------------------------
(***************************************************************************)
(* The life of one agent: its row, its files, the child process of its     *)
(* runtime, the lifecycle handlers and the reconciler loop.                *)
(*                                                                         *)
(* A handler reads the row once and works with what it saw: every database *)
(* call, every use of the table of children and every probe is a step, and *)
(* nothing locks the agent in between.  Fleet may crash, and its children  *)
(* survive that or not; a new process tracks none of them.  A probe is     *)
(* answered only if something listens on the agent's port.                 *)
(***************************************************************************)
EXTENDS Integers

CONSTANTS
    Operators,      \* lifecycle requests under way at one time
    Rec,            \* the reconciler loop
    Java,           \* is it a Java agent, or Hermes?
    MaxOrphans,     \* bound: live processes without an entry in the table
    NULL,
    MaxFaults       \* bound: crashes of Fleet and failing calls

VARIABLES
    row,            \* agents.status, agent_runtime.desired_state and whether
                    \* agent_runtime.pid is set
    files,          \* has the agent its folders and marker?
    draining,       \* is a configuration revision being activated?
    child,          \* the entry in the supervisor's table: "none", or a process
                    \* that is "alive" or has "exited"
    orphans,        \* live processes of the runtime that are not in the table
    handler,        \* what each handler and the reconciler are at
    excused,        \* history: two starts overlapped, or a process outlived Fleet
    halted,         \* history: stopped with nothing else under way, and not
                    \* started again by anybody
    owed,           \* history: a runtime that should run died with Fleet and is
                    \* "owed", or "lost" where nobody will start it again
    faults          \* faults so far

agentVars == <<row, files, draining>>
processVars == <<child, orphans>>
history == <<excused, halted, owed>>
vars == <<agentVars, processVars, handler, history, faults>>

Procs == Operators \cup {Rec}
Statuses == {"provisioning", "ready", "starting", "running", "degraded",
             "stopped", "failed", "archived"}
Desired == {"running", "stopped"}
\* No pid is recorded for a runtime that failed, starts or has not been started,
\* nor for one that stopped (the row of a Java agent may keep it).
Rows ==
    {r \in [status : Statuses, desired : Desired, pid : BOOLEAN] :
        r.pid => /\ r.status \notin {"provisioning", "starting", "failed"}
                 /\ r.status = "stopped" => Java}

Steps == {"gate", "check", "starting", "spawn", "wait", "kill", "stop", "stopped",
          "health", "probe", "write", "provision", "ready", "archive", "purge"}

\* A handler: its step and, while it needs them, what follows its stop, the row
\* it saw, the row it is about to write, and whether it saw a tracked child.
After == {"stop", "restart", "archive", "purge"}
Handlers ==
    {h \in [step : Steps, after : After \cup {NULL}, seen : Rows \cup {NULL},
            next : Rows \cup {NULL}, tracked : BOOLEAN] :
        /\ h.after # NULL <=> h.step \in {"stop", "stopped", "archive"}
        /\ h.seen # NULL <=> h.step \in {"gate", "check", "health", "probe"}
        /\ h.next # NULL <=> h.step = "write"}

ASSUME LifecycleAssumption ==
    /\ MaxOrphans \in Nat /\ MaxFaults \in Nat /\ Java \in BOOLEAN
    /\ NULL \notin Rows \cup After \cup Handlers

TypeOK ==
    /\ row \in Rows /\ files \in BOOLEAN /\ draining \in BOOLEAN
    /\ child \in {"none", "alive", "exited"}
    /\ orphans \in 0 .. MaxOrphans
    /\ handler \in [Procs -> Handlers \cup {NULL}]
    /\ excused \in BOOLEAN /\ halted \in BOOLEAN /\ owed \in {"none", "owed", "lost"}
    /\ faults \in 0 .. MaxFaults

Row(status, desired, pid) == [status |-> status, desired |-> desired, pid |-> pid]

\* create_agent has inserted the row; its handler provisions next.
Init ==
    /\ row = Row("provisioning", "stopped", FALSE) /\ files = FALSE
    /\ draining = FALSE
    /\ child = "none" /\ orphans = 0
    /\ handler = [p \in Procs |-> NULL]
    /\ excused = FALSE /\ halted = FALSE /\ owed = "none"
    /\ faults = 0

-----------------------------------------------------------------------------
At(p, s) == handler[p] # NULL /\ handler[p].step = s
Goto(p, s) == handler' = [handler EXCEPT ![p].step = s, ![p].seen = NULL]
Done(p) == handler' = [handler EXCEPT ![p] = NULL]

\* The last step of p: it writes this row and is done.
ThenWrite(p, r) ==
    handler' = [handler EXCEPT ![p].step = "write", ![p].next = r,
                               ![p].seen = NULL, ![p].tracked = FALSE]

\* p begins at step s, and with the row it sees, or with a stop and what follows.
Begin(p, s, after) ==
    /\ handler[p] = NULL
    /\ handler' = [handler EXCEPT ![p] =
          [step |-> s, after |-> after, next |-> NULL, tracked |-> FALSE,
           seen |-> IF s \in {"gate", "check", "health"} THEN row ELSE NULL]]
    /\ UNCHANGED <<agentVars, processVars, excused, faults>>

\* The handlers.  All but health and purge are refused while a revision is
\* activated; an activation itself restarts the runtime.
BeginStart(p) ==
    /\ ~ draining
    /\ Begin(p, "check", NULL)
    /\ halted' = FALSE /\ owed' = "none"

BeginRestart(p) ==
    /\ Begin(p, "stop", "restart")
    /\ halted' = FALSE /\ owed' = "none"

BeginStop(p) ==
    /\ ~ draining
    /\ \E op \in {"stop", "archive"} : Begin(p, "stop", op)
    /\ owed' = "none" /\ UNCHANGED halted

BeginPurge(p) ==
    /\ row.status = "archived"
    /\ Begin(p, "stop", "purge")
    /\ owed' = "none" /\ UNCHANGED halted

\* By create_agent (while the row is new) or by its own handler; provisioning is
\* refused while the runtime may run.
BeginProvision(p) ==
    /\ ~ draining
    /\ row.status \in {"provisioning", "ready", "stopped"} /\ ~ row.pid
    /\ Begin(p, "provision", NULL)
    /\ owed' = "none" /\ UNCHANGED halted

BeginHealth(p) ==
    /\ Begin(p, "health", NULL)
    /\ UNCHANGED <<halted, owed>>

-----------------------------------------------------------------------------
(* start.                                                                  *)

\* A tracked child: it runs already, whether or not it lives.
CheckTracked(p) ==
    /\ At(p, "check")
    /\ IF child # "none"
       THEN /\ ThenWrite(p, Row("running", "running", handler[p].seen.pid))
            /\ UNCHANGED excused
       ELSE /\ Goto(p, "starting")
            /\ excused' = (excused \/ \E q \in Procs \ {p} : At(q, "starting") \/ At(q, "spawn"))
    /\ UNCHANGED <<agentVars, processVars, halted, owed, faults>>

WriteStarting(p) ==
    /\ At(p, "starting")
    /\ row' = Row("starting", "running", FALSE)
    /\ Goto(p, "spawn")
    /\ UNCHANGED <<files, draining, processVars, history, faults>>

\* The command cannot be built, the spawn fails (it does without the working
\* directory), or the child replaces what the table held for the agent, which
\* goes on running if it is alive.
Spawn(p) ==
    /\ At(p, "spawn")
    /\ \/ Done(p) /\ UNCHANGED processVars
       \/ ThenWrite(p, Row("failed", "stopped", FALSE)) /\ UNCHANGED processVars
       \/ /\ files
          /\ child' = "alive"
          /\ IF child = "alive"
             THEN orphans < MaxOrphans /\ orphans' = orphans + 1
             ELSE UNCHANGED orphans
          /\ Goto(p, "wait")
    /\ owed' = "none"
    /\ UNCHANGED <<agentVars, excused, halted, faults>>

\* Does anything listen on the port of the agent?
Live == child = "alive" \/ orphans > 0

\* Up to the timeout the runtime is probed; it may not answer in time.
WaitReady(p) ==
    /\ At(p, "wait")
    /\ \/ Live /\ ThenWrite(p, Row("running", "running", TRUE))
       \/ Goto(p, "kill")
    /\ UNCHANGED <<agentVars, processVars, history, faults>>

\* The tracked child, whoever started it, is removed from the table and killed.
KillTracked == child' = "none" /\ UNCHANGED orphans

\* Mutant: the child is only forgotten.
AbandonStart(p) ==
    /\ At(p, "kill")
    /\ orphans' = (IF child = "alive" THEN orphans + 1 ELSE orphans)
    /\ child' = "none"
    /\ ThenWrite(p, Row("failed", "stopped", FALSE))
    /\ UNCHANGED <<agentVars, history, faults>>

GiveUpStart(p) ==
    /\ At(p, "kill")
    /\ KillTracked
    /\ ThenWrite(p, Row("failed", "stopped", FALSE))
    /\ UNCHANGED <<agentVars, history, faults>>

-----------------------------------------------------------------------------
(* stop, and the operations that begin with it.                            *)

Stop(p) ==
    /\ At(p, "stop")
    /\ KillTracked
    /\ Goto(p, "stopped")
    /\ UNCHANGED <<agentVars, history, faults>>

\* Is p the only one that works on the agent?
Alone(p) == \A q \in Procs \ {p} : handler[q] = NULL

\* The stop is recorded; a restart reads the row again and starts.
WriteStopped(p) ==
    /\ At(p, "stopped")
    /\ row' = Row("stopped", "stopped", FALSE)
    /\ CASE handler[p].after = "stop" -> Done(p)
         [] handler[p].after = "restart" ->
               handler' = [handler EXCEPT ![p].step = "check", ![p].after = NULL,
                                          ![p].seen = row']
         [] OTHER -> Goto(p, "archive")
    /\ halted' = (halted \/ (handler[p].after = "stop" /\ Alone(p) /\ ~ Live))
    /\ UNCHANGED <<files, draining, processVars, excused, owed, faults>>

\* archive_agent, and the repetition of its status by a purge.
WriteArchived(p) ==
    /\ At(p, "archive")
    /\ row' = [row EXCEPT !.status = "archived"]
    /\ IF handler[p].after = "purge"
       THEN handler' = [handler EXCEPT ![p].step = "purge", ![p].after = NULL]
       ELSE Done(p)
    /\ UNCHANGED <<files, draining, processVars, history, faults>>

PurgeFiles(p) ==
    /\ At(p, "purge")
    /\ files' = FALSE
    /\ Done(p)
    /\ UNCHANGED <<row, draining, processVars, history, faults>>

Provision(p) ==
    /\ At(p, "provision")
    /\ files' = TRUE
    /\ Goto(p, "ready")
    /\ UNCHANGED <<row, draining, processVars, history, faults>>

WriteReady(p) ==
    /\ At(p, "ready")
    /\ row' = [row EXCEPT !.status = "ready"]
    /\ Done(p)
    /\ UNCHANGED <<files, draining, processVars, history, faults>>

-----------------------------------------------------------------------------
(* health.                                                                 *)

\* A tracked child that has exited is removed from the table; any other is
\* probed.
Health(p) ==
    /\ At(p, "health")
    /\ IF child = "exited"
       THEN /\ child' = "none"
            /\ ThenWrite(p, Row("failed", "stopped", FALSE))
       ELSE /\ handler' = [handler EXCEPT ![p].step = "probe",
                                          ![p].tracked = (child = "alive")]
            /\ UNCHANGED child
    /\ UNCHANGED <<agentVars, orphans, history, faults>>

\* Mutant: the pid stays although there is no child.
UnhealthyKeepsPid(saw) ==
    IF saw.tracked THEN Row("degraded", "running", saw.seen.pid)
    ELSE Row("stopped", saw.seen.desired, saw.seen.pid)

\* Mutant: an agent that does not answer is wanted running, tracked or not.
UnhealthyWanted(saw) ==
    IF saw.tracked THEN Row("degraded", "running", saw.seen.pid)
    ELSE Row("stopped", "running", FALSE)

\* Mutant: an agent that does not answer and has no child is not wanted.
UnhealthyForgotten(saw) ==
    IF saw.tracked THEN Row("degraded", "running", saw.seen.pid)
    ELSE Row("stopped", "stopped", FALSE)

\* What a probe without an answer makes of the row: a tracked child is kept and
\* probed again, without one the desired state is kept for the reconciler.
Unhealthy(saw) ==
    IF saw.tracked
    THEN Row("degraded", IF Java THEN saw.seen.desired ELSE "running", saw.seen.pid)
    ELSE Row("stopped", saw.seen.desired, Java /\ saw.seen.pid)

Healthy(saw) ==
    IF saw.tracked THEN Row("running", "running", saw.seen.pid)
    ELSE Row("degraded", "running", FALSE)

Probe(p) ==
    /\ At(p, "probe")
    /\ \/ Live /\ ThenWrite(p, Healthy(handler[p]))
       \/ ThenWrite(p, Unhealthy(handler[p]))
    /\ UNCHANGED <<agentVars, processVars, history, faults>>

\* The row is overwritten, whatever it is by now.
Write(p) ==
    /\ At(p, "write")
    /\ row' = handler[p].next
    /\ Done(p)
    /\ UNCHANGED <<files, draining, processVars, history, faults>>

-----------------------------------------------------------------------------
(* The reconciler.                                                         *)

\* Mutant: an agent that is as desired needs nothing.
ReconcileUnlessRunning(r) ==
    CASE r.status \in {"failed", "stopped"} /\ r.desired = "running" -> "restart"
      [] r.status = r.desired -> "none"
      [] r.status \in {"running", "starting", "degraded"} \/ r.desired = "running" -> "health"
      [] OTHER -> "none"

ReconcileAction(r) ==
    CASE r.status \in {"failed", "stopped"} /\ r.desired = "running" -> "restart"
      [] r.status \in {"running", "starting", "degraded"} -> "health"
      [] r.status \notin {"failed", "stopped"} /\ r.desired = "running" -> "health"
      [] OTHER -> "none"

\* A pass lists the agents that are not archived ...
ListAgents ==
    /\ row.status # "archived" /\ ReconcileAction(row) # "none"
    /\ Begin(Rec, "gate", NULL)
    /\ UNCHANGED <<halted, owed>>

\* ... skips those that drain, and acts on what it listed.
Reconcile ==
    /\ At(Rec, "gate")
    /\ CASE draining -> Done(Rec)
         [] ~ draining /\ ReconcileAction(handler[Rec].seen) = "restart" ->
               handler' = [handler EXCEPT ![Rec].step = "stop", ![Rec].after = "restart",
                                        ![Rec].seen = NULL]
         [] OTHER -> handler' = [handler EXCEPT ![Rec].step = "health"]
    /\ UNCHANGED <<agentVars, processVars, history, faults>>

-----------------------------------------------------------------------------
(* Faults and the environment.                                             *)

Fault == faults < MaxFaults /\ faults' = faults + 1

\* Is the agent not wanted any more, by a stop that a restart recorded?
Unwanted == row.desired = "stopped"

\* A database call or a file operation of p fails: the operation ends there.
\* A purge goes on when its stop could not be recorded; a restart of the
\* reconciler that ends after its stop leaves an agent nobody wants.
CallFails(p) ==
    /\ Fault
    /\ \/ At(p, "stopped") /\ handler[p].after = "purge" /\ Goto(p, "archive")
       \/ /\ handler[p] # NULL
          /\ handler[p].step \notin {"spawn", "wait", "kill", "stop", "health", "probe"}
          /\ ~ (At(p, "stopped") /\ handler[p].after = "purge")
          /\ Done(p)
    /\ owed' = IF p = Rec /\ owed = "owed" /\ Unwanted THEN "lost" ELSE owed
    /\ UNCHANGED <<agentVars, processVars, excused, halted>>

\* Fleet dies and starts again: its table of children and its handlers are
\* gone, its children may be.  What it should have run it owes from now on; what
\* it owed it still owes, if the row says so.
Crash ==
    /\ Fault
    /\ child' = "none"
    /\ orphans' \in {n \in 0 .. MaxOrphans :
                       n <= IF child = "alive" THEN orphans + 1 ELSE orphans}
    /\ handler' = [p \in Procs |-> NULL]
    /\ excused' = (excused \/ orphans' > 0)
    /\ owed' = CASE row.status = "archived" \/ orphans' > 0 -> "none"
                 [] Unwanted -> IF owed = "none" THEN "none" ELSE "lost"
                 [] OTHER -> IF owed = "none" /\ \E p \in Procs : handler[p] # NULL
                             THEN "none" ELSE "owed"
    /\ UNCHANGED <<agentVars, halted>>

\* A process of the runtime ends.
Die ==
    /\ \/ child = "alive" /\ child' = "exited" /\ UNCHANGED orphans
       \/ orphans > 0 /\ orphans' = orphans - 1 /\ UNCHANGED child
    /\ UNCHANGED <<agentVars, handler, history, faults>>

\* The activator drains the agent and releases it.
Drain ==
    /\ draining' = ~ draining
    /\ UNCHANGED <<row, files, processVars, handler, history, faults>>

Step(p) ==
    \/ CheckTracked(p) \/ WriteStarting(p) \/ Spawn(p) \/ WaitReady(p) \/ GiveUpStart(p)
    \/ Stop(p) \/ WriteStopped(p) \/ WriteArchived(p) \/ PurgeFiles(p)
    \/ Provision(p) \/ WriteReady(p)
    \/ Health(p) \/ Probe(p) \/ Write(p)

BeginOperation(p) ==
    \/ BeginStart(p) \/ BeginRestart(p) \/ BeginStop(p) \/ BeginPurge(p)
    \/ BeginProvision(p) \/ BeginHealth(p)

Reconciler == ListAgents \/ Reconcile \/ Step(Rec)

Next ==
    \/ Reconciler
    \/ \E p \in Operators : BeginOperation(p) \/ Step(p)
    \/ \E p \in Procs : CallFails(p)
    \/ Crash \/ Drain \/ Die

Spec == Init /\ [][Next]_vars

\* The reconciler loop runs while Fleet does, and its calls return.  Operators
\* and activations may come or not.
FairSpec == Spec /\ WF_vars(Reconciler)

-----------------------------------------------------------------------------
\* No process of the runtime is left behind, alive and untracked, whatever
\* starts, stops, restarts, health checks and calls that fail do to each other:
\* it takes a second start that begins before the first has spawned, or a crash
\* of Fleet that its children survive.
NoLeak == excused \/ orphans = 0

\* An agent that was stopped while nothing else was under way stays down until
\* somebody starts or restarts it, or a revision is activated: no health check,
\* provisioning, crash or pass of the reconciler brings it up
\* (docs/RUNTIME.md:36).
StoppedStaysDown == halted => ~ Live

\* A runtime that died is noticed: the row does not say running for ever, unless
\* activations never end (docs/RESILIENCE.md:8).
DeadIsNoticed ==
    <>[] ~ draining =>
        ((row.status = "running" /\ ~ Live) ~> (row.status # "running" \/ Live))

\* A runtime that should run and died with Fleet, at a time when nothing was
\* under way, is started again by the reconciler (docs/RESILIENCE.md:7,
\* docs/RUNTIME.md:35).  The restart of the reconciler breaks this: it first
\* records the agent as stopped, and what interrupts it there is final.
RestoredAfterCrash == <>[] ~ draining => (owed # "none" ~> owed = "none")

\* It holds however often Fleet dies or calls fail, as long as they do not
\* interrupt the reconciler between its recorded stop and its start.
RestoredUnlessCut == <>[] ~ draining => (owed = "owed" ~> owed # "owed")
=============================================================================
