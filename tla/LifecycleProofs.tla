-------------------------- MODULE LifecycleProofs --------------------------
(* Machine-checked safety of AgentLifecycle, for every set of concurrent   *)
(* handlers and every number of faults and orphans.                        *)
EXTENDS AgentLifecycle, TLAPS

USE LifecycleAssumption DEF agentVars, processVars, history

\* The row of a state or of a status write.
LEMMA RowTyped ==
    ASSUME NEW s \in Statuses, NEW d \in Desired, NEW b \in BOOLEAN,
           b => s \notin {"provisioning", "starting", "failed"} /\ (s = "stopped" => Java)
    PROVE  Row(s, d, b) \in Rows
  BY DEF Row, Rows

\* The row that a probe writes, whatever it finds.
LEMMA ProbeTyped ==
    ASSUME NEW h \in Handlers, h.step = "probe"
    PROVE  Healthy(h) \in Rows /\ Unhealthy(h) \in Rows
<1>1. h.seen \in Rows
  BY DEF Handlers
<1>2. h.seen.pid \in BOOLEAN /\ h.seen.desired \in Desired /\ h.tracked \in BOOLEAN
  BY <1>1 DEF Rows, Handlers
<1>3. Row("degraded", IF Java THEN h.seen.desired ELSE "running", h.seen.pid) \in Rows
  BY <1>2, RowTyped DEF Statuses, Desired
<1>4. Row("stopped", h.seen.desired, Java /\ h.seen.pid) \in Rows
  BY <1>2, RowTyped DEF Statuses, Desired
<1>5. Row("running", "running", h.seen.pid) \in Rows /\ Row("degraded", "running", FALSE) \in Rows
  BY <1>2, RowTyped DEF Statuses, Desired
<1> QED
  BY <1>3, <1>4, <1>5 DEF Healthy, Unhealthy

\* A handler that moves to a step which needs nothing of what it knows.
LEMMA GotoTyped ==
    ASSUME TypeOK, NEW p \in Procs, handler[p] # NULL,
           NEW s \in Steps, Goto(p, s),
           s \in {"stopped", "archive"} <=> handler[p].after # NULL,
           s \notin {"gate", "check", "health", "probe", "stop", "write"},
           handler[p].next = NULL
    PROVE  handler' \in [Procs -> Handlers \cup {NULL}]
<1>1. handler[p] \in Handlers
  BY DEF TypeOK
<1>2. [handler[p] EXCEPT !.step = s, !.seen = NULL] \in Handlers
  BY <1>1 DEF Handlers
<1>3. handler' = [handler EXCEPT ![p] = [handler[p] EXCEPT !.step = s, !.seen = NULL]]
  BY <1>1 DEF Goto, TypeOK
<1> QED
  BY <1>2, <1>3 DEF TypeOK

\* A handler that goes on to write.
LEMMA WriteTyped ==
    ASSUME TypeOK, NEW p \in Procs, handler[p] # NULL, handler[p].after = NULL,
           NEW r \in Rows, ThenWrite(p, r)
    PROVE  handler' \in [Procs -> Handlers \cup {NULL}]
<1> DEFINE h == [handler[p] EXCEPT !.step = "write", !.next = r, !.seen = NULL,
                                   !.tracked = FALSE]
<1>1. handler[p] \in Handlers
  BY DEF TypeOK
<1>2. h \in Handlers
  BY <1>1, ZenonT(40) DEF Handlers, Steps
<1>3. handler' = [handler EXCEPT ![p] = h]
  BY <1>1 DEF ThenWrite, TypeOK
<1> QED
  BY <1>2, <1>3 DEF TypeOK

\* A handler that ends.
LEMMA DoneTyped ==
    ASSUME TypeOK, NEW p \in Procs, Done(p)
    PROVE  handler' \in [Procs -> Handlers \cup {NULL}]
  BY DEF TypeOK, Done

\* A handler that begins; only a stop has something to do after it.
LEMMA BeginTyped ==
    ASSUME TypeOK, NEW p \in Procs, NEW s \in Steps, NEW a \in After \cup {NULL},
           Begin(p, s, a), a # NULL <=> s = "stop",
           s \notin {"probe", "write", "stopped", "archive"}
    PROVE  handler' \in [Procs -> Handlers \cup {NULL}]
  BY DEF TypeOK, Begin, Handlers

\* What a handler at a step is.
LEMMA AtTyped ==
    ASSUME TypeOK, NEW p \in Procs, NEW s, At(p, s)
    PROVE  /\ handler[p] # NULL /\ handler[p] \in Handlers /\ handler[p].step = s
           /\ s \in Steps
           /\ handler[p].after # NULL <=> s \in {"stop", "stopped", "archive"}
           /\ handler[p].seen # NULL <=> s \in {"gate", "check", "health", "probe"}
           /\ handler[p].next # NULL <=> s = "write"
           /\ handler[p].after \in After \cup {NULL}
           /\ handler[p].seen \in Rows \cup {NULL}
           /\ handler[p].next \in Rows \cup {NULL}
  BY DEF TypeOK, At, Handlers

-----------------------------------------------------------------------------
\* What a step of a handler other than the row leaves typed follows from this.
LEMMA BeginsTyped ==
    ASSUME TypeOK, NEW p \in Procs, BeginOperation(p)
    PROVE  TypeOK'
<1>1. CASE BeginStart(p)
  <2>1. Begin(p, "check", NULL)
    BY <1>1 DEF BeginStart
  <2>2. handler' \in [Procs -> Handlers \cup {NULL}]
    BY <2>1, BeginTyped DEF Steps, After
  <2> QED
    BY <1>1, <2>1, <2>2 DEF BeginStart, Begin, TypeOK
<1>2. CASE BeginRestart(p)
  <2>1. Begin(p, "stop", "restart")
    BY <1>2 DEF BeginRestart
  <2>2. handler' \in [Procs -> Handlers \cup {NULL}]
    BY <2>1, BeginTyped DEF Steps, After
  <2> QED
    BY <1>2, <2>1, <2>2 DEF BeginRestart, Begin, TypeOK
<1>3. CASE BeginPurge(p)
  <2>1. Begin(p, "stop", "purge")
    BY <1>3 DEF BeginPurge
  <2>2. handler' \in [Procs -> Handlers \cup {NULL}]
    BY <2>1, BeginTyped DEF Steps, After
  <2> QED
    BY <1>3, <2>1, <2>2 DEF BeginPurge, Begin, TypeOK
<1>4. CASE BeginProvision(p)
  <2>1. Begin(p, "provision", NULL)
    BY <1>4 DEF BeginProvision
  <2>2. handler' \in [Procs -> Handlers \cup {NULL}]
    BY <2>1, BeginTyped DEF Steps, After
  <2> QED
    BY <1>4, <2>1, <2>2 DEF BeginProvision, Begin, TypeOK
<1>5. CASE BeginHealth(p)
  <2>1. Begin(p, "health", NULL)
    BY <1>5 DEF BeginHealth
  <2>2. handler' \in [Procs -> Handlers \cup {NULL}]
    BY <2>1, BeginTyped DEF Steps, After
  <2> QED
    BY <1>5, <2>1, <2>2 DEF BeginHealth, Begin, TypeOK
<1>6. CASE BeginStop(p)
  <2>1. PICK op \in {"stop", "archive"} : Begin(p, "stop", op)
    BY <1>6 DEF BeginStop
  <2>2. handler' \in [Procs -> Handlers \cup {NULL}]
    BY <2>1, BeginTyped DEF Steps, After
  <2> QED
    BY <1>6, <2>1, <2>2 DEF BeginStop, Begin, TypeOK
<1> QED
  BY <1>1, <1>2, <1>3, <1>4, <1>5, <1>6 DEF BeginOperation

\* Every step of a handler writes a row of the kinds the code writes.
LEMMA StepTyped ==
    ASSUME TypeOK, NEW p \in Procs, Step(p)
    PROVE  TypeOK'
<1> DEFINE Typed == handler' \in [Procs -> Handlers \cup {NULL}]
<1>1. CASE CheckTracked(p)
  <2>1. At(p, "check")
    BY <1>1 DEF CheckTracked
  <2>2. /\ handler[p] # NULL /\ handler[p].after = NULL /\ handler[p].next = NULL
        /\ handler[p].seen \in Rows /\ handler[p].seen.pid \in BOOLEAN
    BY <2>1, AtTyped DEF Rows
  <2>3. Row("running", "running", handler[p].seen.pid) \in Rows
    BY <2>2, RowTyped DEF Statuses, Desired
  <2>4. Typed
    <3>1. CASE child # "none"
      <4>1. ThenWrite(p, Row("running", "running", handler[p].seen.pid))
        BY <1>1, <3>1 DEF CheckTracked
      <4> QED
        BY <2>2, <2>3, <4>1, WriteTyped
    <3>2. CASE child = "none"
      <4>1. Goto(p, "starting")
        BY <1>1, <3>2 DEF CheckTracked
      <4> QED
        BY <2>2, <4>1, GotoTyped DEF Steps
    <3> QED
      BY <3>1, <3>2
  <2>5. excused' \in BOOLEAN
    BY <1>1 DEF CheckTracked, TypeOK
  <2> QED
    BY <1>1, <2>4, <2>5 DEF CheckTracked, TypeOK
<1>2. CASE WriteStarting(p)
  <2>1. handler[p] # NULL /\ handler[p].after = NULL /\ handler[p].next = NULL
    BY <1>2, AtTyped DEF WriteStarting
  <2>2. Row("starting", "running", FALSE) \in Rows
    BY RowTyped DEF Statuses, Desired
  <2>3. Typed
    BY <1>2, <2>1, GotoTyped DEF WriteStarting, Steps
  <2> QED
    BY <1>2, <2>2, <2>3 DEF WriteStarting, TypeOK
<1>3. CASE Spawn(p)
  <2>1. handler[p] # NULL /\ handler[p].after = NULL /\ handler[p].next = NULL
    BY <1>3, AtTyped DEF Spawn
  <2>2. Row("failed", "stopped", FALSE) \in Rows
    BY RowTyped DEF Statuses, Desired
  <2>3. Typed
    <3>1. Done(p) => Typed
      BY DoneTyped
    <3>2. ThenWrite(p, Row("failed", "stopped", FALSE)) => Typed
      BY <2>1, <2>2, WriteTyped
    <3>3. Goto(p, "wait") => Typed
      BY <2>1, GotoTyped DEF Steps
    <3> QED
      BY <1>3, <3>1, <3>2, <3>3 DEF Spawn
  <2>4. child' \in {"none", "alive", "exited"} /\ orphans' \in 0 .. MaxOrphans
    <3>1. \/ UNCHANGED processVars
          \/ child' = "alive" /\ UNCHANGED orphans
          \/ child' = "alive" /\ orphans < MaxOrphans /\ orphans' = orphans + 1
      BY <1>3 DEF Spawn
    <3>2. orphans \in 0 .. MaxOrphans /\ child \in {"none", "alive", "exited"}
      BY DEF TypeOK
    <3> QED
      BY <3>1, <3>2
  <2> QED
    BY <1>3, <2>3, <2>4 DEF Spawn, TypeOK
<1>4. CASE WaitReady(p)
  <2>1. handler[p] # NULL /\ handler[p].after = NULL /\ handler[p].next = NULL
    BY <1>4, AtTyped DEF WaitReady
  <2>2. Row("running", "running", TRUE) \in Rows
    BY RowTyped DEF Statuses, Desired
  <2>3. ThenWrite(p, Row("running", "running", TRUE)) => Typed
    BY <2>1, <2>2, WriteTyped
  <2>4. Goto(p, "kill") => Typed
    BY <2>1, GotoTyped DEF Steps
  <2> QED
    BY <1>4, <2>3, <2>4 DEF WaitReady, TypeOK
<1>5. CASE GiveUpStart(p)
  <2>1. handler[p] # NULL /\ handler[p].after = NULL
    BY <1>5, AtTyped DEF GiveUpStart
  <2>2. Row("failed", "stopped", FALSE) \in Rows
    BY RowTyped DEF Statuses, Desired
  <2>3. Typed
    BY <1>5, <2>1, <2>2, WriteTyped DEF GiveUpStart
  <2> QED
    BY <1>5, <2>3 DEF GiveUpStart, KillTracked, TypeOK
<1>6. CASE Stop(p)
  <2>1. handler[p] # NULL /\ handler[p].after # NULL /\ handler[p].next = NULL
    BY <1>6, AtTyped DEF Stop
  <2>2. Typed
    BY <1>6, <2>1, GotoTyped DEF Stop, Steps
  <2> QED
    BY <1>6, <2>2 DEF Stop, KillTracked, TypeOK
<1>7. CASE WriteStopped(p)
  <2>1. /\ handler[p] # NULL /\ handler[p].after \in After /\ handler[p].next = NULL
        /\ handler[p] \in Handlers
    BY <1>7, AtTyped DEF WriteStopped
  <2>2. row' \in Rows
    BY <1>7, RowTyped DEF WriteStopped, Statuses, Desired
  <2>3. Typed
    <3>1. CASE handler[p].after = "stop"
      BY <1>7, <3>1, DoneTyped DEF WriteStopped
    <3>2. CASE handler[p].after = "restart"
      <4> DEFINE h == [handler[p] EXCEPT !.step = "check", !.after = NULL, !.seen = row']
      <4>1. h \in Handlers
        BY <2>1, <2>2, ZenonT(40) DEF Handlers, Steps
      <4>2. handler' = [handler EXCEPT ![p] = h]
        BY <1>7, <2>1, <3>2 DEF WriteStopped, TypeOK
      <4> QED
        BY <4>1, <4>2 DEF TypeOK
    <3>3. CASE handler[p].after \in {"archive", "purge"}
      <4>1. Goto(p, "archive")
        BY <1>7, <3>3 DEF WriteStopped
      <4> QED
        BY <2>1, <4>1, GotoTyped DEF Steps, After
    <3> QED
      BY <2>1, <3>1, <3>2, <3>3 DEF After
  <2>4. halted' \in BOOLEAN
    BY <1>7 DEF WriteStopped, TypeOK
  <2> QED
    BY <1>7, <2>2, <2>3, <2>4 DEF WriteStopped, TypeOK
<1>8. CASE WriteArchived(p)
  <2>1. handler[p] \in Handlers /\ handler[p].step = "archive" /\ handler[p].next = NULL
        /\ handler[p].seen = NULL
    BY <1>8, AtTyped DEF WriteArchived
  <2>2. row' \in Rows
    BY <1>8 DEF WriteArchived, TypeOK, Rows, Statuses
  <2>3. Typed
    <3>1. CASE handler[p].after = "purge"
      <4> DEFINE h == [handler[p] EXCEPT !.step = "purge", !.after = NULL]
      <4>1. h \in Handlers
        BY <2>1 DEF Handlers, Steps
      <4>2. handler' = [handler EXCEPT ![p] = h]
        BY <1>8, <2>1, <3>1 DEF WriteArchived, TypeOK
      <4> QED
        BY <4>1, <4>2 DEF TypeOK
    <3>2. CASE handler[p].after # "purge"
      BY <1>8, <3>2, DoneTyped DEF WriteArchived
    <3> QED
      BY <3>1, <3>2
  <2> QED
    BY <1>8, <2>2, <2>3 DEF WriteArchived, TypeOK
<1>9. CASE PurgeFiles(p)
  BY <1>9, DoneTyped DEF PurgeFiles, TypeOK
<1>10. CASE Provision(p)
  <2>1. handler[p] # NULL /\ handler[p].after = NULL /\ handler[p].next = NULL
    BY <1>10, AtTyped DEF Provision
  <2>2. Typed
    BY <1>10, <2>1, GotoTyped DEF Provision, Steps
  <2> QED
    BY <1>10, <2>2 DEF Provision, TypeOK
<1>11. CASE WriteReady(p)
  <2>1. row' \in Rows
    BY <1>11 DEF WriteReady, TypeOK, Rows, Statuses
  <2> QED
    BY <1>11, <2>1, DoneTyped DEF WriteReady, TypeOK
<1>12. CASE Health(p)
  <2>1. handler[p] \in Handlers /\ handler[p].step = "health" /\ handler[p].after = NULL
    BY <1>12, AtTyped DEF Health
  <2>2. Row("failed", "stopped", FALSE) \in Rows
    BY RowTyped DEF Statuses, Desired
  <2>3. Typed
    <3>1. CASE child = "exited"
      BY <1>12, <2>1, <2>2, <3>1, WriteTyped DEF Health
    <3>2. CASE child # "exited"
      <4> DEFINE h == [handler[p] EXCEPT !.step = "probe", !.tracked = (child = "alive")]
      <4>1. h \in Handlers
        BY <2>1 DEF Handlers, Steps
      <4>2. handler' = [handler EXCEPT ![p] = h]
        BY <1>12, <2>1, <3>2 DEF Health, TypeOK
      <4> QED
        BY <4>1, <4>2 DEF TypeOK
    <3> QED
      BY <3>1, <3>2
  <2> QED
    BY <1>12, <2>3 DEF Health, TypeOK
<1>13. CASE Probe(p)
  <2>1. handler[p] # NULL /\ handler[p].after = NULL
        /\ handler[p] \in Handlers /\ handler[p].step = "probe"
    BY <1>13, AtTyped DEF Probe
  <2>2. Typed
    BY <1>13, <2>1, ProbeTyped, WriteTyped DEF Probe
  <2> QED
    BY <1>13, <2>2 DEF Probe, TypeOK
<1>14. CASE Write(p)
  <2>1. handler[p].next \in Rows
    BY <1>14, AtTyped DEF Write
  <2> QED
    BY <1>14, <2>1, DoneTyped DEF Write, TypeOK
<1> QED
  BY <1>1, <1>2, <1>3, <1>4, <1>5, <1>6, <1>7, <1>8, <1>9, <1>10, <1>11,
     <1>12, <1>13, <1>14 DEF Step

\* So does every step.
LEMMA TypeStep == TypeOK /\ [Next]_vars => TypeOK'
<1> SUFFICES ASSUME TypeOK, [Next]_vars PROVE TypeOK'
  OBVIOUS
<1>1. CASE ListAgents
  <2>1. handler' \in [Procs -> Handlers \cup {NULL}]
    BY <1>1, BeginTyped DEF ListAgents, Steps, Procs
  <2> QED
    BY <1>1, <2>1 DEF ListAgents, Begin, TypeOK
<1>2. CASE Reconcile
  <2>1. handler[Rec] \in Handlers /\ handler[Rec].step = "gate" /\ handler[Rec].after = NULL
        /\ handler[Rec].next = NULL /\ handler[Rec].seen # NULL /\ Rec \in Procs
    BY <1>2, AtTyped DEF Reconcile, Procs
  <2> DEFINE stopping == [handler[Rec] EXCEPT !.step = "stop", !.after = "restart", !.seen = NULL]
             probing == [handler[Rec] EXCEPT !.step = "health"]
  <2>2. stopping \in Handlers /\ probing \in Handlers
    BY <2>1 DEF Handlers, Steps, After
  <2>3. \/ Done(Rec)
        \/ handler' = [handler EXCEPT ![Rec] = stopping]
        \/ handler' = [handler EXCEPT ![Rec] = probing]
    BY <1>2, <2>1 DEF Reconcile, TypeOK
  <2>4. handler' \in [Procs -> Handlers \cup {NULL}]
    BY <2>1, <2>2, <2>3, DoneTyped DEF TypeOK
  <2> QED
    BY <1>2, <2>4 DEF Reconcile, TypeOK
<1>3. ASSUME NEW p \in Procs, Step(p) PROVE TypeOK'
  BY <1>3, StepTyped
<1>4. ASSUME NEW p \in Operators, BeginOperation(p) PROVE TypeOK'
  BY <1>4, BeginsTyped DEF Procs
<1>5. ASSUME NEW p \in Procs, CallFails(p) PROVE TypeOK'
  <2>1. faults' \in 0 .. MaxFaults
    BY <1>5 DEF CallFails, Fault, TypeOK
  <2>2. CASE At(p, "stopped") /\ handler[p].after = "purge" /\ Goto(p, "archive")
    <3>1. handler' \in [Procs -> Handlers \cup {NULL}]
      BY <2>2, AtTyped, GotoTyped DEF Steps, After
    <3> QED
      BY <1>5, <2>1, <3>1 DEF CallFails, TypeOK
  <2>3. CASE Done(p)
    BY <1>5, <2>1, <2>3, DoneTyped DEF CallFails, TypeOK
  <2> QED
    BY <1>5, <2>2, <2>3 DEF CallFails
<1>6. CASE Crash
  BY <1>6 DEF Crash, Fault, TypeOK, Procs
<1>7. CASE Drain
  BY <1>7 DEF Drain, TypeOK
<1>8. CASE Die
  BY <1>8 DEF Die, TypeOK
<1>9. CASE UNCHANGED vars
  BY <1>9 DEF vars, TypeOK
<1> QED
  BY <1>1, <1>2, <1>3, <1>4, <1>5, <1>6, <1>7, <1>8, <1>9 DEF Next, Reconciler, Procs

\* The agent has been created and never started.
LEMMA TypeInit == Init => TypeOK
<1>1. Row("provisioning", "stopped", FALSE) \in Rows
  BY RowTyped DEF Statuses, Desired
<1>2. 0 \in 0 .. MaxOrphans /\ 0 \in 0 .. MaxFaults
  OBVIOUS
<1> QED
  BY <1>1, <1>2 DEF Init, TypeOK

\* Row, table of children and handlers keep their types, and no pid is recorded
\* where there cannot be a process.
THEOREM TypeCorrect == Spec => []TypeOK
  BY TypeInit, TypeStep, PTL DEF Spec

-----------------------------------------------------------------------------
(* No process is left behind.                                              *)

\* p has found no child and has not spawned yet.
Starting(p) == At(p, "starting") \/ At(p, "spawn")

\* Two starts at once are an excuse, and so is a child that another start got
\* while p was starting.
LeakInv ==
    /\ NoLeak
    /\ \A p, q \in Procs : p # q /\ Starting(p) /\ Starting(q) => excused
    /\ \A p \in Procs : Starting(p) /\ child = "alive" => excused

\* A step that neither begins a start nor spawns nor leaves a process behind.
Calm ==
    /\ \A q \in Procs : Starting(q)' => Starting(q)
    /\ excused => excused'
    /\ child' = "alive" => child = "alive"
    /\ orphans = 0 => orphans' = 0

\* A calm step leaves no process behind.
LEMMA CalmKeeps == ASSUME LeakInv, Calm PROVE LeakInv'
  BY DEF LeakInv, Calm, NoLeak

\* A step of p leaves the other handlers where they are.
LEMMA MovesAny ==
    ASSUME TypeOK, NEW p \in Procs, NEW h,
           handler' = [handler EXCEPT ![p] = h],
           h = NULL \/ h.step \notin {"starting", "spawn"} \/ Starting(p)
    PROVE  \A q \in Procs : Starting(q)' => Starting(q)
  BY DEF TypeOK, Starting, At

\* A step of p that goes elsewhere than to a start begins none.
LEMMA Moves ==
    ASSUME TypeOK, NEW p \in Procs, handler[p] # NULL,
           \/ \E s \in Steps \ {"starting", "spawn"} : Goto(p, s)
           \/ \E r \in Rows : ThenWrite(p, r)
           \/ Done(p)
    PROVE  \A q \in Procs : Starting(q)' => Starting(q)
<1>1. handler[p] \in Handlers
  BY DEF TypeOK
<1>2. ASSUME NEW s \in Steps \ {"starting", "spawn"}, Goto(p, s)
      PROVE  \A q \in Procs : Starting(q)' => Starting(q)
  <2> DEFINE h == [handler[p] EXCEPT !.step = s, !.seen = NULL]
  <2>1. handler' = [handler EXCEPT ![p] = h]
    BY <1>1, <1>2 DEF Goto, TypeOK
  <2>2. h.step \notin {"starting", "spawn"}
    BY <1>1 DEF Handlers
  <2> QED
    BY <2>1, <2>2, MovesAny
<1>3. ASSUME NEW r \in Rows, ThenWrite(p, r)
      PROVE  \A q \in Procs : Starting(q)' => Starting(q)
  <2> DEFINE h == [handler[p] EXCEPT !.step = "write", !.next = r, !.seen = NULL,
                                     !.tracked = FALSE]
  <2>1. handler' = [handler EXCEPT ![p] = h]
    BY <1>1, <1>3 DEF ThenWrite, TypeOK
  <2>2. h.step \notin {"starting", "spawn"}
    BY <1>1 DEF Handlers
  <2> QED
    BY <2>1, <2>2, MovesAny
<1>4. ASSUME Done(p) PROVE \A q \in Procs : Starting(q)' => Starting(q)
  BY <1>4, MovesAny DEF Done
<1> QED
  BY <1>2, <1>3, <1>4

\* A step of a handler is calm, or is excused, or begins a start with no child alive.
LEMMA StepLeak ==
    ASSUME TypeOK, LeakInv, NEW p \in Procs, Step(p)
    PROVE  LeakInv'
<1> DEFINE Calmly == \A q \in Procs : Starting(q)' => Starting(q)
<1>a. /\ Row("failed", "stopped", FALSE) \in Rows
      /\ Row("running", "running", TRUE) \in Rows
  BY RowTyped DEF Statuses, Desired
<1>1. CASE CheckTracked(p)
  <2>1. handler[p] \in Handlers /\ handler[p].seen \in Rows /\ handler[p].seen.pid \in BOOLEAN
    BY <1>1, AtTyped DEF CheckTracked, Rows
  <2>2. CASE child # "none"
    <3>1. Row("running", "running", handler[p].seen.pid) \in Rows
      BY <2>1, RowTyped DEF Statuses, Desired
    <3>2. Calmly
      BY <1>1, <2>1, <2>2, <3>1, Moves DEF CheckTracked
    <3> QED
      BY <1>1, <2>2, <3>2, CalmKeeps DEF CheckTracked, Calm
  <2>3. CASE child = "none"
    <3> DEFINE h == [handler[p] EXCEPT !.step = "starting", !.seen = NULL]
    <3>1. handler' = [handler EXCEPT ![p] = h]
      BY <1>1, <2>1, <2>3 DEF CheckTracked, Goto, TypeOK
    <3>2. \A q \in Procs \ {p} : Starting(q)' => Starting(q)
      BY <3>1 DEF TypeOK, Starting, At
    <3>3. excused' = (excused \/ \E q \in Procs \ {p} : Starting(q))
      BY <1>1, <2>3 DEF CheckTracked, Starting
    <3>4. UNCHANGED <<child, orphans>>
      BY <1>1 DEF CheckTracked
    <3> QED
      BY <2>3, <3>2, <3>3, <3>4 DEF LeakInv, NoLeak
  <2> QED
    BY <2>2, <2>3
<1>2. CASE WriteStarting(p)
  <2>1. handler[p] \in Handlers /\ Starting(p)
    BY <1>2, AtTyped DEF WriteStarting, Starting
  <2> DEFINE h == [handler[p] EXCEPT !.step = "spawn", !.seen = NULL]
  <2>2. handler' = [handler EXCEPT ![p] = h]
    BY <1>2, <2>1 DEF WriteStarting, Goto, TypeOK
  <2>3. Calmly
    BY <2>1, <2>2, MovesAny
  <2> QED
    BY <1>2, <2>3, CalmKeeps DEF WriteStarting, Calm
<1>3. CASE Spawn(p)
  <2>1. handler[p] \in Handlers /\ handler[p] # NULL /\ Starting(p)
    BY <1>3, AtTyped DEF Spawn, Starting
  <2>2. Calmly
    BY <1>3, <1>a, <2>1, Moves DEF Spawn, Steps
  <2>3. CASE UNCHANGED processVars
    BY <1>3, <2>2, <2>3, CalmKeeps DEF Spawn, Calm
  <2>4. CASE child = "alive"
    BY <1>3, <2>1, <2>4 DEF Spawn, LeakInv, NoLeak
  <2>5. CASE child # "alive" /\ Goto(p, "wait") /\ child' = "alive" /\ UNCHANGED orphans
    <3>1. ~ Starting(p)'
      <4>1. handler[p] \in Handlers
        BY <2>1
      <4>2. handler'[p].step = "wait"
        BY <2>5, <4>1 DEF Goto, TypeOK, Handlers
      <4> QED
        BY <4>2 DEF Starting, At
    <3>2. ASSUME NEW q \in Procs, Starting(q)' PROVE excused
      BY <2>1, <2>2, <3>1, <3>2 DEF LeakInv
    <3>3. UNCHANGED excused
      BY <1>3 DEF Spawn
    <3> QED
      BY <2>5, <3>2, <3>3 DEF LeakInv, NoLeak
  <2> QED
    BY <1>3, <2>3, <2>4, <2>5 DEF Spawn
<1>4. CASE WaitReady(p)
  <2>1. handler[p] # NULL /\ handler[p] \in Handlers
    BY <1>4, AtTyped DEF WaitReady
  <2>2. Calmly
    BY <1>4, <1>a, <2>1, Moves DEF WaitReady, Steps
  <2> QED
    BY <1>4, <2>2, CalmKeeps DEF WaitReady, Calm
<1>5. CASE GiveUpStart(p)
  <2>1. handler[p] # NULL /\ handler[p] \in Handlers
    BY <1>5, AtTyped DEF GiveUpStart
  <2>2. Calmly
    BY <1>5, <1>a, <2>1, Moves DEF GiveUpStart, Steps
  <2> QED
    BY <1>5, <2>2, CalmKeeps DEF GiveUpStart, Calm, KillTracked
<1>6. CASE Stop(p)
  <2>1. handler[p] # NULL /\ handler[p] \in Handlers
    BY <1>6, AtTyped DEF Stop
  <2>2. Calmly
    BY <1>6, <1>a, <2>1, Moves DEF Stop, Steps
  <2> QED
    BY <1>6, <2>2, CalmKeeps DEF Stop, Calm, KillTracked
<1>7. CASE WriteStopped(p)
  <2>1. handler[p] # NULL /\ handler[p] \in Handlers
    BY <1>7, AtTyped DEF WriteStopped
  <2> DEFINE h == [handler[p] EXCEPT !.step = "check", !.after = NULL, !.seen = row']
  <2>2. Done(p) \/ Goto(p, "archive") \/ handler' = [handler EXCEPT ![p] = h]
    BY <1>7, <2>1 DEF WriteStopped, TypeOK
  <2>3. h.step = "check"
    BY <2>1 DEF Handlers
  <2>4. Calmly
    BY <2>1, <2>2, <2>3, Moves, MovesAny DEF Steps
  <2> QED
    BY <1>7, <2>4, CalmKeeps DEF WriteStopped, Calm
<1>8. CASE WriteArchived(p)
  <2>1. handler[p] # NULL /\ handler[p] \in Handlers
    BY <1>8, AtTyped DEF WriteArchived
  <2> DEFINE h == [handler[p] EXCEPT !.step = "purge", !.after = NULL]
  <2>2. Done(p) \/ handler' = [handler EXCEPT ![p] = h]
    BY <1>8, <2>1 DEF WriteArchived, TypeOK
  <2>3. h.step = "purge"
    BY <2>1 DEF Handlers
  <2>4. Calmly
    BY <2>1, <2>2, <2>3, Moves, MovesAny
  <2> QED
    BY <1>8, <2>4, CalmKeeps DEF WriteArchived, Calm
<1>9. CASE PurgeFiles(p)
  <2>1. handler[p] # NULL /\ handler[p] \in Handlers
    BY <1>9, AtTyped DEF PurgeFiles
  <2>2. Calmly
    BY <1>9, <1>a, <2>1, Moves DEF PurgeFiles, Steps
  <2> QED
    BY <1>9, <2>2, CalmKeeps DEF PurgeFiles, Calm
<1>10. CASE Provision(p)
  <2>1. handler[p] # NULL /\ handler[p] \in Handlers
    BY <1>10, AtTyped DEF Provision
  <2>2. Calmly
    BY <1>10, <1>a, <2>1, Moves DEF Provision, Steps
  <2> QED
    BY <1>10, <2>2, CalmKeeps DEF Provision, Calm
<1>11. CASE WriteReady(p)
  <2>1. handler[p] # NULL /\ handler[p] \in Handlers
    BY <1>11, AtTyped DEF WriteReady
  <2>2. Calmly
    BY <1>11, <1>a, <2>1, Moves DEF WriteReady, Steps
  <2> QED
    BY <1>11, <2>2, CalmKeeps DEF WriteReady, Calm
<1>12. CASE Health(p)
  <2>1. handler[p] # NULL /\ handler[p] \in Handlers
    BY <1>12, AtTyped DEF Health
  <2> DEFINE h == [handler[p] EXCEPT !.step = "probe", !.tracked = (child = "alive")]
  <2>2. \/ ThenWrite(p, Row("failed", "stopped", FALSE))
        \/ handler' = [handler EXCEPT ![p] = h]
    BY <1>12, <2>1 DEF Health, TypeOK
  <2>3. h.step = "probe"
    BY <2>1 DEF Handlers
  <2>4. Calmly
    BY <1>a, <2>1, <2>2, <2>3, Moves, MovesAny, ZenonT(40)
  <2> QED
    BY <1>12, <2>4, CalmKeeps DEF Health, Calm
<1>13. CASE Probe(p)
  <2>1. handler[p] # NULL /\ handler[p] \in Handlers
    BY <1>13, AtTyped DEF Probe
  <2>2. Healthy(handler[p]) \in Rows /\ Unhealthy(handler[p]) \in Rows
    BY <1>13, AtTyped, ProbeTyped DEF Probe
  <2>3. Calmly
    BY <1>13, <2>1, <2>2, Moves DEF Probe
  <2> QED
    BY <1>13, <2>3, CalmKeeps DEF Probe, Calm
<1>14. CASE Write(p)
  <2>1. handler[p] # NULL /\ handler[p] \in Handlers
    BY <1>14, AtTyped DEF Write
  <2>2. Calmly
    BY <1>14, <1>a, <2>1, Moves DEF Write, Steps
  <2> QED
    BY <1>14, <2>2, CalmKeeps DEF Write, Calm
<1> QED
  BY <1>1, <1>2, <1>3, <1>4, <1>5, <1>6, <1>7, <1>8, <1>9, <1>10, <1>11,
     <1>12, <1>13, <1>14 DEF Step

\* An operation that begins has not looked at the table yet.
LEMMA BeginsLeak ==
    ASSUME TypeOK, LeakInv, NEW p \in Procs, BeginOperation(p)
    PROVE  LeakInv'
<1>1. PICK s \in {"check", "stop", "provision", "health"}, a \in After \cup {NULL} : Begin(p, s, a)
  BY DEF BeginOperation, BeginStart, BeginRestart, BeginStop, BeginPurge,
         BeginProvision, BeginHealth, After
<1>2. \A q \in Procs : Starting(q)' => Starting(q)
  BY <1>1 DEF Begin, Starting, At, TypeOK
<1> QED
  BY <1>1, <1>2, CalmKeeps DEF Begin, Calm

\* No step leaves a process behind without an excuse.
LEMMA LeakStep == TypeOK /\ LeakInv /\ [Next]_vars => LeakInv'
<1> SUFFICES ASSUME TypeOK, LeakInv, [Next]_vars PROVE LeakInv'
  OBVIOUS
<1>1. CASE ListAgents
  <2>1. \A q \in Procs : Starting(q)' => Starting(q)
    BY <1>1 DEF ListAgents, Begin, Starting, At, TypeOK, Procs
  <2> QED
    BY <1>1, <2>1, CalmKeeps DEF ListAgents, Begin, Calm
<1>2. CASE Reconcile
  <2>1. handler[Rec] \in Handlers /\ handler[Rec] # NULL /\ Rec \in Procs
    BY <1>2, AtTyped DEF Reconcile, Procs
  <2> DEFINE stopping == [handler[Rec] EXCEPT !.step = "stop", !.after = "restart", !.seen = NULL]
             probing == [handler[Rec] EXCEPT !.step = "health"]
  <2>2. stopping.step = "stop" /\ probing.step = "health"
    BY <2>1 DEF Handlers
  <2>3. \/ Done(Rec)
        \/ handler' = [handler EXCEPT ![Rec] = stopping]
        \/ handler' = [handler EXCEPT ![Rec] = probing]
    BY <1>2, <2>1 DEF Reconcile, TypeOK
  <2>4. \A q \in Procs : Starting(q)' => Starting(q)
    BY <2>1, <2>2, <2>3, Moves, MovesAny
  <2> QED
    BY <1>2, <2>4, CalmKeeps DEF Reconcile, Calm
<1>3. ASSUME NEW p \in Procs, Step(p) PROVE LeakInv'
  BY <1>3, StepLeak
<1>4. ASSUME NEW p \in Operators, BeginOperation(p) PROVE LeakInv'
  BY <1>4, BeginsLeak DEF Procs
<1>5. ASSUME NEW p \in Procs, CallFails(p) PROVE LeakInv'
  <2>1. handler[p] # NULL /\ (Done(p) \/ Goto(p, "archive"))
    BY <1>5 DEF CallFails, At
  <2>2. \A q \in Procs : Starting(q)' => Starting(q)
    BY <2>1, Moves DEF Steps
  <2> QED
    BY <1>5, <2>2, CalmKeeps DEF CallFails, Calm
<1>6. CASE Crash
  <2>1. \A q \in Procs : ~ Starting(q)'
    BY <1>6 DEF Crash, Starting, At
  <2>2. orphans' \in 0 .. MaxOrphans
    BY <1>6 DEF Crash
  <2>3. CASE orphans' = 0
    BY <2>1, <2>3 DEF LeakInv, NoLeak
  <2>4. CASE orphans' > 0
    <3>1. excused' = TRUE
      BY <1>6, <2>4 DEF Crash
    <3> QED
      BY <2>1, <3>1 DEF LeakInv, NoLeak
  <2> QED
    BY <2>2, <2>3, <2>4
<1>7. CASE Drain
  BY <1>7, CalmKeeps DEF Drain, Calm, Starting, At
<1>8. CASE Die
  <2>1. orphans = 0 => orphans' = 0
    BY <1>8 DEF Die
  <2> QED
    BY <1>8, <2>1, CalmKeeps DEF Die, Calm, Starting, At
<1>9. CASE UNCHANGED vars
  BY <1>9, CalmKeeps DEF vars, Calm, Starting, At
<1> QED
  BY <1>1, <1>2, <1>3, <1>4, <1>5, <1>6, <1>7, <1>8, <1>9 DEF Next, Reconciler, Procs

\* There is no process at first.
LEMMA LeakInit == Init => LeakInv
  BY DEF Init, LeakInv, NoLeak, Starting, At

\* A process of the runtime is left alive outside the table of children only by
\* two overlapping starts or a crash of Fleet.
THEOREM ProcessesAreTracked == Spec => []NoLeak
<1>1. Init => TypeOK /\ LeakInv
  BY TypeInit, LeakInit
<1>2. TypeOK /\ LeakInv /\ [Next]_vars => TypeOK' /\ LeakInv'
  BY TypeStep, LeakStep
<1>3. LeakInv => NoLeak
  BY DEF LeakInv
<1> QED
  BY <1>1, <1>2, <1>3, PTL DEF Spec

-----------------------------------------------------------------------------
(* A stopped agent stays down.                                             *)

\* A handler that cannot bring the agent up, nor want it up.
Quiet(h) ==
    h # NULL =>
       /\ h.step \notin {"check", "starting", "spawn", "wait", "kill"}
       /\ h.after # "restart"
       /\ h.step \in {"gate", "health", "probe"} => h.seen.desired = "stopped"
       /\ h.step = "probe" => ~ h.tracked
       /\ h.step = "write" => h.next.desired = "stopped"

HaltInv ==
    halted =>
       /\ ~ Live
       /\ row.desired = "stopped"
       /\ \A p \in Procs : Quiet(handler[p])

\* A step of p that ends it, writes down its last row, or moves on from a stop or
\* a write of files.
LEMMA QuietMoves ==
    ASSUME TypeOK, NEW p \in Procs, handler[p] # NULL,
           \A q \in Procs : Quiet(handler[q]),
           \/ \E s \in {"stopped", "archive", "ready"} : Goto(p, s)
           \/ \E r \in Rows : r.desired = "stopped" /\ ThenWrite(p, r)
           \/ Done(p)
           \/ \E h \in Handlers : Quiet(h) /\ handler' = [handler EXCEPT ![p] = h]
    PROVE  \A q \in Procs : Quiet(handler[q])'
<1>1. handler[p] \in Handlers
  BY DEF TypeOK
<1>2. ASSUME NEW h, Quiet(h), handler' = [handler EXCEPT ![p] = h]
      PROVE  \A q \in Procs : Quiet(handler[q])'
  <2> SUFFICES ASSUME NEW q \in Procs PROVE Quiet(handler'[q])
    BY DEF Quiet
  <2>1. handler'[q] = IF q = p THEN h ELSE handler[q]
    BY <1>2 DEF TypeOK
  <2> QED
    BY <1>2, <2>1
<1>3. ASSUME NEW s \in {"stopped", "archive", "ready"}, Goto(p, s)
      PROVE  \A q \in Procs : Quiet(handler[q])'
  <2> DEFINE h == [handler[p] EXCEPT !.step = s, !.seen = NULL]
  <2>1. handler' = [handler EXCEPT ![p] = h]
    BY <1>1, <1>3 DEF Goto, TypeOK
  <2>2. h.step = s /\ h.after = handler[p].after
    BY <1>1 DEF Handlers
  <2>3. Quiet(h)
    BY <2>2 DEF Quiet
  <2> QED
    BY <1>2, <2>1, <2>3
<1>4. ASSUME NEW r \in Rows, r.desired = "stopped", ThenWrite(p, r)
      PROVE  \A q \in Procs : Quiet(handler[q])'
  <2> DEFINE h == [handler[p] EXCEPT !.step = "write", !.next = r, !.seen = NULL,
                                     !.tracked = FALSE]
  <2>1. handler' = [handler EXCEPT ![p] = h]
    BY <1>1, <1>4 DEF ThenWrite, TypeOK
  <2>2. h.step = "write" /\ h.next = r /\ h.after = handler[p].after
    BY <1>1 DEF Handlers
  <2>3. Quiet(h)
    BY <1>4, <2>2 DEF Quiet
  <2> QED
    BY <1>2, <2>1, <2>3
<1>5. ASSUME Done(p) PROVE \A q \in Procs : Quiet(handler[q])'
  <2>1. Quiet(NULL)
    BY DEF Quiet
  <2> QED
    BY <1>2, <1>5, <2>1 DEF Done
<1> QED
  BY <1>2, <1>3, <1>4, <1>5

\* A step of a quiet handler starts nothing, and a stop makes the agent halted only when it is alone.
LEMMA StepHalt ==
    ASSUME TypeOK, HaltInv, NEW p \in Procs, Step(p)
    PROVE  HaltInv'
<1> DEFINE AllQuiet == \A q \in Procs : Quiet(handler[q])
<1>a. CASE ~ halted
  <2>1. CASE WriteStopped(p)
    <3> SUFFICES ASSUME halted' PROVE HaltInv'
      BY DEF HaltInv
    <3>1. handler[p].after = "stop" /\ Alone(p) /\ ~ Live
      BY <1>a, <2>1 DEF WriteStopped, TypeOK
    <3>2. Done(p) /\ row' = Row("stopped", "stopped", FALSE) /\ UNCHANGED processVars
      BY <2>1, <3>1 DEF WriteStopped
    <3>3. \A q \in Procs : handler'[q] = NULL
      BY <3>1, <3>2 DEF Done, Alone, TypeOK
    <3>4. AllQuiet'
      BY <3>3 DEF Quiet
    <3>5. row'.desired = "stopped"
      BY <3>2 DEF Row
    <3> QED
      BY <3>1, <3>2, <3>4, <3>5 DEF HaltInv, Live
  <2>2. CASE ~ WriteStopped(p)
    <3>1. UNCHANGED halted
      BY <2>2 DEF Step, CheckTracked, WriteStarting, Spawn, WaitReady, GiveUpStart,
                  Stop, WriteArchived, PurgeFiles, Provision, WriteReady, Health,
                  Probe, Write
    <3> QED
      BY <1>a, <3>1 DEF HaltInv
  <2> QED
    BY <2>1, <2>2
<1>b. CASE halted
  <2> USE <1>b
  <2>0. ~ Live /\ row.desired = "stopped" /\ AllQuiet
    BY DEF HaltInv
  <2>a. /\ Row("failed", "stopped", FALSE) \in Rows
        /\ Row("failed", "stopped", FALSE).desired = "stopped"
    BY RowTyped DEF Statuses, Desired, Row
  <2>1. \A s \in {"check", "starting", "spawn", "wait", "kill"} : ~ At(p, s)
    BY <2>0 DEF Quiet, At
  <2>2. CASE Stop(p)
    <3>1. handler[p] # NULL
      BY <2>2, AtTyped DEF Stop
    <3>2. AllQuiet'
      BY <2>0, <2>2, <3>1, QuietMoves DEF Stop
    <3> QED
      BY <2>0, <2>2, <3>2 DEF Stop, KillTracked, HaltInv, Live
  <2>3. CASE WriteStopped(p)
    <3>1. handler[p] # NULL /\ handler[p].after # "restart"
      BY <2>0, <2>3, AtTyped DEF WriteStopped, Quiet
    <3>2. Done(p) \/ Goto(p, "archive")
      BY <2>3, <3>1 DEF WriteStopped
    <3>3. AllQuiet'
      BY <2>0, <3>1, <3>2, QuietMoves
    <3>4. row'.desired = "stopped"
      BY <2>3 DEF WriteStopped, Row
    <3> QED
      BY <2>0, <2>3, <3>3, <3>4 DEF WriteStopped, HaltInv, Live
  <2>4. CASE WriteArchived(p)
    <3>1. handler[p] # NULL /\ handler[p] \in Handlers /\ handler[p].step = "archive"
          /\ handler[p].next = NULL /\ handler[p].seen = NULL
      BY <2>4, AtTyped DEF WriteArchived
    <3> DEFINE h == [handler[p] EXCEPT !.step = "purge", !.after = NULL]
    <3>2. Done(p) \/ handler' = [handler EXCEPT ![p] = h]
      BY <2>4, <3>1 DEF WriteArchived, TypeOK
    <3>3. h \in Handlers /\ h.step = "purge" /\ h.after = NULL
      BY <3>1 DEF Handlers, Steps
    <3>4. Quiet(h)
      BY <3>3 DEF Quiet, After
    <3>5. AllQuiet'
      BY <2>0, <3>1, <3>2, <3>3, <3>4, QuietMoves
    <3>6. row'.desired = row.desired
      BY <2>4 DEF WriteArchived, TypeOK, Rows
    <3> QED
      BY <2>0, <2>4, <3>5, <3>6 DEF WriteArchived, HaltInv, Live
  <2>5. CASE PurgeFiles(p)
    <3>1. AllQuiet'
      BY <2>0, <2>5, AtTyped, QuietMoves DEF PurgeFiles
    <3> QED
      BY <2>0, <2>5, <3>1 DEF PurgeFiles, HaltInv, Live
  <2>6. CASE Provision(p)
    <3>1. AllQuiet'
      BY <2>0, <2>6, AtTyped, QuietMoves DEF Provision
    <3> QED
      BY <2>0, <2>6, <3>1 DEF Provision, HaltInv, Live
  <2>7. CASE WriteReady(p)
    <3>1. AllQuiet'
      BY <2>0, <2>7, AtTyped, QuietMoves DEF WriteReady
    <3>2. row'.desired = row.desired
      BY <2>7 DEF WriteReady, TypeOK, Rows
    <3> QED
      BY <2>0, <2>7, <3>1, <3>2 DEF WriteReady, HaltInv, Live
  <2>8. CASE Health(p)
    <3>1. /\ handler[p] # NULL /\ handler[p] \in Handlers /\ handler[p].step = "health"
          /\ handler[p].seen \in Rows /\ handler[p].after = NULL
      BY <2>8, AtTyped DEF Health
    <3> DEFINE h == [handler[p] EXCEPT !.step = "probe", !.tracked = (child = "alive")]
    <3>2. \/ ThenWrite(p, Row("failed", "stopped", FALSE))
          \/ handler' = [handler EXCEPT ![p] = h]
      BY <2>8, <3>1 DEF Health, TypeOK
    <3>3. h \in Handlers /\ h.step = "probe" /\ h.after = NULL /\ h.seen = handler[p].seen
          /\ h.tracked = (child = "alive")
      BY <3>1 DEF Handlers, Steps
    <3>4. child # "alive" /\ handler[p].seen.desired = "stopped"
      BY <2>0, <3>1 DEF Live, Quiet
    <3>5. Quiet(h)
      BY <3>3, <3>4 DEF Quiet, After
    <3>6. AllQuiet'
      BY <2>0, <2>a, <3>1, <3>2, <3>3, <3>5, QuietMoves
    <3>7. ~ Live'
      BY <2>0, <2>8 DEF Health, Live
    <3> QED
      BY <2>0, <2>8, <3>6, <3>7 DEF Health, HaltInv
  <2>9. CASE Probe(p)
    <3>1. /\ handler[p] # NULL /\ handler[p] \in Handlers /\ handler[p].step = "probe"
          /\ handler[p].seen.desired = "stopped" /\ ~ handler[p].tracked
      BY <2>0, <2>9, AtTyped DEF Probe, Quiet
    <3>2. Unhealthy(handler[p]) \in Rows /\ Unhealthy(handler[p]).desired = "stopped"
      BY <3>1, ProbeTyped DEF Unhealthy, Row
    <3>3. ThenWrite(p, Unhealthy(handler[p]))
      BY <2>0, <2>9 DEF Probe
    <3>4. AllQuiet'
      BY <2>0, <3>1, <3>2, <3>3, QuietMoves
    <3> QED
      BY <2>0, <2>9, <3>4 DEF Probe, HaltInv, Live
  <2>10. CASE Write(p)
    <3>1. row'.desired = "stopped"
      BY <2>0, <2>10, AtTyped DEF Write, Quiet
    <3>2. AllQuiet'
      BY <2>0, <2>10, AtTyped, QuietMoves DEF Write
    <3> QED
      BY <2>0, <2>10, <3>1, <3>2 DEF Write, HaltInv, Live
  <2> QED
    BY <2>1, <2>2, <2>3, <2>4, <2>5, <2>6, <2>7, <2>8, <2>9, <2>10
       DEF Step, CheckTracked, WriteStarting, Spawn, WaitReady, GiveUpStart
<1> QED
  BY <1>a, <1>b

\* Whatever begins on a halted agent reads that it should be stopped, or ends the halt.
LEMMA BeginsHalt ==
    ASSUME TypeOK, HaltInv, NEW p \in Procs, BeginOperation(p) \/ (p = Rec /\ ListAgents)
    PROVE  HaltInv'
<1> SUFFICES ASSUME halted' PROVE HaltInv'
  BY DEF HaltInv
<1>1. PICK s \in {"gate", "stop", "provision", "health"}, a \in {"stop", "archive", "purge", NULL} :
         Begin(p, s, a) /\ halted
  BY DEF BeginOperation, BeginStart, BeginRestart, BeginStop, BeginPurge,
         BeginProvision, BeginHealth, ListAgents
<1> DEFINE h == [step |-> s, after |-> a, next |-> NULL, tracked |-> FALSE,
                 seen |-> IF s \in {"gate", "check", "health"} THEN row ELSE NULL]
<1>2. ~ Live /\ row.desired = "stopped" /\ \A q \in Procs : Quiet(handler[q])
  BY <1>1 DEF HaltInv
<1>3. handler' = [handler EXCEPT ![p] = h]
  BY <1>1 DEF Begin
<1>4. Quiet(h)
  BY <1>2 DEF Quiet, After
<1>5. ASSUME NEW q \in Procs PROVE Quiet(handler[q])'
  <2>1. handler'[q] = IF q = p THEN h ELSE handler[q]
    BY <1>3 DEF TypeOK
  <2> HIDE DEF h
  <2>2. Quiet(handler'[q])
    BY <1>2, <1>4, <2>1
  <2> QED
    BY <2>2 DEF Quiet
<1>6. UNCHANGED <<row, child, orphans>>
  BY <1>1 DEF Begin
<1> QED
  BY <1>2, <1>5, <1>6 DEF HaltInv, Live

\* Every step keeps a halted agent down, or ends the halt.
LEMMA HaltStep == TypeOK /\ HaltInv /\ [Next]_vars => HaltInv'
<1> SUFFICES ASSUME TypeOK, HaltInv, [Next]_vars PROVE HaltInv'
  OBVIOUS
<1>1. ASSUME NEW p \in Procs, BeginOperation(p) \/ (p = Rec /\ ListAgents) PROVE HaltInv'
  BY <1>1, BeginsHalt
<1>2. CASE Reconcile
  <2> SUFFICES ASSUME halted' PROVE HaltInv'
    BY DEF HaltInv
  <2>1. UNCHANGED <<row, child, orphans, halted>>
    BY <1>2 DEF Reconcile
  <2>2. ~ Live /\ row.desired = "stopped" /\ \A q \in Procs : Quiet(handler[q])
    BY <2>1 DEF HaltInv
  <2>3. /\ handler[Rec] # NULL /\ handler[Rec] \in Handlers /\ Rec \in Procs
        /\ handler[Rec].seen.desired = "stopped" /\ handler[Rec].after = NULL
        /\ handler[Rec].next = NULL /\ handler[Rec].seen # NULL
    BY <1>2, <2>2, AtTyped DEF Reconcile, Procs, Quiet
  <2>4. ReconcileAction(handler[Rec].seen) # "restart"
    BY <2>3 DEF ReconcileAction
  <2> DEFINE h == [handler[Rec] EXCEPT !.step = "health"]
  <2>5. Done(Rec) \/ handler' = [handler EXCEPT ![Rec] = h]
    BY <1>2, <2>3, <2>4 DEF Reconcile, TypeOK
  <2>6. h \in Handlers /\ h.step = "health" /\ h.after = NULL /\ h.seen = handler[Rec].seen
    BY <2>3 DEF Handlers, Steps
  <2>7. Quiet(h)
    BY <2>3, <2>6 DEF Quiet, After
  <2>8. \A q \in Procs : Quiet(handler[q])'
    BY <2>2, <2>3, <2>5, <2>6, <2>7, QuietMoves
  <2> QED
    BY <2>1, <2>2, <2>8 DEF HaltInv, Live
<1>3. ASSUME NEW p \in Procs, Step(p) PROVE HaltInv'
  BY <1>3, StepHalt
<1>4. ASSUME NEW p \in Procs, CallFails(p) PROVE HaltInv'
  <2> SUFFICES ASSUME halted' PROVE HaltInv'
    BY DEF HaltInv
  <2>1. UNCHANGED <<row, child, orphans, halted>>
    BY <1>4 DEF CallFails
  <2>2. ~ Live /\ row.desired = "stopped" /\ \A q \in Procs : Quiet(handler[q])
    BY <2>1 DEF HaltInv
  <2>3. handler[p] # NULL /\ (Done(p) \/ Goto(p, "archive"))
    BY <1>4 DEF CallFails, At
  <2>4. \A q \in Procs : Quiet(handler[q])'
    BY <2>2, <2>3, QuietMoves
  <2> QED
    BY <2>1, <2>2, <2>4 DEF HaltInv, Live
<1>5. CASE Crash
  <2> SUFFICES ASSUME halted PROVE HaltInv'
    BY <1>5 DEF HaltInv, Crash
  <2>1. child # "alive" /\ orphans = 0 /\ row.desired = "stopped"
    BY DEF HaltInv, Live, TypeOK
  <2>2. child' = "none" /\ orphans' = 0 /\ row' = row
    BY <1>5, <2>1 DEF Crash
  <2>3. \A q \in Procs : Quiet(handler[q])'
    BY <1>5 DEF Crash, Quiet
  <2> QED
    BY <2>1, <2>2, <2>3 DEF HaltInv, Live
<1>6. CASE Drain
  BY <1>6 DEF Drain, HaltInv, Live, Quiet
<1>7. CASE Die
  BY <1>7 DEF Die, HaltInv, Live, Quiet, TypeOK
<1>8. CASE UNCHANGED vars
  BY <1>8 DEF vars, HaltInv, Live, Quiet
<1> QED
  BY <1>1, <1>2, <1>3, <1>4, <1>5, <1>6, <1>7, <1>8 DEF Next, Reconciler, Procs

\* Nothing but a start, a restart or an activation brings a stopped agent up.
THEOREM StoppedIsDown == Spec => []StoppedStaysDown
<1>1. Init => TypeOK /\ HaltInv
  BY TypeInit DEF Init, HaltInv
<1>2. TypeOK /\ HaltInv /\ [Next]_vars => TypeOK' /\ HaltInv'
  BY TypeStep, HaltStep
<1>3. HaltInv => StoppedStaysDown
  BY DEF HaltInv, StoppedStaysDown
<1> QED
  BY <1>1, <1>2, <1>3, PTL DEF Spec
=============================================================================
