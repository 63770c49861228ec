-------------------------- MODULE ConfigRevisions --------------------------
(***************************************************************************)
(* Configuration revisions: saved, validated, activated and applied.       *)
(*                                                                         *)
(* API handlers save and validate revisions and request the activation of  *)
(* the desired one, which drains the agent.  One background task (the      *)
(* activator) claims an activation whose agent is at rest, writes the      *)
(* files, restarts the runtime, reads back, and rolls back on failure.     *)
(* Lifecycle handlers and the reconciler start and stop the same runtime   *)
(* after a check of the drain that nothing holds.                          *)
(*                                                                         *)
(* Files and the loaded configuration of a process are the number of the   *)
(* revision they come from, 0 for what provisioning wrote.  agents.status  *)
(* is kept as "running", "stopped" (stopped or ready) or "other".          *)
(***************************************************************************)
EXTENDS Integers

CONSTANTS
    Agents,
    MaxRevision,    \* bound: revisions saved per agent
    Mixed,          \* files of two revisions on disk
    Down,           \* no process answers
    NULL,           \* no job
    Faults          \* which adversities occur in this instance

FaultKinds == {"crash", "database", "files", "readiness", "exit", "lifecycle"}

ASSUME ConfigAssumption ==
    /\ MaxRevision \in Nat
    /\ Mixed \notin Int /\ Down \notin Int /\ Mixed # Down
    /\ NULL \notin (Agents \X (1 .. MaxRevision))
    /\ Faults \subseteq FaultKinds

VARIABLES
    state,      \* agent_config_revisions.state
    claimed,    \* rows with a claimed_at
    desired,    \* agent_config_heads.desired_revision
    effective,  \* agent_config_heads.effective_revision
    draining,   \* agent_config_heads.draining
    busy,       \* agents with an active run or an unresolved dispatch
    files,      \* the configuration files on disk
    status,     \* agents.status
    tracked,    \* agents whose process is in the children map
    runtime,    \* the files the answering process was started with
    asked,      \* a lifecycle operation past its drain check
    seen,       \* the status a health check found and has yet to record
    step,       \* where the activator is
    job,        \* the claimed activation
    wasUp,      \* it found the agent running
    backup,     \* the files it read before writing
    verdict     \* what it will record

revisionVars == <<state, claimed>>
headVars == <<desired, effective, draining>>
opVars == <<asked, seen>>
hostVars == <<files, status, tracked, runtime>>
jobVars == <<job, wasUp, backup, verdict>>
vars == <<revisionVars, headVars, busy, hostVars, opVars, step, jobVars>>

Revisions == 1 .. MaxRevision
OnDisk == (0 .. MaxRevision) \cup {Mixed}
States == {"absent", "draft", "validated", "activating", "active", "failed"}
Statuses == {"running", "stopped", "other"}
Operations == {"start", "stop", "restart"}
ActivatorSteps ==
    {"idle", "claimed", "stopping", "writing", "verifying", "starting",
     "readying", "undoing", "restoring", "restarting", "rereadying",
     "finishing"}
Verdicts == {"none", "active", "failed", "unverified"}

Happens(fault) == fault \in Faults
agent == job[1]
revision == job[2]

TypeOK ==
    /\ state \in [Agents -> [Revisions -> States]]
    /\ claimed \subseteq (Agents \X Revisions)
    /\ desired \in [Agents -> 0 .. MaxRevision]
    /\ effective \in [Agents -> 0 .. MaxRevision]
    /\ draining \in [Agents -> BOOLEAN]
    /\ busy \in [Agents -> BOOLEAN]
    /\ files \in [Agents -> OnDisk]
    /\ status \in [Agents -> Statuses]
    /\ tracked \subseteq Agents
    /\ runtime \in [Agents -> OnDisk \cup {Down}]
    /\ asked \in [Agents -> {"none", "launched"} \cup Operations]
    /\ seen \in [Agents -> {"nothing"} \cup Statuses]
    /\ step \in ActivatorSteps
    /\ job \in (Agents \X Revisions) \cup {NULL}
    /\ step = "idle" <=> job = NULL
    /\ wasUp \in BOOLEAN
    /\ backup \in OnDisk
    /\ verdict \in Verdicts

Init ==
    /\ state = [a \in Agents |-> [r \in Revisions |-> "absent"]]
    /\ claimed = {}
    /\ desired = [a \in Agents |-> 0]
    /\ effective = [a \in Agents |-> 0]
    /\ draining = [a \in Agents |-> FALSE]
    /\ busy = [a \in Agents |-> FALSE]
    /\ files = [a \in Agents |-> 0]
    /\ status \in [Agents -> {"running", "stopped"}]
    /\ tracked = {a \in Agents : status[a] = "running"}
    /\ runtime = [a \in Agents |-> IF status[a] = "running" THEN 0 ELSE Down]
    /\ asked = [a \in Agents |-> "none"]
    /\ seen = [a \in Agents |-> "nothing"]
    /\ step = "idle" /\ job = NULL /\ wasUp = FALSE /\ backup = 0
    /\ verdict = "none"

-----------------------------------------------------------------------------
(* The API on revisions, each a transaction under the agent's row lock.    *)

\* Mutant: a revision can be saved during an activation.
CreateWhileDraining(a) ==
    /\ \E r \in Revisions :
          /\ state[a][r] = "absent"
          /\ \A q \in Revisions : q < r => state[a][q] # "absent"
          /\ state' = [state EXCEPT ![a][r] = "draft"]
          /\ desired' = [desired EXCEPT ![a] = r]
    /\ UNCHANGED <<claimed, effective, draining, busy, hostVars, opVars, step,
                   jobVars>>

\* The new revision is numbered MAX(revision) + 1 and becomes the desired one.
Create(a) ==
    /\ ~ draining[a]
    /\ \E r \in Revisions :
          /\ state[a][r] = "absent"
          /\ \A q \in Revisions : q < r => state[a][q] # "absent"
          /\ state' = [state EXCEPT ![a][r] = "draft"]
          /\ desired' = [desired EXCEPT ![a] = r]
    /\ UNCHANGED <<claimed, effective, draining, busy, hostVars, opVars, step,
                   jobVars>>

\* Validation reads the immutable snapshot; with errors the row is a draft.
Validate(a, r) ==
    /\ state[a][r] \in {"draft", "validated", "failed"}
    /\ \E result \in {"draft", "validated"} :
          state' = [state EXCEPT ![a][r] = result]
    /\ UNCHANGED <<claimed, headVars, busy, hostVars, opVars, step, jobVars>>

\* Mutant: any validated revision can be activated.
ActivateAnyValidated(a, r) ==
    /\ ~ draining[a]
    /\ state[a][r] = "validated"
    /\ draining' = [draining EXCEPT ![a] = TRUE]
    /\ state' = [state EXCEPT ![a][r] = "activating"]
    /\ claimed' = claimed \ {<<a, r>>}
    /\ UNCHANGED <<desired, effective, busy, hostVars, opVars, step, jobVars>>

\* Only the desired, validated revision of an agent that is not draining.
Activate(a, r) ==
    /\ desired[a] = r
    /\ ~ draining[a]
    /\ state[a][r] = "validated"
    /\ draining' = [draining EXCEPT ![a] = TRUE]
    /\ state' = [state EXCEPT ![a][r] = "activating"]
    /\ claimed' = claimed \ {<<a, r>>}
    /\ UNCHANGED <<desired, effective, busy, hostVars, opVars, step, jobVars>>

-----------------------------------------------------------------------------
(* The activator task.                                                     *)

\* The process Fleet tracks is killed; one it does not track stays.
Kill(a) ==
    /\ runtime' = IF a \in tracked THEN [runtime EXCEPT ![a] = Down]
                  ELSE runtime
    /\ tracked' = tracked \ {a}

SetStatus(a, value) == status' = [status EXCEPT ![a] = value]

\* The first half of start: status 'starting', then the process is spawned
\* and tracked.  A process that already answers keeps the port.
Launch(a) ==
    /\ a \notin tracked
    /\ SetStatus(a, "other")
    /\ tracked' = tracked \cup {a}
    /\ runtime' = IF runtime[a] = Down
                  THEN [runtime EXCEPT ![a] = files[a]] ELSE runtime

\* The second half: the readiness probe answers and 'running' is recorded.
BecomesReady(a) ==
    /\ runtime[a] # Down
    /\ SetStatus(a, "running")
    /\ UNCHANGED <<tracked, runtime>>

\* Or it does not: the child is killed and the agent is marked failed.
StaysUnready(a) ==
    /\ Happens("readiness") \/ runtime[a] = Down
    /\ Kill(a)
    /\ SetStatus(a, "other")

\* A start of a process that is tracked already only records 'running'.
AlreadyTracked(a) ==
    /\ a \in tracked
    /\ SetStatus(a, "running")
    /\ UNCHANGED <<tracked, runtime>>

Conclude(result) == step' = "finishing" /\ verdict' = result

\* Mutant: the activator does not wait for the work of the agent.
ClaimableAtWork(a, r) ==
    /\ state[a][r] = "activating"
    /\ <<a, r>> \notin claimed
    /\ draining[a]

\* An activation whose agent has no active run and no unresolved dispatch.
\* The scan goes by created_at and skips locked rows: any may be first.
Claimable(a, r) ==
    /\ state[a][r] = "activating"
    /\ <<a, r>> \notin claimed
    /\ draining[a]
    /\ ~ busy[a]

Claim(a, r) ==
    /\ step = "idle"
    /\ Claimable(a, r)
    /\ claimed' = claimed \cup {<<a, r>>}
    /\ step' = "claimed"
    /\ job' = <<a, r>>
    /\ UNCHANGED <<state, headVars, busy, hostVars, opVars, wasUp, backup,
                   verdict>>

\* The row is claimed, but reading it back fails: nobody applies it.
ClaimUnread(a, r) ==
    /\ Happens("database")
    /\ step = "idle"
    /\ Claimable(a, r)
    /\ claimed' = claimed \cup {<<a, r>>}
    /\ UNCHANGED <<state, headVars, busy, hostVars, opVars, step, jobVars>>

\* apply_config_revision returns before it changed anything: the agent is in
\* another status, its process is not tracked, the files cannot be prepared
\* or backed up, or reading the agent fails.
Refuse ==
    /\ step = "claimed"
    /\ \/ status[agent] = "other"
       \/ status[agent] = "running" /\ agent \notin tracked
       \/ Happens("files") \/ Happens("database")
    /\ Conclude("failed")
    /\ UNCHANGED <<revisionVars, headVars, busy, hostVars, opVars, job, wasUp,
                   backup>>

\* Mutant: the files are replaced under the running process.
BeginWithoutStop ==
    /\ step = "claimed"
    /\ status[agent] # "other"
    /\ status[agent] = "running" => agent \in tracked
    /\ wasUp' = (status[agent] = "running")
    /\ backup' = files[agent]
    /\ step' = "writing"
    /\ UNCHANGED <<revisionVars, headVars, busy, hostVars, opVars, job,
                   verdict>>

\* It looks at the agent and reads the old files.
Begin ==
    /\ step = "claimed"
    /\ status[agent] # "other"
    /\ status[agent] = "running" => agent \in tracked
    /\ wasUp' = (status[agent] = "running")
    /\ backup' = files[agent]
    /\ step' = IF wasUp' THEN "stopping" ELSE "writing"
    /\ UNCHANGED <<revisionVars, headVars, busy, hostVars, opVars, job,
                   verdict>>

StopOld ==
    /\ step = "stopping"
    /\ Kill(agent)
    /\ SetStatus(agent, "stopped")
    /\ step' = "writing"
    /\ UNCHANGED <<revisionVars, headVars, busy, files, opVars, jobVars>>

\* The process is killed, recording it fails, and the error is returned: it
\* is not Unavailable, so it counts as reconciled.
StopOldUnrecorded ==
    /\ Happens("database")
    /\ step = "stopping"
    /\ Kill(agent)
    /\ Conclude("failed")
    /\ UNCHANGED <<revisionVars, headVars, busy, files, status, opVars, job,
                   wasUp, backup>>

\* Each file is replaced by a rename of its own.
StartWriting ==
    /\ step = "writing"
    /\ files' = [files EXCEPT ![agent] = Mixed]
    /\ step' = "verifying"
    /\ UNCHANGED <<revisionVars, headVars, busy, status, tracked, runtime,
                   opVars, jobVars>>

\* The last file is in place and all of them read back as written.
FinishWriting ==
    /\ step = "verifying"
    /\ files' = [files EXCEPT ![agent] = revision]
    /\ IF wasUp THEN step' = "starting" /\ UNCHANGED verdict
       ELSE Conclude("active")
    /\ UNCHANGED <<revisionVars, headVars, busy, status, tracked, runtime,
                   opVars, job, wasUp, backup>>

FailWriting ==
    /\ Happens("files")
    /\ step \in {"writing", "verifying"}
    /\ step' = "undoing"
    /\ UNCHANGED <<revisionVars, headVars, busy, hostVars, opVars, jobVars>>

\* The restart with the new files, and the restart of a rollback.
StartAgain ==
    /\ step \in {"starting", "restarting"}
    /\ \/ /\ Launch(agent)
          /\ step' = IF step = "starting" THEN "readying" ELSE "rereadying"
          /\ UNCHANGED verdict
       \/ /\ AlreadyTracked(agent)
          /\ Conclude(IF step = "starting" THEN "active" ELSE "failed")
    /\ UNCHANGED <<revisionVars, headVars, busy, files, opVars, job, wasUp,
                   backup>>

Ready ==
    /\ step \in {"readying", "rereadying"}
    /\ BecomesReady(agent)
    /\ Conclude(IF step = "readying" THEN "active" ELSE "failed")
    /\ UNCHANGED <<revisionVars, headVars, busy, files, opVars, job, wasUp,
                   backup>>

\* Where a failed start leads: a rollback, or after it no verified state.
StartFailed ==
    IF step \in {"starting", "readying"}
    THEN step' = "undoing" /\ UNCHANGED verdict
    ELSE Conclude("unverified")

NotReady ==
    /\ step \in {"readying", "rereadying"}
    /\ StaysUnready(agent)
    /\ StartFailed
    /\ UNCHANGED <<revisionVars, headVars, busy, files, opVars, job, wasUp,
                   backup>>

\* A status write of start fails, before the spawn or after readiness.
StartUnrecorded ==
    /\ Happens("database")
    /\ step \in {"starting", "readying", "restarting", "rereadying"}
    /\ StartFailed
    /\ UNCHANGED <<revisionVars, headVars, busy, hostVars, opVars, job, wasUp,
                   backup>>

\* The rollback stops what runs; the error of that stop is ignored.
Undo ==
    /\ step = "undoing"
    /\ IF wasUp
       THEN /\ Kill(agent)
            /\ \/ SetStatus(agent, "stopped")
               \/ Happens("database") /\ UNCHANGED status
       ELSE UNCHANGED <<status, tracked, runtime>>
    /\ step' = "restoring"
    /\ UNCHANGED <<revisionVars, headVars, busy, files, opVars, jobVars>>

\* Mutant: the rollback ends with the files.
RestoreFilesOnly ==
    /\ step = "restoring"
    /\ files' = [files EXCEPT ![agent] = backup]
    /\ Conclude("failed")
    /\ UNCHANGED <<revisionVars, headVars, busy, status, tracked, runtime, opVars,
                   job, wasUp, backup>>

Restore ==
    /\ step = "restoring"
    /\ files' = [files EXCEPT ![agent] = backup]
    /\ IF wasUp THEN step' = "restarting" /\ UNCHANGED verdict
       ELSE Conclude("failed")
    /\ UNCHANGED <<revisionVars, headVars, busy, status, tracked, runtime,
                   opVars, job, wasUp, backup>>

\* Mutant: a failed rollback counts as reconciled.
RestoreFailsQuietly ==
    /\ Happens("files")
    /\ step = "restoring"
    /\ files' = [files EXCEPT ![agent] = Mixed]
    /\ Conclude("failed")
    /\ UNCHANGED <<revisionVars, headVars, busy, status, tracked, runtime, opVars,
                   job, wasUp, backup>>

RestoreFails ==
    /\ Happens("files")
    /\ step = "restoring"
    /\ files' = [files EXCEPT ![agent] = Mixed]
    /\ Conclude("unverified")
    /\ UNCHANGED <<revisionVars, headVars, busy, status, tracked, runtime,
                   opVars, job, wasUp, backup>>

\* Mutant: the activator keeps its last job.
RestKeepingJob == step' = "idle" /\ job' = job /\ wasUp' = FALSE
                  /\ backup' = 0 /\ verdict' = "none"

Rest == step' = "idle" /\ job' = NULL /\ wasUp' = FALSE /\ backup' = 0
        /\ verdict' = "none"

\* Mutant: a failed activation goes back into the queue.
FinishRetrying ==
    /\ step = "finishing"
    /\ state[agent][revision] = "activating"
    /\ IF verdict = "failed"
       THEN claimed' = claimed \ {job} /\ UNCHANGED <<state, headVars>>
       ELSE /\ state' = [state EXCEPT ![agent][revision] =
                            IF verdict = "active" THEN "active" ELSE "failed"]
            /\ draining' = [draining EXCEPT ![agent] = verdict = "unverified"]
            /\ effective' = IF verdict = "active"
                            THEN [effective EXCEPT ![agent] = revision]
                            ELSE effective
            /\ UNCHANGED <<claimed, desired>>
    /\ Rest
    /\ UNCHANGED <<busy, hostVars, opVars>>

\* finish_config_activation: the row and the head change together.
Finish ==
    /\ step = "finishing"
    /\ state[agent][revision] = "activating"
    /\ state' = [state EXCEPT ![agent][revision] =
                    IF verdict = "active" THEN "active" ELSE "failed"]
    /\ IF desired[agent] = revision
       THEN /\ draining' = [draining EXCEPT ![agent] = verdict = "unverified"]
            /\ effective' = IF verdict = "active"
                            THEN [effective EXCEPT ![agent] = revision]
                            ELSE effective
       ELSE UNCHANGED <<draining, effective>>
    /\ Rest
    /\ UNCHANGED <<claimed, desired, busy, hostVars, opVars>>

\* It fails or finds another state: logged for reconciliation, nothing else.
FinishLost ==
    /\ step = "finishing"
    /\ Happens("database") \/ state[agent][revision] # "activating"
    /\ Rest
    /\ UNCHANGED <<revisionVars, headVars, busy, hostVars, opVars>>

-----------------------------------------------------------------------------
(* Start, stop and restart from the API, archive and the reconciler.       *)

\* The handler reads the drain and goes on.
Ask(a, operation) ==
    /\ Happens("lifecycle")
    /\ asked[a] = "none"
    /\ ~ draining[a]
    /\ asked' = [asked EXCEPT ![a] = operation]
    /\ UNCHANGED <<revisionVars, headVars, busy, seen, hostVars, step,
                   jobVars>>

\* A restart goes on to its start without another look at the drain; a stop
\* that cannot be recorded ends the operation after the kill.
OperatorStop(a) ==
    /\ asked[a] \in {"stop", "restart"}
    /\ Kill(a)
    /\ \/ /\ SetStatus(a, "stopped")
          /\ asked' = [asked EXCEPT ![a] =
                          IF @ = "restart" THEN "start" ELSE "none"]
       \/ /\ Happens("database")
          /\ asked' = [asked EXCEPT ![a] = "none"]
          /\ UNCHANGED status
    /\ UNCHANGED <<revisionVars, headVars, busy, seen, files, step, jobVars>>

OperatorStart(a) ==
    /\ asked[a] = "start"
    /\ \/ Launch(a) /\ asked' = [asked EXCEPT ![a] = "launched"]
       \/ AlreadyTracked(a) /\ asked' = [asked EXCEPT ![a] = "none"]
    /\ UNCHANGED <<revisionVars, headVars, busy, seen, files, step, jobVars>>

OperatorStarted(a) ==
    /\ asked[a] = "launched"
    /\ \/ BecomesReady(a) \/ StaysUnready(a)
       \/ Happens("database") /\ UNCHANGED <<status, tracked, runtime>>
    /\ asked' = [asked EXCEPT ![a] = "none"]
    /\ UNCHANGED <<revisionVars, headVars, busy, seen, files, step, jobVars>>

\* A health check, from the API without a look at the drain: a process that
\* exited leaves the children map, and what the map and the probe say becomes
\* the status a moment later.
Probe(a) ==
    /\ Happens("lifecycle")
    /\ seen[a] = "nothing"
    /\ \E answers \in BOOLEAN :
          /\ answers => runtime[a] # Down
          /\ ~ answers => runtime[a] = Down \/ Happens("readiness")
          /\ tracked' = IF runtime[a] = Down THEN tracked \ {a} ELSE tracked
          /\ seen' = [seen EXCEPT ![a] =
                CASE a \in tracked /\ answers -> "running"
                  [] a \notin tracked /\ ~ answers -> "stopped"
                  [] OTHER -> "other"]
    /\ UNCHANGED <<revisionVars, headVars, busy, asked, files, status,
                   runtime, step, jobVars>>

RecordProbe(a) ==
    /\ seen[a] # "nothing"
    /\ SetStatus(a, seen[a])
    /\ seen' = [seen EXCEPT ![a] = "nothing"]
    /\ UNCHANGED <<revisionVars, headVars, busy, asked, files, tracked,
                   runtime, step, jobVars>>

-----------------------------------------------------------------------------
(* Surroundings.                                                           *)

\* Fleet dies and starts again: nothing resumes a claimed activation, and
\* the runtimes it started may survive, tracked by nobody.
Crash ==
    /\ Happens("crash")
    /\ Rest
    /\ asked' = [a \in Agents |-> "none"]
    /\ seen' = [a \in Agents |-> "nothing"]
    /\ tracked' = {}
    /\ \E survivors \in SUBSET Agents :
          runtime' = [a \in Agents |->
                        IF a \in survivors THEN runtime[a] ELSE Down]
    /\ UNCHANGED <<revisionVars, headVars, busy, files, status>>

\* A runtime process exits; its entry in the children map stays.
ProcessExits(a) ==
    /\ Happens("exit")
    /\ runtime[a] # Down
    /\ runtime' = [runtime EXCEPT ![a] = Down]
    /\ UNCHANGED <<revisionVars, headVars, busy, files, status, tracked,
                   opVars, step, jobVars>>

\* The dispatcher gives a running agent work unless it is draining, and the
\* work ends.  AgentGate replaces this by the dispatcher itself.
WorkChange(a) ==
    /\ busy[a] \/ (~ draining[a] /\ status[a] = "running")
    /\ busy' = [busy EXCEPT ![a] = ~ @]
    /\ UNCHANGED <<revisionVars, headVars, hostVars, opVars, step, jobVars>>

-----------------------------------------------------------------------------
Activator ==
    \/ \E a \in Agents, r \in Revisions : Claim(a, r) \/ ClaimUnread(a, r)
    \/ Refuse \/ Begin \/ StopOld \/ StopOldUnrecorded
    \/ StartWriting \/ FinishWriting \/ FailWriting
    \/ StartAgain \/ Ready \/ NotReady \/ StartUnrecorded
    \/ Undo \/ Restore \/ RestoreFails
    \/ Finish \/ FinishLost

Api(a) ==
    \/ Create(a)
    \/ \E r \in Revisions : Validate(a, r) \/ Activate(a, r)

Lifecycle(a) ==
    \/ \E operation \in Operations : Ask(a, operation)
    \/ OperatorStop(a) \/ OperatorStart(a) \/ OperatorStarted(a)
    \/ Probe(a) \/ RecordProbe(a) \/ ProcessExits(a)

\* Everything but the work of the agents, which another component decides.
Step ==
    \/ Activator
    \/ \E a \in Agents : Api(a) \/ Lifecycle(a)
    \/ Crash

Next == Step \/ \E a \in Agents : WorkChange(a)

Spec == Init /\ [][Next]_vars

-----------------------------------------------------------------------------
(* Properties.                                                             *)

\* A drain never outlives a successful activation, and a revision is being
\* activated only while it is the desired one and its agent drains: no save,
\* validation, race or crash detaches the activation from its drain.
DrainHasReason ==
    \A a \in Agents :
        /\ draining[a] =>
              desired[a] # 0 /\ state[a][desired[a]] # "active"
        /\ \A r \in Revisions :
              state[a][r] = "activating" => draining[a] /\ desired[a] = r

\* An agent that is released has exactly the effective revision on disk:
\* no failed, interrupted or half-written activation is ever exposed.
EffectiveOnDisk ==
    \A a \in Agents : ~ draining[a] => files[a] = effective[a]

\* The files of an agent at work do not change beneath it.
WritesAtRest ==
    [][\A a \in Agents : files'[a] # files[a] => ~ busy[a] /\ draining[a]]_vars

\* A process that serves a released agent was started from the effective
\* revision, not from an older or a half-written one.
RuntimeRunsEffective ==
    \A a \in Agents :
        ~ draining[a] => runtime[a] \in {Down, effective[a]}

\* A failed activation that releases the agent has restored the files and, if
\* it stopped a runtime, started one from them.
FailureRestores ==
    step = "finishing" /\ verdict = "failed" =>
        /\ files[agent] = effective[agent]
        /\ wasUp => runtime[agent] = effective[agent]

\* Seen from outside, the revisions of an agent are the abstract register.
Register == INSTANCE ConfigRegister WITH blocked <- draining
ImplementsRegister == Register!Spec

\* A claimed activation that a crash or a failed database call took from the
\* activator.
Lost(a, r) == <<a, r>> \in claimed /\ job # <<a, r>>
=============================================================================
