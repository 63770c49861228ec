------------------------------ MODULE Dispatch ------------------------------
(***************************************************************************)
(* How a stored prompt becomes at most one Hermes run.                     *)
(*                                                                         *)
(* A prompt and its message_dispatch_outbox row are committed together.    *)
(* One background task (the dispatcher) claims a row, prepares a           *)
(* session_agent_runs row, sends POST /v1/runs and records the outcome; a  *)
(* worker per accepted run (the follower) then reads the runtime's event   *)
(* stream.  API handlers steer, stop or approve a run at any time, and the *)
(* Fleet process may crash between any two database calls.                 *)
(*                                                                         *)
(* Every database call is one action.  The run row a dispatch binds is     *)
(* named by the message that bound it: run[m], "absent" until then.  The   *)
(* Idempotency-Key of the POST is the message id, so the runtime run of m  *)
(* is also named by m: hermes[m].                                          *)
(***************************************************************************)
EXTENDS Integers, FiniteSets

CONSTANTS
    Agents,         \* Hermes agents
    Messages,       \* user prompts that may be stored
    AgentOf,        \* the primary agent of each prompt's session
    NULL,           \* no message
    Faults,         \* which adversities occur in this instance
    MaxControls     \* bound: run controls on their way at once

FaultKinds ==
    {"crash", "database", "network", "lifecycle", "drain", "control"}

ASSUME DispatchAssumption ==
    /\ AgentOf \in [Messages -> Agents]
    /\ NULL \notin Messages
    /\ Faults \subseteq FaultKinds
    /\ MaxControls \in Nat

VARIABLES
    begun,      \* prompts whose storing transaction has begun
    older,      \* <<n, m>>: n's outbox.created_at is before m's
    outbox,     \* message_dispatch_outbox.state
    delivery,   \* session_messages.delivery_state of the prompt
    run,        \* session_agent_runs.state of the bound row
    rid,        \* has that row its runtime_run_id?
    replies,    \* assistant_message rows that carry the runtime run id
    agentUp,    \* agents.status = 'running'
    draining,   \* agent_config_heads.draining
    pc,         \* where the dispatcher task is
    current,    \* the message the dispatcher holds
    follower,   \* where the event worker of each message is
    controls,   \* run controls accepted by Hermes and not yet recorded
    hermes,     \* the runtime's own state of the run keyed by the message
    inflight,   \* POST /v1/runs requests not yet handled by the runtime
    posts       \* history: POST /v1/runs requests sent for each message

dbVars == <<outbox, delivery, run, rid, replies>>
agentVars == <<agentUp, draining>>
taskVars == <<pc, current>>
runtimeVars == <<hermes, inflight, posts>>
queueVars == <<begun, older>>
vars == <<queueVars, dbVars, agentVars, taskVars, follower, controls,
          runtimeVars>>

OutboxStates ==
    {"absent", "pending", "dispatching", "dispatched", "uncertain", "failed"}
DeliveryStates == {"absent", "pending", "dispatched", "completed", "failed"}
ActiveStates == {"pending", "running", "waiting", "stopping"}
TerminalStates == {"completed", "failed", "cancelled"}
RunStates == {"absent", "deleted"} \cup ActiveStates \cup TerminalStates
HermesStates == {"absent", "active"} \cup TerminalStates
DispatcherSteps ==
    {"idle", "claiming", "claimed", "prepared", "posting", "accepted",
     "recorded", "refused", "sent", "unsure"}
FollowerSteps ==
    {"none", "following", "mirrored", "answered", "refused", "ended",
     "broken", "giving_up"}
ControlKinds == {"stop", "resume"}

Happens(fault) == fault \in Faults
RowExists(m) == run[m] \notin {"absent", "deleted"}

\* Mutant: a row that was dispatched counts as busy for ever.
BusyOnceClaimed(m) == outbox[m] \in {"dispatching", "dispatched", "uncertain"}

\* Mutant: an unknown outcome does not count as busy.
BusyUnlessUnknown(m) == outbox[m] = "dispatching"

Busy(m) == outbox[m] \in {"dispatching", "uncertain"}

\* Mutant: a run that waits for an approval leaves its agent free.
ActiveUnlessWaiting(m) == run[m] \in ActiveStates \ {"waiting"}

ActiveRun(m) == run[m] \in ActiveStates
Peers(m) == {n \in Messages : AgentOf[n] = AgentOf[m]}

TypeOK ==
    /\ begun \subseteq Messages
    /\ older \subseteq (begun \X begun)
    /\ outbox \in [Messages -> OutboxStates]
    /\ delivery \in [Messages -> DeliveryStates]
    /\ run \in [Messages -> RunStates]
    /\ rid \in [Messages -> BOOLEAN]
    /\ replies \in [Messages -> Nat]
    /\ agentUp \in [Agents -> BOOLEAN]
    /\ draining \in [Agents -> BOOLEAN]
    /\ pc \in DispatcherSteps
    /\ current \in Messages \cup {NULL}
    /\ pc = "idle" <=> current = NULL
    /\ follower \in [Messages -> FollowerSteps]
    /\ controls \subseteq (ControlKinds \X Messages)
    /\ hermes \in [Messages -> HermesStates]
    /\ inflight \subseteq Messages
    /\ posts \in [Messages -> Nat]

Init ==
    /\ begun = {} /\ older = {}
    /\ outbox = [m \in Messages |-> "absent"]
    /\ delivery = [m \in Messages |-> "absent"]
    /\ run = [m \in Messages |-> "absent"]
    /\ rid = [m \in Messages |-> FALSE]
    /\ replies = [m \in Messages |-> 0]
    /\ agentUp = [a \in Agents |-> TRUE]
    /\ draining = [a \in Agents |-> FALSE]
    /\ pc = "idle" /\ current = NULL
    /\ follower = [m \in Messages |-> "none"]
    /\ controls = {}
    /\ hermes = [m \in Messages |-> "absent"]
    /\ inflight = {}
    /\ posts = [m \in Messages |-> 0]

-----------------------------------------------------------------------------
(* The API: storing a prompt.                                              *)

\* The transaction of create_session_message starts: created_at is now().
BeginPrompt(m) ==
    /\ m \notin begun
    /\ begun' = begun \cup {m}
    /\ older' = older \cup (begun \X {m})
    /\ UNCHANGED <<dbVars, agentVars, taskVars, follower, controls, runtimeVars>>

\* It commits the message and, through the trigger, its outbox row.
CommitPrompt(m) ==
    /\ m \in begun
    /\ outbox[m] = "absent"
    /\ outbox' = [outbox EXCEPT ![m] = "pending"]
    /\ delivery' = [delivery EXCEPT ![m] = "pending"]
    /\ UNCHANGED <<queueVars, run, rid, replies, agentVars, taskVars, follower,
                   controls, runtimeVars>>

-----------------------------------------------------------------------------
(* The dispatcher task.                                                    *)

\* Mutant: the claim does not look at the drain.
ClaimableWhileDraining(m) ==
    /\ outbox[m] = "pending"
    /\ agentUp[AgentOf[m]]
    /\ \A n \in Peers(m) : ~ Busy(n) /\ ~ ActiveRun(n)

\* What the candidate query of claim_message_dispatch asks of a row, apart
\* from its place in the queue.
Claimable(m) ==
    /\ outbox[m] = "pending"
    /\ agentUp[AgentOf[m]]
    /\ ~ draining[AgentOf[m]]
    /\ \A n \in Peers(m) : ~ Busy(n) /\ ~ ActiveRun(n)

\* Mutant: the next round starts with the old message.
NextRoundKeeping == pc' = "idle" /\ UNCHANGED current

\* The loop goes round; the message goes out of scope.
NextRound == pc' = "idle" /\ current' = NULL

\* The claim statement takes its snapshot.  SKIP LOCKED may pass over an
\* agent whose row is locked, never over an older prompt of the same agent.
ClaimSnapshot(m) ==
    /\ pc = "idle"
    /\ Claimable(m)
    /\ \A n \in Peers(m) : Claimable(n) => <<n, m>> \notin older
    /\ pc' = "claiming"
    /\ current' = m
    /\ UNCHANGED <<queueVars, dbVars, agentVars, follower, controls, runtimeVars>>

\* Mutant: the claim does not lock the agent row, so its status stays as the
\* snapshot has it.
ClaimOutboxLocked ==
    /\ pc = "claiming"
    /\ outbox[current] = "pending"
    /\ \A n \in Peers(current) : ~ Busy(n)
    /\ outbox' = [outbox EXCEPT ![current] = "dispatching"]
    /\ pc' = "claimed"
    /\ UNCHANGED <<queueVars, delivery, run, rid, replies, agentVars, current,
                   follower, controls, runtimeVars>>

\* It locks the agent row and the outbox row and re-reads those two.  The NOT
\* EXISTS subqueries on the drain and the runs keep the snapshot; of the busy
\* rows the partial unique index message_dispatch_agent_guard allows one.
ClaimLocked ==
    /\ pc = "claiming"
    /\ outbox[current] = "pending"
    /\ agentUp[AgentOf[current]]
    /\ \A n \in Peers(current) : ~ Busy(n)
    /\ outbox' = [outbox EXCEPT ![current] = "dispatching"]
    /\ pc' = "claimed"
    /\ UNCHANGED <<queueVars, delivery, run, rid, replies, agentVars, current,
                   follower, controls, runtimeVars>>

\* The row is locked by another transaction or no longer qualifies.
ClaimSkipped ==
    /\ pc = "claiming"
    /\ NextRound
    /\ UNCHANGED <<queueVars, dbVars, agentVars, follower, controls,
                   runtimeVars>>

\* After the claim committed, reading the message back fails: the call
\* returns an error and the loop goes on, the row staying 'dispatching'.
ClaimUnread ==
    /\ Happens("database")
    /\ pc = "claimed"
    /\ NextRound
    /\ UNCHANGED <<queueVars, dbVars, agentVars, follower, controls,
                   runtimeVars>>

\* get_session or get_agent fails: the result is an error before anything ran.
TargetUnread ==
    /\ Happens("database")
    /\ pc = "claimed"
    /\ pc' = "unsure"
    /\ UNCHANGED <<queueVars, dbVars, agentVars, current, follower, controls,
                   runtimeVars>>

\* prepare_session_agent_run, under the agent's row lock.
PrepareRun ==
    /\ pc = "claimed"
    /\ agentUp[AgentOf[current]]
    /\ \A n \in Peers(current) : ~ ActiveRun(n)
    /\ run' = [run EXCEPT ![current] = "pending"]
    /\ pc' = "prepared"
    /\ UNCHANGED <<queueVars, outbox, delivery, rid, replies, agentVars, current,
                   follower, controls, runtimeVars>>

\* It answers with a conflict, or fails: also after it has committed, when the
\* row it inserted is read back or the runtime has no address or token, and then
\* that row stays 'pending'.
PrepareRefused ==
    /\ \/ /\ pc = "claimed"
          /\ \/ ~ agentUp[AgentOf[current]]
             \/ \E n \in Peers(current) : ActiveRun(n)
       \/ pc \in {"claimed", "prepared"} /\ Happens("database")
    /\ pc' = "refused"
    /\ UNCHANGED <<queueVars, dbVars, agentVars, current, follower, controls,
                   runtimeVars>>

\* POST /v1/runs with Idempotency-Key = message id leaves Fleet.
SendRun ==
    /\ pc = "prepared"
    /\ inflight' = inflight \cup {current}
    /\ posts' = [posts EXCEPT ![current] = @ + 1]
    /\ pc' = "posting"
    /\ UNCHANGED <<queueVars, dbVars, agentVars, current, follower, controls,
                   hermes>>

\* The 2xx answer arrives.
RunAccepted ==
    /\ pc = "posting"
    /\ current \notin inflight
    /\ hermes[current] # "absent"
    /\ pc' = "accepted"
    /\ UNCHANGED <<queueVars, dbVars, agentVars, current, follower, controls,
                   runtimeVars>>

\* Mutant: a transport error sends the request again.
RunRetried ==
    /\ pc = "posting"
    /\ \/ Happens("network")
       \/ current \notin inflight /\ hermes[current] = "absent"
    /\ pc' = "prepared"
    /\ UNCHANGED <<queueVars, dbVars, agentVars, current, follower, controls,
                   runtimeVars>>

\* A refusal arrives, the connection breaks, or 30 seconds pass; in the last
\* two cases the runtime may have the request, or may get it later.
RunNotAccepted ==
    /\ pc = "posting"
    /\ \/ Happens("network")
       \/ current \notin inflight /\ hermes[current] = "absent"
    /\ pc' = "refused"
    /\ UNCHANGED <<queueVars, dbVars, agentVars, current, follower, controls,
                   runtimeVars>>

\* update_session_agent_run_dispatch(run, run_id, Running).
RecordRun ==
    /\ pc = "accepted"
    /\ RowExists(current)
    /\ run' = [run EXCEPT ![current] = "running"]
    /\ rid' = [rid EXCEPT ![current] = TRUE]
    /\ pc' = "recorded"
    /\ UNCHANGED <<queueVars, outbox, delivery, replies, agentVars, current,
                   follower, controls, runtimeVars>>

\* update_session_message_delivery(Dispatched), then the follower is spawned.
RecordDelivery ==
    /\ pc = "recorded"
    /\ delivery' = [delivery EXCEPT ![current] = "dispatched"]
    /\ follower' = [follower EXCEPT ![current] = "following"]
    /\ pc' = "sent"
    /\ UNCHANGED <<queueVars, outbox, run, rid, replies, agentVars, current,
                   controls, runtimeVars>>

\* Either write fails: start_hermes_run is an error although Hermes accepted.
RecordFails ==
    /\ pc \in {"accepted", "recorded"}
    /\ Happens("database") \/ (pc = "accepted" /\ ~ RowExists(current))
    /\ pc' = "refused"
    /\ UNCHANGED <<queueVars, dbVars, agentVars, current, follower, controls,
                   runtimeVars>>

\* send_message marks the delivery failed.
MarkUndelivered ==
    /\ pc = "refused"
    /\ \/ delivery' = [delivery EXCEPT ![current] = "failed"]
       \/ Happens("database") /\ UNCHANGED delivery
    /\ pc' = "unsure"
    /\ UNCHANGED <<queueVars, outbox, run, rid, replies, agentVars, current,
                   follower, controls, runtimeVars>>

\* Mutant: an error is recorded as a dispatch.
FinishAsDispatched ==
    /\ pc \in {"sent", "unsure"}
    /\ outbox' = [outbox EXCEPT ![current] = "dispatched"]
    /\ NextRound
    /\ UNCHANGED <<queueVars, delivery, run, rid, replies, agentVars,
                   follower, controls, runtimeVars>>

\* Mutant: every outcome is recorded as unknown.
FinishAsUnknown ==
    /\ pc \in {"sent", "unsure"}
    /\ outbox' = [outbox EXCEPT ![current] = "uncertain"]
    /\ NextRound
    /\ UNCHANGED <<queueVars, delivery, run, rid, replies, agentVars,
                   follower, controls, runtimeVars>>

\* finish_message_dispatch: the caller passes uncertain for every error, so
\* 'failed' is never written.
FinishDispatch ==
    /\ pc \in {"sent", "unsure"}
    /\ outbox' = IF outbox[current] = "dispatching"
                 THEN [outbox EXCEPT ![current] =
                          IF pc = "sent" THEN "dispatched" ELSE "uncertain"]
                 ELSE outbox
    /\ NextRound
    /\ UNCHANGED <<queueVars, delivery, run, rid, replies, agentVars,
                   follower, controls, runtimeVars>>

\* Its error is dropped: the row stays 'dispatching' and the loop goes on.
FinishLost ==
    /\ Happens("database")
    /\ pc \in {"sent", "unsure"}
    /\ NextRound
    /\ UNCHANGED <<queueVars, dbVars, agentVars, follower, controls,
                   runtimeVars>>

-----------------------------------------------------------------------------
(* The Hermes runtime, seen through the adapter protocol (external).       *)

\* The runtime handles a request; a known key answers with the known run.
HermesAccepts(m) ==
    /\ m \in inflight
    /\ inflight' = inflight \ {m}
    /\ hermes' = IF hermes[m] = "absent"
                 THEN [hermes EXCEPT ![m] = "active"] ELSE hermes
    /\ UNCHANGED <<queueVars, dbVars, agentVars, taskVars, follower, controls,
                   posts>>

\* It refuses the request, or the request is lost with its connection.
HermesDrops(m) ==
    /\ Happens("network") \/ ~ agentUp[AgentOf[m]]
    /\ m \in inflight
    /\ inflight' = inflight \ {m}
    /\ UNCHANGED <<queueVars, dbVars, agentVars, taskVars, follower, controls,
                   hermes, posts>>

HermesEnds(m) ==
    /\ hermes[m] = "active"
    /\ \E end \in TerminalStates : hermes' = [hermes EXCEPT ![m] = end]
    /\ UNCHANGED <<queueVars, dbVars, agentVars, taskVars, follower, controls,
                   inflight, posts>>

-----------------------------------------------------------------------------
(* The follower of m: follow_hermes_events and handle_hermes_event.        *)

FollowerGoes(m, step) == follower' = [follower EXCEPT ![m] = step]

\* The row a follower step writes; a deleted row makes the call an error.
WriteRun(m, state) ==
    /\ RowExists(m)
    /\ run' = [run EXCEPT ![m] = state]

\* An approval event: the run waits; a failing run update is ignored.
SeeApproval(m) ==
    /\ follower[m] = "following"
    /\ hermes[m] = "active"
    /\ WriteRun(m, "waiting")
    /\ UNCHANGED <<queueVars, outbox, delivery, rid, replies, agentVars, taskVars,
                   follower, controls, runtimeVars>>

\* A terminal event, or the terminal status read back after the stream ended
\* without one.  Hermes may send several ("response.completed",
\* "run.completed"): each is handled, until the stream ends.
SeeCancelled(m) ==
    /\ follower[m] \in {"following", "ended"}
    /\ hermes[m] = "cancelled"
    /\ WriteRun(m, "cancelled")
    /\ FollowerGoes(m, "ended")
    /\ UNCHANGED <<queueVars, outbox, delivery, rid, replies, agentVars, taskVars,
                   controls, runtimeVars>>

SeeFailed(m) ==
    /\ follower[m] \in {"following", "ended"}
    /\ hermes[m] = "failed"
    /\ delivery' = [delivery EXCEPT ![m] = "failed"]
    /\ FollowerGoes(m, "refused")
    /\ UNCHANGED <<queueVars, outbox, run, rid, replies, agentVars, taskVars,
                   controls, runtimeVars>>

FailRun(m) ==
    /\ follower[m] = "refused"
    /\ WriteRun(m, "failed")
    /\ FollowerGoes(m, "ended")
    /\ UNCHANGED <<queueVars, outbox, delivery, rid, replies, agentVars, taskVars,
                   controls, runtimeVars>>

\* Mutant: every terminal event of the stream inserts a reply.
MirrorEvery(m) ==
    /\ follower[m] \in {"following", "ended"}
    /\ hermes[m] = "completed"
    /\ replies' = [replies EXCEPT ![m] = @ + 1]
    /\ FollowerGoes(m, "mirrored")
    /\ UNCHANGED <<queueVars, outbox, delivery, run, rid, agentVars, taskVars,
                   controls, runtimeVars>>

\* insert_session_message_mirror, under the session lock: an assistant
\* message with this runtime id is inserted once.
MirrorReply(m) ==
    /\ follower[m] \in {"following", "ended"}
    /\ hermes[m] = "completed"
    /\ replies' = [replies EXCEPT ![m] = IF @ = 0 THEN 1 ELSE @]
    /\ FollowerGoes(m, "mirrored")
    /\ UNCHANGED <<queueVars, outbox, delivery, run, rid, agentVars, taskVars,
                   controls, runtimeVars>>

CompleteDelivery(m) ==
    /\ follower[m] = "mirrored"
    /\ delivery' = [delivery EXCEPT ![m] = "completed"]
    /\ FollowerGoes(m, "answered")
    /\ UNCHANGED <<queueVars, outbox, run, rid, replies, agentVars, taskVars,
                   controls, runtimeVars>>

CompleteRun(m) ==
    /\ follower[m] = "answered"
    /\ WriteRun(m, "completed")
    /\ FollowerGoes(m, "ended")
    /\ UNCHANGED <<queueVars, outbox, delivery, rid, replies, agentVars, taskVars,
                   controls, runtimeVars>>

\* The stream ends after a terminal event: the worker returns.
StreamEnds(m) ==
    /\ follower[m] = "ended"
    /\ FollowerGoes(m, "none")
    /\ UNCHANGED <<queueVars, dbVars, agentVars, taskVars, controls, runtimeVars>>

\* An error leaves follow_hermes_events: the transport breaks (also after a
\* terminal event), the status readback is not terminal, a write fails or
\* finds no row.
StreamBreaks(m) ==
    /\ \/ Happens("network") /\ follower[m] \in {"following", "ended"}
       \/ Happens("database")
          /\ follower[m] \in {"following", "mirrored", "answered", "refused",
                              "ended"}
       \/ /\ follower[m] \in {"following", "answered", "refused", "ended"}
          /\ ~ RowExists(m)
    /\ FollowerGoes(m, "broken")
    /\ UNCHANGED <<queueVars, dbVars, agentVars, taskVars, controls, runtimeVars>>

\* spawn_hermes_event_worker then writes Dispatched and Waiting, whatever the
\* rows hold; the errors of both writes are ignored.
BrokenDelivery(m) ==
    /\ follower[m] = "broken"
    /\ \/ delivery' = [delivery EXCEPT ![m] = "dispatched"]
       \/ Happens("database") /\ UNCHANGED delivery
    /\ FollowerGoes(m, "giving_up")
    /\ UNCHANGED <<queueVars, outbox, run, rid, replies, agentVars, taskVars,
                   controls, runtimeVars>>

\* Mutant: the end of the stream counts as completion.
BrokenMeansCompleted(m) ==
    /\ follower[m] = "giving_up"
    /\ WriteRun(m, "completed")
    /\ FollowerGoes(m, "none")
    /\ UNCHANGED <<queueVars, outbox, delivery, rid, replies, agentVars, taskVars,
                   controls, runtimeVars>>

BrokenRun(m) ==
    /\ follower[m] = "giving_up"
    /\ \/ WriteRun(m, "waiting")
       \/ /\ Happens("database") \/ ~ RowExists(m)
          /\ UNCHANGED run
    /\ FollowerGoes(m, "none")
    /\ UNCHANGED <<queueVars, outbox, delivery, rid, replies, agentVars, taskVars,
                   controls, runtimeVars>>

-----------------------------------------------------------------------------
(* Run controls from the API.                                              *)

\* steer_run, stop_run and resolve_approval: the handler read a run with a
\* runtime_run_id, without looking at its state, and Hermes accepts the
\* control of an active run (external).
PostControl(kind, m) ==
    /\ Happens("control")
    /\ rid[m] /\ RowExists(m)
    /\ hermes[m] = "active"
    /\ Cardinality(controls) < MaxControls
    /\ controls' = controls \cup {<<kind, m>>}
    /\ UNCHANGED <<queueVars, dbVars, agentVars, taskVars, follower, runtimeVars>>

\* The answer is recorded without reading the run again: Stopping after a
\* stop, Running after a steer or an approval.
RecordControl(kind, m) ==
    /\ <<kind, m>> \in controls
    /\ controls' = controls \ {<<kind, m>>}
    /\ \/ WriteRun(m, IF kind = "stop" THEN "stopping" ELSE "running")
       \/ /\ Happens("database") \/ ~ RowExists(m)
          /\ UNCHANGED run
    /\ UNCHANGED <<queueVars, outbox, delivery, rid, replies, agentVars, taskVars,
                   follower, runtimeVars>>

-----------------------------------------------------------------------------
(* Surroundings.                                                           *)

\* agents.status enters or leaves 'running' (the lifecycle operations).
LifecycleChange(a) ==
    /\ Happens("lifecycle")
    /\ agentUp' = [agentUp EXCEPT ![a] = ~ @]
    /\ UNCHANGED <<queueVars, dbVars, draining, taskVars, follower, controls,
                   runtimeVars>>

\* A configuration activation begins or ends its drain.
DrainChange(a) ==
    /\ Happens("drain")
    /\ draining' = [draining EXCEPT ![a] = ~ @]
    /\ UNCHANGED <<queueVars, dbVars, agentUp, taskVars, follower, controls,
                   runtimeVars>>

\* Mutant: a restart puts interrupted claims back into the queue.
CrashRequeues ==
    /\ Happens("crash")
    /\ NextRound
    /\ outbox' = [m \in Messages |->
                     IF outbox[m] = "dispatching" THEN "pending" ELSE outbox[m]]
    /\ run' = [m \in Messages |-> IF run[m] = "pending" THEN "failed" ELSE run[m]]
    /\ follower' = [m \in Messages |-> "none"]
    /\ controls' = {}
    /\ UNCHANGED <<queueVars, delivery, rid, replies, agentVars, runtimeVars>>

\* The Fleet process dies and starts again: its tasks are gone, uncommitted
\* transactions roll back, nothing resumes a claim or a follower.
Crash ==
    /\ Happens("crash")
    /\ NextRound
    /\ follower' = [m \in Messages |-> "none"]
    /\ controls' = {}
    /\ begun' = {m \in begun : outbox[m] # "absent"}
    /\ older' = {pair \in older : pair[1] \in begun' /\ pair[2] \in begun'}
    /\ UNCHANGED <<dbVars, agentVars, runtimeVars>>

-----------------------------------------------------------------------------
Dispatcher ==
    \/ \E m \in Messages : ClaimSnapshot(m)
    \/ ClaimLocked \/ ClaimSkipped \/ ClaimUnread \/ TargetUnread
    \/ PrepareRun \/ PrepareRefused
    \/ SendRun \/ RunAccepted \/ RunNotAccepted
    \/ RecordRun \/ RecordDelivery \/ RecordFails
    \/ MarkUndelivered \/ FinishDispatch \/ FinishLost

Follower(m) ==
    \/ SeeApproval(m) \/ SeeCancelled(m)
    \/ SeeFailed(m) \/ FailRun(m)
    \/ MirrorReply(m) \/ CompleteDelivery(m) \/ CompleteRun(m)
    \/ StreamEnds(m)
    \/ StreamBreaks(m) \/ BrokenDelivery(m) \/ BrokenRun(m)

Hermes(m) == HermesAccepts(m) \/ HermesDrops(m) \/ HermesEnds(m)

Api(m) ==
    \/ BeginPrompt(m) \/ CommitPrompt(m)
    \/ \E kind \in ControlKinds : PostControl(kind, m) \/ RecordControl(kind, m)

Surroundings ==
    \/ \E a \in Agents : LifecycleChange(a) \/ DrainChange(a)
    \/ Crash

Next ==
    \/ Dispatcher
    \/ \E m \in Messages : Follower(m) \/ Hermes(m) \/ Api(m)
    \/ Surroundings

Spec == Init /\ [][Next]_vars

-----------------------------------------------------------------------------
(* Properties.                                                             *)

\* A request of m is on its way to the runtime, or its run is executing.
Live(m) == m \in inflight \/ hermes[m] = "active"

\* Capacity 1: an agent never executes, nor is about to receive, two runs at
\* once, whatever crashed, timed out, was steered or arrived late.
CapacityOne ==
    \A m \in Messages : \A n \in Peers(m) : Live(m) /\ Live(n) => m = n

\* A prompt is sent to the runtime at most once in its life: no timeout,
\* crash, drain or lifecycle change makes the dispatcher send it again.
SentOnce == \A m \in Messages : posts[m] <= 1

\* A run row claims a terminal state only when the runtime reached that very
\* state: neither an HTTP answer nor the end of the stream fabricates one.
TerminalEvidence ==
    \A m \in Messages : run[m] \in TerminalStates => hermes[m] = run[m]

\* The transcript holds the runtime's answer at most once, only after the
\* runtime completed, and always when the run row says completed.
AnswerOnce ==
    \A m \in Messages :
        /\ replies[m] <= 1
        /\ replies[m] = 1 => hermes[m] = "completed"
        /\ run[m] = "completed" => replies[m] = 1

\* An outbox row says 'dispatched' only for a prompt the runtime accepted.
DispatchedWasAccepted ==
    \A m \in Messages :
        outbox[m] = "dispatched" => hermes[m] # "absent" /\ rid[m]

\* A claim whose outcome is unknown holds its agent for good: nothing
\* releases it, and no other prompt of that agent is sent.
UnknownHoldsAgent ==
    [][\A m \in Messages :
          /\ outbox[m] = "uncertain" => outbox'[m] = "uncertain"
          /\ outbox[m] \in {"dispatching", "uncertain"} =>
                \A n \in Peers(m) \ {m} : posts'[n] = posts[n]]_vars

Phase(m) == IF posts[m] = 0 THEN "stored"
            ELSE IF Live(m) THEN "occupying" ELSE "over"

\* Seen from outside, every agent is a slot that a prompt occupies at most
\* once, from the moment it is sent until its run ends or the request is lost.
Slots == INSTANCE AgentSlots WITH
    Prompts <- Messages,
    phase <- [m \in Messages |-> Phase(m)]
ImplementsSlots == Slots!Spec

\* A run that reached a terminal state stays in it: a late control answer or
\* a stream that breaks after the terminal event does not reopen it.
TerminalIsFinal ==
    [][\A m \in Messages : run[m] \in TerminalStates => run'[m] = run[m]]_vars
=============================================================================
