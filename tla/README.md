# Fleet Control: a verification project

Fleet Control runs and supervises Hermes agents. A Rust backend (one process,
several tokio tasks, one PostgreSQL database) stores prompts, sends each to the
runtime of an agent, follows the run, manages the agents' processes and their
configuration, runs deployments through Forge, and serves a web client. This
directory holds TLA+ modules of its concurrent core, the TLC configurations that
check them, and theorems that TLAPS proves for every value of the constants.

Run a configuration with `tlc -config <run>.cfg <module>` (the module of each run
is in the table below) and check the proofs with `tlapm <module>`.

Paths: `RT` is `src/backend/infra/src/runtime/mod.rs`, `LIB` is
`src/backend/infra/src/lib.rs`, `CR` is `src/backend/infra/src/config_revisions.rs`,
`APP` is `src/backend/app/src/lib.rs`, `SRV` is `src/backend/server/src/lib.rs`,
`SES`, `AG`, `SET` and `DEP` are `sessions.rs`, `agents.rs`, `settings.rs` and
`deployments.rs` in `src/backend/api/src/routes/`, `M10`, `M11`, `M12` are the
migrations `m20261001_000010..12`.

## 1. Inventory

| Component | State | Operations | What makes it hard |
|---|---|---|---|
| Prompt dispatch (`RT` 93-128, 1004-1221, 2167; `LIB` 2023-2384; `M11`) | `message_dispatch_outbox`, `session_messages.delivery_state`, `session_agent_runs`, the run in Hermes | claim, prepare a run, POST /v1/runs, record, finish | the request crosses the network between two transactions; capacity lives in three places; nothing undoes a claim after a crash |
| Run following (`RT` 1223-1551) | the run row, the assistant message, the SSE stream of the runtime | handle events, read the terminal status back, give up | streams break early or late; several terminal events; every write can fail |
| Run controls (`RT` 2243-2357, `SES` 564-650) | the same run row | steer, stop, approve | the row is written after an await, from a read before it |
| Configuration revisions (`CR`, `M12`, `AG` 361-468) | `agent_config_revisions`, `agent_config_heads` (desired, effective, draining) | save, validate, activate, claim, finish | saved is not effective; the drain must meet claims of prompts |
| Activation (`RT` 130-292, `LIB` 4386-4532) | files on disk, the process, the children map | stop, write, read back, start, roll back | any step may fail; Fleet may die half way |
| Runtime lifecycle and reconciler (`RT` 294-345, 1554-2165; `APP` 904-946; `AG` 51-360) | `agents.status`, desired state, pid, the folders, the table of children, the processes | provision, start, stop, restart, health, archive, purge; a pass of the reconciler | operators, reconciler and activator act on one process from rows they read before; processes may outlive Fleet |
| Session events and SSE (`M10`, `LIB` 1958-2006, `SES` 455-561) | `session_events`, `session_event_cursors`, the stream's queue and cursor | number, commit, page, resume | commit order against numbering; pages; reconnects |
| Session transcript (`LIB` 1463-1743, 2134-2254; `SES` 340-407) | sessions, messages, idempotency keys | create a session, delegate, store a message | a delegation is two transactions; requests are repeated |
| Runtime approvals (`LIB` 2386-2550, `RT` 1377-1421, 2303-2357) | approval rows, the waiting run | request, resolve | a resolution can come twice or late |
| Deployment jobs (`LIB` 3156-3410, `RT` 436-905, `DEP`) | job rows; releases and pipelines in Forge | enqueue, claim, start a release, poll, cancel, time out | cancellation overlaps the worker; an answer of Forge can be lost |
| Alerts (`APP` 948-1162, `LIB` 2728-2879) | alert rows | raise, acknowledge, resolve, scan heartbeats | transition tasks and scans overlap; an alert is raised once and resolved |
| Managed settings (`LIB` 3437-3536, `APP` 552-902, `SET`, `SRV` 17-122) | versions, the active one, the loaded one | apply, roll back, restart | comparison in the handler and in the transaction; the restart it promises |
| Authentication (`src/backend/app/src/auth.rs`) | one refresh-token hash per user | login, refresh, logout | none that meets the other components |
| Workflows, domain types, HTTP wiring, CLI, telemetry, web client | definitions; none | validation, presentation | no concurrency of their own |

How they interact. An API handler commits a prompt with its outbox row (a
trigger). The dispatcher task claims the row if its agent runs, does not drain
and has neither a busy outbox row nor an active run; it binds a run row, posts
to the runtime and spawns a follower. The activator task claims an activation
when its agent has neither; it stops the runtime, replaces the files and starts
it again. Every write to a session's tables fires a trigger that appends a
session event in the same transaction, which the SSE handler pages to clients.
Lifecycle handlers and the reconciler read the drain and then act on the same
process. After each lifecycle operation a detached task raises or resolves
alerts; a scan of the reconciler loop does the same for heartbeats. The
deployment worker is a step of the same loop. Applying settings makes the server
shut down, so every task ends, and its supervisor starts it again. All tasks
live in one process and die together; the processes of the runtimes may survive.

Properties that make them correct:

- dispatch: an agent never has two runs (capacity 1); a prompt is sent at most
  once; an unknown outcome is never resolved by guessing; a terminal state in
  the table is the runtime's; one answer per run; every prompt finishes when
  nothing fails;
- configuration: an agent released from a drain has exactly its effective
  revision on disk and in its process; a failed activation is undone; drains
  have a reason and end; files never change beneath a run (refuted: at most one
  prompt slips through a drain, and they change beneath no other);
- session events: append-only, read in order, once, without a gap, to the end;
- lifecycle: no runtime process is left behind untracked; a stopped agent stays
  down; a dead runtime is noticed, and one that should run is started again
  (refuted: unless a fault cuts the restart in two);
- deployment jobs: one job and one release per key; an identical repeat is
  answered with the job (refuted); completed means released and healthy; a failed
  or cancelled job is over; every product job ends while Forge is configured and
  the worker's list reaches it;
- session requests: a key opens one session with its one first message;
- settings: no update replaces one its author had not seen; a promised restart
  loads what it was promised for;
- alerts: one active heartbeat alert per agent, which goes when the agent answers.

## 2. Modules

| Module | Models |
|---|---|
| `AgentSlots` | abstract: an agent is one slot, a prompt occupies it at most once |
| `Dispatch` | outbox, claim, dispatcher task, runtime requests, followers, run controls, crashes |
| `DispatchLeader` | `Dispatch` plus `assign_session_leader`, which deletes run rows |
| `ConfigRegister` | abstract: save, block, commit or abort a revision |
| `ConfigRevisions` | revisions, drain, the activator with files, process and rollback; lifecycle handlers and health checks racing it; crashes |
| `AgentGate` | `Dispatch` and `ConfigRevisions` on one database: `draining`, outbox, runs and `status` are shared |
| `EventLog` | abstract: a log that grows and a subscriber that reads it in order |
| `SessionEvents` | trigger numbering under the row lock, commits, pages, resuming streams |
| `AgentLifecycle` | one agent: row, files, process, table of children, the handlers, the reconciler; crashes |
| `JobLedger` | abstract: a key opens one job and one release, completed only with it, over once it failed |
| `DeploymentJobs` | creation, cancellation, the worker, Forge, timeouts; crashes |
| `SessionRequests` | `create_session`, delegation in two transactions, repetition by key; lost answers |
| `ManagedSettings` | apply, roll back, activate, the restart of Fleet; crashes |
| `Alerts` | transition tasks, heartbeat scans, acknowledgement |
| `Services` | instances of the last four components |
| `DispatchProofs`, `ConfigProofs`, `GateProofs`, `SessionEventsProofs`, `LifecycleProofs`, `JobsProofs`, `RequestsProofs`, `ServicesProofs` | the theorems; those about settings and alerts are in the last |
| `MCDispatch`, `MCLeader`, `MCConfig`, `MCGate`, `MCEvents`, `MCLifecycle`, `MCServices` | constants for TLC |

Each definition's source lines are under `map` in `PROJECT.json`. Definitions
headed "Mutant" are plausible bugs; no specification uses them, the mutation runs
put them in place of the definition they follow.

### Dispatch

One action per database call or network event. `pc` is the program counter of
the dispatcher task (one task, one message in hand: `current`), `follower[m]` that
of the worker that reads m's stream. `run[m]` is the row that m's dispatch bound;
placeholder rows without a runtime session are counted by no query and left out.
The Idempotency-Key of the POST is the message id, so `hermes[m]` is the
runtime's run of m. `inflight` holds requests the runtime has not handled yet; a
request outlives the connection and even the Fleet process that sent it.

The claim takes two actions, because its statement does: `ClaimSnapshot`
evaluates the candidate query, `ClaimLocked` locks the agent and the outbox row.
PostgreSQL re-evaluates the locked rows under READ COMMITTED, not the `NOT
EXISTS` subqueries over other tables: the status of the agent and the state of the
outbox row are current, the drain and the runs are those of the snapshot. Busy
rows are guarded by the unique index per agent (`M11` 14).

`PrepareRefused` may leave the row that `PrepareRun` committed: reading it back, the
agent's address and its token can fail afterwards, and then a run row stays
`pending` without a request.

`FinishDispatch` records `uncertain` for every error, also of those that precede
the POST; the caller never passes `failed`. `FinishLost`, `ClaimUnread` are the
dropped errors after which a row stays `dispatching`. A crash frees tasks only:
nothing in the code re-claims a `dispatching` row or restarts a follower.

### ConfigRevisions

A file set or a loaded configuration is the number of the revision it came from,
0 for what provisioning wrote, `Mixed` while the renames of a write are under
way. `agents.status` is `running`, `stopped` (stopped or ready) or `other`.
`runtime[a]` is what the answering process loaded; `tracked` is the children map.
A process that survived a crash is not tracked and keeps the port, so a new
child's readiness probe is answered by the old process. Per agent one lifecycle
operation (`asked`) and one health check (`seen`) may be under way next to the
activator; each read the drain before and holds nothing.

`WorkChange` stands for dispatch when the module is checked alone: work begins
only on a running agent that does not drain. `AgentGate` puts the dispatcher itself
in its place, which can begin work on an agent that has just started to drain
(`gate_race`). `WritesAtRest` and the invariant `AtRest` are therefore about an
activator whose dispatcher keeps the drain; what the activator does about work is
theirs, what the dispatcher does is said in `AgentGate`. Nothing else that is
proved in `ConfigProofs` depends on it.

### AgentGate

Instances of both modules: `agentUp` is `status = "running"`, `busy` is a busy outbox
row or an active run. A step is one of the dispatch (`OfDispatch`), one of the
configuration (`OfConfig`), or a crash of the one process that runs both. The claim
is that of `Dispatch`, with its snapshot. `slipped[a]` is a history variable: the
prompts of `a` that were claimed since its drain began. Agents start running. Which
faults, operators and controls there are is up to the two fault constants.

### SessionEvents

The trigger's `INSERT ... ON CONFLICT DO UPDATE` on the cursor row keeps its lock
until commit (`holder`, `value`), so numbers commit in order. The stream handler
holds `at`, a queue and the snapshot event. The stream library of the client
is not in the repository: it is modelled as it is used, noting the last id it
received and resuming from it. Only one subscriber is modelled, since
subscribers share nothing but the log, and only the stream: the client also
refetches the transcript on a timer, which makes the freshness of its view
trivial and is presentation.

### AgentLifecycle

One agent, since lifecycle operations of different agents share nothing.
`row` is the status, the desired state and whether a pid is recorded; `child` is the
entry of the supervisor's table, `orphans` counts live processes that are in no
entry. Each operator's handler and the reconciler (`Procs`) has a step and the row
it read when it began: every database call, every use of the table and every
probe is an action, and nothing locks the agent in between. The row of a health
check or a start is written whatever it is by then (`Write`).

`Spawn` replaces the entry of the table: a child that was alive there becomes an
orphan. `GiveUpStart` kills whoever holds the entry, not only the child of this
start. A probe is answered if anything listens on the agent's port, so an orphan
can answer for a child. `Java` selects the kind of agent: the two differ in what an
unanswered probe writes. `CallFails` ends an operation at its database call or file
operation; `Crash` empties the table and keeps any of the processes; `Die` ends a
process. `Drain` is the activator as seen from here: it refuses operators and makes
the reconciler skip the agent. What an activation does to the process is in
`ConfigRevisions`, and appears here as a restart, which is not refused.

`owed` is a history variable: a runtime that should run died with Fleet, at a time
when nothing else was under way, and Fleet owes its restart. It is `lost` when the
row says meanwhile that nobody wants the agent: the reconciler restarts by a recorded
stop, which writes the desired state `stopped` (`RT` 1980), and a crash or a failing
call before the start leaves it at that. `RestoredAfterCrash`, that no debt stays, is
refuted by this; `RestoredUnlessCut` says that everything else that is owed is done.

### DeploymentJobs

A request names the job it inserts. `FindKey` and `Insert` are the two statements of
`create_deployment_job`; the unique index makes the second of two racing requests
look again. `cancel_deployment_job` is read (`CancelBegins`), a request to Forge when a
release is known, a second read and an update by id. The worker is one pass of the
reconciler loop: list agent jobs, run each, list product jobs, advance each by what
is known of its release. `Update` has the `WHERE` of `update_deployment_job_state`;
`RunAgentJob`, `RecordOutcome` and `CancelWrites` have none, as in the code. Each
exchange with Forge can fail before it is handled, succeed, or succeed with the
answer lost; Forge makes one release per key (the job's idempotency key is sent
as the request key). Time is one event per job, `TimeIsUp`.

`JobLedger` is what a caller sees of it by keys: a key is opened once, its release is
made once (also when its job was cancelled meanwhile), completion needs the release,
and a failure is final. A completed key may still fail, because `CancelWrites` writes
by id what it read before.

`Reply` compares the detail of the stored row with that of the request, and the worker
adds the ids of the release to it (`linked`), so an identical repeat is answered with
the job only before that. `forge` says whether the process was given the settings of
Forge, which may change when it starts again; without them a pass of the worker ends
before the product jobs (`RT` 472). `buried` are product jobs behind 500 newer ones,
which the worker's list does not reach (`RT` 517). `ProductJobsEnd` excludes exactly
these two.

### SessionRequests

`holder` is the advisory transaction lock of a key. `Find` and `Insert` are one
transaction of `create_session`, `StoreMessage` is the second of a delegation; a
connection can be lost at each step (`Fail`) and Fleet can die (`Crash`). A client
with a key sends the same request again until it has an answer. The agent may be
archived at any time. `Find` reads it without a lock and refuses an archived one;
`Insert` does not look again, so a session can be opened for an agent that was archived
in between.

### ManagedSettings

A request is checked by the handler (valid, expected version, changed against what
this process runs), activated in a transaction under an advisory lock that
compares again, and then a restart is scheduled. Version numbers come from a
sequence: a failed transaction uses one up. `replaced` is what the audit row
records as the previous version. The process drains, goes down and starts with the
active version; it can crash anywhere.

### Alerts

Alerts of a kind are counted by state, since `OneHeartbeatAlert` and `FreshResolves`
tell nothing else apart. `StatusWritten` is any write of a status: the detached
tasks it starts may run in any order, so a recovery can be recorded before the
failure it follows. `RaiseStale` locks the agent row and looks again; `ResolveFresh`
does not. The writers of the status are in `AgentLifecycle`.

### Services

Jobs, session requests, settings and alerts share a process and a database, but no
table, lock or handler of one is read or written by another; what connects them is
only that a crash ends them all, and each module has its own crash. Interleaving
them would multiply the states and show nothing, so the initial state chooses the
`service` that acts. `Services` names their properties and states the fairness of
each.

## 3. Runs

| Run | Module | Shows |
|---|---|---|
| `dispatch_safety` | `MCDispatch` | two prompts of one agent, every adversity: capacity, send-once, terminal evidence, one answer, unknown outcomes hold; implements `AgentSlots` |
| `dispatch_reopened` (violation) | `MCDispatch` | a control's late answer reopens a finished run |
| `leader_capacity` (violation) | `MCLeader` | assigning a leader frees an agent that is executing |
| `config_safety` | `MCConfig` | one agent, two revisions, every failure and racing operators: drain, files, abstract register |
| `config_unrestored` (violation) | `MCConfig` | a stop that cannot be recorded skips the rollback |
| `gate` | `MCGate` | dispatcher and activator together, with crashes, failing files and failing starts: at most one prompt slips through a drain, files change beneath no other, none is claimed once the runtime is stopped; rollback is complete, the process runs the effective revision; activations end and prompts finish unless a prompt was orphaned |
| `gate_race` (violation) | `MCGate` | files change beneath the prompt that slipped through |
| `session_events` | `MCEvents` | order, no gap, resumption, append-only, implements `EventLog`, delivery |
| `lifecycle` | `MCLifecycle` | an operator beside the reconciler, crashes, failing calls: no leak, stopped stays down, death is noticed, what should run is restored unless a fault cuts the restart in two |
| `lifecycle_lost` (violation) | `MCLifecycle` | a fault between the reconciler's recorded stop and its start loses the agent |
| `services` | `MCServices` | the nine properties of jobs, session requests, settings and alerts; jobs implement `JobLedger` |
| `services_repeat` (violation) | `MCServices` | an identical repeat of a job request is refused once the worker has added the release's ids |

### Bounds, and why they are enough

- `dispatch_safety`: one agent and two prompts. Capacity concerns pairs of prompts
  of one agent; agents share nothing in the claim but the task that serves them.
  `MaxControls = 1`: one control answer under way can already come before or after
  each other write of the row. Prompts are symmetric. The proofs below drop all
  three bounds. About 710,000 states.
- `config_*`: two revisions, so a new one can be saved over a failed, an active or
  an abandoned one; one agent, since the activator handles one at a time and no
  row of another agent is read. The theorems hold for any number of each.
- `gate`: two prompts and one revision: one prompt may run or be of unknown outcome
  when the drain begins while the dispatcher has chosen the other. Crashes, half-written
  files and processes that do not become ready are unbounded; database calls, the
  network and operators do not fail or interfere (what they do is in `dispatch_safety`,
  `config_safety` and the violations). About 205,000 states; the theorems drop all
  these bounds. `gate_race` needs one prompt and no fault.
- `session_events`: two writers and eight numbers with pages of three, so that a
  backlog takes three pages, transactions hold several events, and a numbering
  transaction can wait for or overtake another.
- `lifecycle`: one operator beside the reconciler and two faults. Two handlers
  suffice for every race of the module (each property excuses or concerns a pair),
  and an operator may begin any number of operations. Two faults let a crash follow
  a failing call, and a second crash come before the first is repaired. `MaxOrphans`
  is 1, as `NoLeak` is about the first. About 585,000 states. The configuration is a
  Hermes agent; the theorems hold for both kinds and any number of handlers.
- `services`, about 217,000 states. Jobs: the workloads are no request, two requests
  for one key with the same and with different payloads, a product and an agent job,
  and two agent jobs, with Forge configured or not, and one fault: a crash (which may
  change that), a failing call, or a job that newer ones hide; more than two jobs at a time only lengthen
  the worker's lists. Session requests: four of them, three on one key (another
  message, another payload) and one without a key, with two faults. Settings: two
  operators, three versions, a refused snapshot and one equal to the baseline, with
  two faults, so that a crash can follow the promise of a second version. Alerts: two
  Fleet processes scan, one transition task runs at a time, one `agent_down` alert.

Deadlock is not checked in any run: every instance is finite (prompts,
revisions or numbers run out, users may stop acting), so the system legitimately
comes to rest.

### Fairness, and why the code justifies it

- The dispatcher, the activator and the followers are loops that survive errors
  (`RT` 93-166, 1223): weak fairness of each task. In `AgentGate` a claim may be
  skipped because a row is locked; row locks last one transaction and the loop polls
  again, hence strong fairness of `ClaimLocked`. A follower need not see an approval
  event, so fairness is asked of what it does with the others (`Handles`).
- The runtime answers a request and ends its runs (external): weak fairness of
  `HermesAccepts` and `HermesEnds`. No fairness is assumed of users, operators,
  crashes, or approvals.
- The client reconnects (`WF(Open)`), and a connection lasts long enough for one
  step now and then (`SF` of `Greet`, `Poll`, `Deliver`).
- The reconciler loop goes on after every error (`RT` 294-345): `WF(Reconciler)` in
  `AgentLifecycle` and `WF(Worker)` in `DeploymentJobs`. The HTTP client has a timeout
  for connecting only (`RT` 78): both assume that a peer that took a request
  answers it or that its connection breaks. A peer that keeps a connection open
  for ever stops the loop, and with it these guarantees.
- The two liveness properties of `AgentLifecycle` have the premise `<>[]~draining`, since
  the reconciler skips an agent that drains. `gate` shows when drains end
  (`ActivationEnds`): unless Fleet lost the activation in a crash, or a prompt of the
  agent is orphaned and the activation waits for it, as ADR 0012 line 19 wants.
- Thirty minutes pass (`WF(TimeIsUp)`). Of Forge nothing is assumed.
- In `Services` one service acts per behaviour, so one weak fairness condition stands for
  that of the worker, the process and the scans.
- A process that was told to restart stops within its limit and is started by its
  supervisor (`SRV` 94-122, exit code 75): `WF(Process)`.
- The heartbeat scan runs in the same loop and its database calls do not fail for
  ever: `WF` of scans, `SF` of `ReadAlerts` and `ResolveFresh`, which a failing call
  (`EndScan`) can disable again and again but not always.

Nobody takes up again what a crash or an unknown outcome leaves behind: a row that
stays `dispatching` (`RT` 113), one that is `uncertain`, a run without a follower. Such a
prompt is `Orphaned`, by design of the code a matter for people, and it holds its
agent. `PromptsFinish` and `ActivationEnds` excuse agents with such a prompt and no
others, and `PromptsFinish` asks only of agents that in the end stay running and
released.

## 4. Findings

1. `dispatch_reopened`: `steer_run`, `stop_run` and `resolve_approval` write the run
   state after the runtime's answer without looking at it. A run that finished
   meanwhile becomes `stopping` or `running` again and holds its agent, against
   `docs/CHAT.md:241`.
2. `leader_capacity`: `assign_session_leader` (`LIB` 1803) deletes run rows of the
   role leader whatever their state, so an executing run no longer counts, against
   `docs/ARCHITECTURE.md:104`.
3. `config_unrestored`: the `?` after the stop in `apply_config_revision` (`RT` 203)
   leaves before the block that rolls back; the error is not `Unavailable`, so the
   drain is released with the runtime down, against
   `docs/adr/0012-configuration-revisions-and-drain.md:22`.
4. `gate_race`: the claim's `NOT EXISTS` on the drain is not re-evaluated after the
   row lock, so a prompt can be sent to an agent whose drain committed in between,
   and its files are replaced beneath it, against line 19 of the same record. What
   still holds is in `gate` and `GateProofs`: it is one prompt per drain (`OneSlip`),
   the files change beneath no other (`OnlySlippedDisturbed`), and without operators
   none is claimed any more once the runtime was stopped (`NoClaimDuringApply`).
5. `lifecycle_lost`: the reconciler's restart records a stop, which sets the desired
   state to `stopped` (`RT` 1980), and then starts. If Fleet dies or a call fails in
   between, the next pass finds an agent nobody wants, and it stays down, against
   `docs/RUNTIME.md:35-37` ("An agent whose desired state is running is then restarted
   by the reconciler") and `docs/RESILIENCE.md:7`.
6. `services_repeat`: `create_deployment_job` compares the stored detail with the
   request's (`LIB` 3225, 3262), and the worker merges the release's ids into it
   (`LIB` 3346, `RT` 609), so an identical repeat is answered with 409 from then on,
   against `docs/API.md:221`.

## 5. Proofs

All theorems hold for every value of the constants under the module's named
assumption. Six of them have a further hypothesis, an operator named in the theorem. It is
the condition under which the code keeps its promise, and for each the finding of
section 4 or the experiment named here shows what happens without it.

`DispatchProofs` (constants: any agents, prompts, assignment and adversities;
assumption `DispatchAssumption`). `Inductive` proves `IInv`, the conjunction of

- `TypeOK`;
- `Sending`: the dispatcher works on a row it holds `dispatching`; an unclaimed row
  was never sent; so a prompt is sent once (`SentOnceHolds`);
- `Reported`, `TerminalEvidence`: where a follower stands tells what the runtime
  reported, so a terminal row state is the runtime's (`TerminalEvidenceHolds`,
  `AnswerOnceHolds`);
- `Accepted`: what the outcome steps established, in particular that a live prompt
  is held by its outbox row or an active run (`DispatchedWasAcceptedHolds`, lemma
  `LiveIsHeld`);
- `Reserved`: one busy row per agent, and a prepared prompt has no live rival;
- `CapacityOne`, which is not inductive alone: a send is harmless only because
  `Reserved` says nobody else of the agent is live, which is known when the run is
  prepared only because every live prompt is held.

`UnknownHoldsAgentHolds` and `Refinement` (Dispatch implements `AgentSlots`) follow.

`TerminalIsFinalHolds` proves the property that `dispatch_reopened` refutes, under
`NoLateWrites`: no controls, no broken streams, no failing database calls; crashes,
drains and lifecycle changes go on. Each of the three is needed: TLC refutes the
property with `Faults = {"control"}` (the finding), with `{"network"}` alone and with
`{"database"}` alone, because a follower that gives up (`BrokenRun`) and a dispatcher
whose call fails write the row without reading it. `Closing`, the invariant it rests
on, says that a row which is being opened has no follower and is not terminal, and
that no follower gives up.

`ConfigProofs` (assumption `ConfigAssumption`): `IInv` is `Owned` and `AtRest`. `Owned` adds
to `TypeOK` that revisions are numbered without gaps (`Numbered`), the activator's
job is claimed and activating (`Held`), an unclaimed activation has not touched the
files (`Untouched`), and what is on disk at every step of an activation (`Applied`).
`AtRest`, that a job's agent has no work, is apart because it is the only part that
rests on `WorkChange`; `Owned` survives any change of `busy`, which is what `GateProofs`
needs. From them: `DrainHasReasonHolds`, `EffectiveOnDiskHolds`, `WritesAtRestHolds`, and
`Refinement` to `ConfigRegister`. `EffectiveOnDisk` alone is not inductive: that a
recorded success has the revision on disk, and a recorded failure the old files,
is what `Applied` carries from step to step.

- `RuntimeRunsEffectiveHolds` has the hypothesis `NoOperator` (no lifecycle operation
  or health check meanwhile; everything else may fail). `Hosting` says what process
  serves the agent at every step of an activation and of its rollback, and that the
  activator starts only what it found running. With `{"lifecycle"}` TLC refutes the
  property: a start that looked at the drain before it began overlaps the writes.
- `FailureRestoresHolds` has the hypothesis `HostFaultsOnly`: no operators, no failing
  database call, no process that exits by itself. TLC refutes the property with
  each of the three: `{"lifecycle"}`, `{"files", "database"}` (the finding of
  `config_unrestored`) and `{"files", "exit"}`.

`GateProofs` (assumption `GateAssumption`, which joins those of the two components) is
about the composition, with the claim as the code has it. `CInv`, both components'
invariants over the shared variables, is inductive without a hypothesis: a step of
one changes of the other only what it reads, and each invariant survives any
well-typed change of that (lemmas `AgentsChange`, `OthersKeep`). Hence `SafetyComposed`,
the state properties of both in the composition, and `RefinesBoth`, both refinements.

- `OneSlipHolds`, for all faults, operators and controls, from `OneChoice`: once a
  prompt of an agent has slipped, the dispatcher is not between snapshot and lock
  for that agent, and it cannot get there again while the agent drains.
- `OnlySlippedDisturbedHolds`, also for all of them, from `Excluded`: what is busy or live
  of the agent the activator works on is in `slipped`. The activator's claim found no
  busy or active row; by `LiveIsHeld` nothing was live then; and what became busy later
  was claimed during the drain. It is about what is really under way: that there is no active
  run *row* is not invariant, since a late write can bring one back, which harms
  nobody, as no request follows from it.
- `NoClaimDuringApplyHolds`, under `Config!NoOperator`, from `Stopped` and `Hosting`: from the
  stop to the outcome the agent is not shown as running, and both the claim and the
  preparation of a run read that under the agent's row lock. With operators a start
  that was under way can record the agent as running meanwhile.
- `RuntimeRunsEffectiveHolds` and `FailureRestoresHolds`, under the same hypotheses as in
  `ConfigProofs`: what the activator promises of the process it promises beside the
  real dispatcher, too.

`SessionEventsProofs` (assumption `EventsAssumption`): `IInv` says that only the lock
holder has uncommitted numbers, contiguous after the committed ones (`Reserved`),
the committed ones have no hole (`Dense`), the queue is exactly what lies between
the client and the handler's cursor (`Streamed`), and the client received a stretch
of the log (`Received`). From it: `NoGapHolds`, `ResumeAcceptedHolds`,
`AppendOnlyHolds` and `Refinement` to `EventLog`, for every page size and number
of writers.

`LifecycleProofs` (assumption `LifecycleAssumption`; Hermes and Java agents, any number
of handlers, faults and orphans): `TypeCorrect`, which says among other things
that no path records a pid for an agent that failed or was never started;
`ProcessesAreTracked` (`NoLeak`) by `LeakInv`: two handlers between their look at the
table and their spawn, or one of them beside a living child, are `excused`;
`StoppedIsDown` (`StoppedStaysDown`) by `HaltInv`: after a stop with nothing else under
way nothing lives, the desired state is stopped, and every handler that is under
way is `Quiet`, at a step that neither spawns nor wants the agent running. The
property speaks of processes only, and the desired state is what makes it
inductive, because the reconciler acts on that.

`JobsProofs` (`JobsAssumption`: any requests, kinds, keys, payloads and faults): `IInv`
adds to `TypeOK` that the worker's lists hold jobs of the kind it is at (`Listed`), a
request that has not inserted has no row (`Present`), a key has one row, which
every answer names (`Owned`), Forge made a release exactly where one is recorded
(`Made`), an agent job that was not started has no pipeline (`Triggered`), and at
each step from the poll on release and health are what they were seen to be, as a
release that succeeded stays so (`Verified`). From it: `OncePerKey`,
`CompletedVerified`, and `Refinement` to `JobLedger`. The last rests on lemma `StateSteps`,
which bounds what a step may do to the state of one job, and on `RowInLedger`, which
carries that from rows to keys and needs `Owned`, for a key with two rows could be
completed and failed at once. That a failed job is final for the worker, also when
it was cancelled between two of its steps, is part of the ledger.

`RequestsProofs` (`RequestsAssumption`): `Locked` (between look-up and insert a keyed
request holds its key, and the key is still new), `OneSession`, `Known` (what a
request knows of the session it goes on with), `Once`, `Told` (messages hold nothing
but one first message). `AnsweredIsComplete` follows; it is not inductive because
the answer rests on what earlier steps, and other requests of the key, stored.

`ServicesProofs` proves the safety properties of `services` for the composition:
`SInv` says that the acting service has its invariant, from the two modules before
through `INSTANCE` and from the two services proved in this module, and that the
properties of the others stay with the rows nobody touches.

- Settings (`SettingsInv`): `RequestsFit` (a request about to be activated was
  validated, one about to schedule stands for a version) and `OneChain` (a version
  replaced an earlier one with nothing in between), hence `NoLostUpdate`;
  `SettingsAlone` states it of the service by itself.
- Alerts: `OneHeartbeatAlert`, for any number of scanners and tasks: `AlertSteps` lists
  what a step can do to the counts of alerts.
- `RefinesLedger`: the composition implements `JobLedger` too, as the other services
  leave the jobs alone. `TypeCorrect` is the type invariant of all four.

The assumptions of `JobsProofs` and `RequestsProofs`, and that of the settings, are
operators, assumed by their theorems; `ServicesAssumption` states them of the constants
of `Services`, so TLC evaluates them.

Only model-checked: liveness (`ActivationEnds`, `PromptsFinish`, `EventsArrive`,
`DeadIsNoticed`, `RestoredUnlessCut`, `ProductJobsEnd`, `PromisedIsLoaded`,
`FreshResolves`), since fairness and ENABLED are beyond the prover. Of `DispatchLeader`
nothing is proved: the one property stated of it, `CapacityOne`, is refuted.

## 6. Not modelled

- Contents: prompts, configuration, skills and event payloads are names or
  numbers. `CR` 78 reads skills before it locks the agent; a snapshot's content is
  outside the model.
- Row locks below a statement and their deadlocks: PostgreSQL aborts one side, which
  is the failing database call of the modules.
- The order between prompts: the queue goes by the start of the storing
  transaction, which `older` models; the code promises no order.
- `handoff_session` (`LIB` 1861-1957) inserts rows that name a session that does not
  exist (a shadowed id at 1918) and always fails; an agent of a session is therefore
  fixed.
- `AppError::database` is taken not to be `Unavailable`; the event names of Hermes
  that contain "completed", "fail" or "cancel" are taken to report run outcomes.
- What recovery the code does not have: the follower of an executing run and a
  `dispatching` row are not taken up again after a crash (`Orphaned`); an agent job
  marked running whose worker died stays running (`RT` 478), so `ProductJobsEnd` is
  about product jobs and nothing says that agent jobs end.
- `agent_restart_loop` is resolved but never raised: the event it counts
  (`agent.restart`, `LIB` 2832) is inserted nowhere.
- The limit of 20 in the worker's list of agent jobs, for the same reason: an agent
  job it hides waits. (The limit of 500 for product jobs is modelled.)
- The hash of a delegation's payload includes the current leader of the parent session
  (`LIB` 1706-1714): `SessionRequests` takes a request's payload as fixed, so a repeat after
  a change of leader, which is answered with a conflict, is not there. Nor is a repeat
  without a message for a session opened with one: the code does not compare a missing
  message and answers it, where `docs/CHAT.md:154-156` asks for 409.
- The synchronisation of runtime transcripts into messages, titles, and the rows of
  approvals, which are shown and not acted on.
- The kernel's reuse of a process id: a pid is recorded or not.
- Authentication: checks of credentials and tokens, and one refresh-token hash per
  user; no other component reads it.
- Pure I/O, generated code, workflow definitions, presentation, domain types.

## 7. Plan

Done: `AgentSlots`, `Dispatch`, `ConfigRegister`, `ConfigRevisions`, `AgentGate`, `EventLog`,
`SessionEvents`, `AgentLifecycle`, `JobLedger`, `DeploymentJobs`, `SessionRequests`,
`ManagedSettings`, `Alerts`, `Services`, and proofs of every safety property that a passing
run checks.

Left, in order:

1. `AgentLifecycle` and `ConfigRevisions` on one row: today each has the other's part
   as a few actions of its own.
2. What survives the reassignment of a leader: theorems about `DispatchLeader`, such as
   that a prompt is still sent once.
3. An abstract session request that `SessionRequests` implements, as `JobLedger` is for jobs.
4. `handoff_session`, once it works, with `DispatchLeader`.
