--------------------------- MODULE DeploymentJobs ---------------------------
(***************************************************************************)
(* Deployment jobs: the table, the handlers that create and cancel a job,  *)
(* the worker (one pass of the reconciler loop at a time) and Forge.       *)
(*                                                                         *)
(* An agent job (provision, runtime_update) triggers one pipeline and is   *)
(* done.  A product job (product_deploy, product_rollback) starts a        *)
(* release, then is polled by later passes until release, pipeline and     *)
(* health agree or it fails.  Every database call and every exchange with  *)
(* Forge is a step; an update and the readback that only returns the row   *)
(* are one.  Agents and payload checks are left out: every request that    *)
(* reaches the table is valid.                                             *)
(***************************************************************************)
EXTENDS Integers

CONSTANTS
    Requests,       \* requests to create a job; the job a request inserts has its name
    Product,        \* those of the product kinds
    KeyOf,          \* [Product -> idempotency keys]
    PayloadOf,      \* [Product -> payloads]
    NULL,
    Workloads,      \* bound: the sets of requests that come together
    MaxFaults       \* bound: crashes of Fleet, failing database calls, hidden jobs

VARIABLES
    state,          \* deployment_jobs.state; "absent" without a row
    linked,         \* has detail the Forge ids of the release?
    overdue,        \* is the job older than 30 minutes?
    asking,         \* create_deployment_job: where each request is
    told,           \* the job a request was answered with, "conflict" or NULL
    pc,             \* the step of the worker
    todo,           \* the rest of the worker's listing
    job,            \* the job the worker is at
    verdict,        \* the state it is about to record
    canceller,      \* cancel_deployment_job: where the handler of each job is
    release,        \* Forge: the release of each key
    releases,       \* Forge: how many it made for a key
    pipelines,      \* Forge: how many it started for an agent job
    healthy,        \* history: jobs whose API and UI answered with success
    forge,          \* does the configuration of this process name Forge?
    buried,         \* product jobs that are not among the newest 500
    faults          \* faults so far

tableVars == <<state, linked, overdue>>
apiVars == <<asking, told, canceller>>
workerVars == <<pc, todo, job, verdict>>
forgeVars == <<release, releases, pipelines, healthy>>
outside == <<forge, buried, faults>>
vars == <<tableVars, apiVars, workerVars, forgeVars, outside>>

Keys == {KeyOf[r] : r \in Product}
JobStates == {"queued", "running", "completed", "failed", "cancelled"}
Terminal == {"completed", "failed", "cancelled"}
ReleaseStates == {"none", "pending", "building", "success", "failed", "cancelled"}
WorkerSteps == {"rest", "agents", "trigger", "record", "products", "claim",
                "start", "confirm", "withdraw", "link", "poll", "probe",
                "complete", "error", "abort", "fail"}

\* What the theorems assume of the constants.
JobsAssumption ==
    /\ Product \subseteq Requests /\ MaxFaults \in Nat
    /\ NULL \notin Requests /\ "conflict" \notin Requests

TypeOK ==
    /\ state \in [Requests -> JobStates \cup {"absent"}]
    /\ linked \in [Requests -> BOOLEAN]
    /\ overdue \in [Requests -> BOOLEAN]
    /\ asking \in [Requests -> {"find", "insert", "again", "done"}]
    /\ told \in [Requests -> Requests \cup {"conflict", NULL}]
    /\ pc \in WorkerSteps
    /\ todo \subseteq Requests
    /\ job \in Requests \cup {NULL}
    /\ verdict \in Terminal \cup {NULL}
    /\ canceller \in [Requests -> {"idle", "post", "read", "write"}]
    /\ release \in [Keys -> ReleaseStates]
    /\ releases \in [Keys -> Nat]
    /\ pipelines \in [Requests -> Nat]
    /\ healthy \subseteq Product
    /\ forge \in BOOLEAN
    /\ buried \subseteq Product
    /\ faults \in 0 .. MaxFaults
    \* the worker is at a job in the steps of one job, and at none otherwise
    /\ (job = NULL) <=> (pc \in {"rest", "agents", "products"})
    /\ job \in Product => pc \notin {"trigger", "record"}
    /\ job \in Requests \ Product => pc \in {"trigger", "record"}

\* Requests W come together, of several users or in one bulk request, which
\* inserts its agent jobs one by one.  A request without a key is inserted at
\* once, one with a key is looked for.
Arriving(W) ==
    [r \in Requests |-> CASE r \notin W -> "done"
                          [] r \in W \cap Product -> "find"
                          [] OTHER -> "insert"]

Init ==
    /\ state = [r \in Requests |-> "absent"]
    /\ linked = [r \in Requests |-> FALSE]
    /\ overdue = [r \in Requests |-> FALSE]
    /\ \E W \in Workloads : asking = Arriving(W)
    /\ told = [r \in Requests |-> NULL]
    /\ pc = "rest" /\ todo = {} /\ job = NULL /\ verdict = NULL
    /\ canceller = [r \in Requests |-> "idle"]
    /\ release = [k \in Keys |-> "none"]
    /\ releases = [k \in Keys |-> 0]
    /\ pipelines = [r \in Requests |-> 0]
    /\ healthy = {}
    /\ forge \in BOOLEAN
    /\ buried = {}
    /\ faults = 0

-----------------------------------------------------------------------------
(* Creating a job.                                                         *)

\* The rows with the idempotency key of r: the unique index admits one.
SameKey(r) ==
    {s \in Product : r \in Product /\ KeyOf[s] = KeyOf[r] /\ state[s] # "absent"}

\* What a request is answered when s has its key: the stored detail is compared
\* with the one the request would store, and the worker adds Forge's ids to it.
Reply(r, s) == IF PayloadOf[s] = PayloadOf[r] /\ ~ linked[s] THEN s ELSE "conflict"

\* The request looks for its key and, if that is new, goes on to insert.
FindKey(r) ==
    /\ asking[r] \in {"find", "again"}
    /\ IF SameKey(r) = {}
       THEN /\ asking[r] = "find"
            /\ asking' = [asking EXCEPT ![r] = "insert"]
            /\ UNCHANGED told
       ELSE /\ asking' = [asking EXCEPT ![r] = "done"]
            /\ \E s \in SameKey(r) : told' = [told EXCEPT ![r] = Reply(r, s)]
    /\ UNCHANGED <<tableVars, workerVars, forgeVars, canceller, outside>>

\* Mutant: the table has no unique index on the key.
InsertAlways(r) ==
    /\ asking[r] = "insert"
    /\ state' = [state EXCEPT ![r] = "queued"]
    /\ asking' = [asking EXCEPT ![r] = "done"]
    /\ told' = [told EXCEPT ![r] = r]
    /\ UNCHANGED <<linked, overdue, workerVars, forgeVars, canceller, outside>>

\* The insert, which the unique index on the key refuses when another request
\* with that key was faster; then the row is looked up again.
Insert(r) ==
    /\ asking[r] = "insert"
    /\ IF SameKey(r) = {}
       THEN /\ state' = [state EXCEPT ![r] = "queued"]
            /\ asking' = [asking EXCEPT ![r] = "done"]
            /\ told' = [told EXCEPT ![r] = r]
       ELSE /\ asking' = [asking EXCEPT ![r] = "again"]
            /\ UNCHANGED <<state, told>>
    /\ UNCHANGED <<linked, overdue, workerVars, forgeVars, canceller, outside>>

-----------------------------------------------------------------------------
(* Cancelling a job.                                                       *)

\* The handler reads the job; when it knows a release it cancels that first.
CancelBegins(r) ==
    /\ canceller[r] = "idle" /\ state[r] # "absent"
    /\ canceller' = [canceller EXCEPT ![r] =
                        IF r \in Product /\ linked[r] THEN "post" ELSE "read"]
    /\ UNCHANGED <<tableVars, workerVars, forgeVars, asking, told, outside>>

\* Forge cancels what has not ended.
CancelAtForge(k) ==
    release' = [release EXCEPT ![k] =
                   IF @ \in {"pending", "building"} THEN "cancelled" ELSE @]

\* POST .../cancel arrives or not, and the answer is an error or not: the
\* handler goes on only after success.  (It needs only the address of Forge.)
CancelPosts(r) ==
    /\ canceller[r] = "post"
    /\ \/ CancelAtForge(KeyOf[r])
       \/ UNCHANGED release
    /\ \/ canceller' = [canceller EXCEPT ![r] = "idle"]
       \/ /\ release'[KeyOf[r]] \notin {"pending", "building"}
          /\ canceller' = [canceller EXCEPT ![r] = "read"]
    /\ UNCHANGED <<tableVars, workerVars, releases, pipelines, healthy, asking,
                   told, outside>>

\* repo.cancel_deployment_job reads the row again and refuses a terminal one ...
CancelReads(r) ==
    /\ canceller[r] = "read"
    /\ canceller' = [canceller EXCEPT ![r] =
                        IF state[r] \in Terminal THEN "idle" ELSE "write"]
    /\ UNCHANGED <<tableVars, workerVars, forgeVars, asking, told, outside>>

\* ... and updates it by id, whatever it is by then.
CancelWrites(r) ==
    /\ canceller[r] = "write"
    /\ state' = [state EXCEPT ![r] = IF r \in Product THEN "failed" ELSE "cancelled"]
    /\ canceller' = [canceller EXCEPT ![r] = "idle"]
    /\ UNCHANGED <<linked, overdue, workerVars, forgeVars, asking, told, outside>>

-----------------------------------------------------------------------------
(* The worker: agent jobs.                                                 *)

\* The worker goes to step s of job j.
At(s, j) == pc' = s /\ job' = j

\* A pass lists the queued agent jobs.  (Among the newest 20 jobs: a job that
\* newer ones hide is left where it is, and nothing here says that agent jobs
\* end.)  Without the settings of Forge the pass ends there, before the product
\* jobs.
ListAgentJobs ==
    /\ pc = "rest"
    /\ forge
    /\ At("agents", NULL)
    /\ todo' = {r \in Requests \ Product : state[r] = "queued"}
    /\ UNCHANGED <<tableVars, apiVars, forgeVars, verdict, outside>>

\* The next listed job is marked running, whatever became of it meanwhile.
RunAgentJob ==
    /\ pc = "agents"
    /\ \E r \in todo :
          /\ At("trigger", r)
          /\ todo' = todo \ {r}
          /\ state' = [state EXCEPT ![r] = "running"]
    /\ UNCHANGED <<linked, overdue, apiVars, forgeVars, verdict, outside>>

\* POST .../pipelines: refused, accepted, or accepted with the answer lost.
TriggerPipeline ==
    /\ pc = "trigger"
    /\ At("record", job)
    /\ \/ verdict' = "failed" /\ UNCHANGED pipelines
       \/ /\ verdict' \in {"completed", "failed"}
          /\ pipelines' = [pipelines EXCEPT ![job] = @ + 1]
    /\ UNCHANGED <<tableVars, apiVars, todo, release, releases, healthy, outside>>

\* The outcome is written, again whatever the row is.
RecordOutcome ==
    /\ pc = "record"
    /\ state' = [state EXCEPT ![job] = verdict]
    /\ At("agents", NULL) /\ verdict' = NULL
    /\ UNCHANGED <<linked, overdue, apiVars, todo, forgeVars, outside>>

-----------------------------------------------------------------------------
(* The worker: product jobs.                                               *)

\* Mutant: update_deployment_job_state without its WHERE.
UpdateAnyway(r, new) == state' = [state EXCEPT ![r] = new]

\* update_deployment_job_state of a product job: the WHERE of the UPDATE.
Update(r, new) ==
    state' = [state EXCEPT ![r] =
                 IF @ = "running" \/ (@ = "queued" /\ new \in {"running", "failed"})
                 THEN new ELSE @]

\* Mutant: only what is queued is listed.
ListQueuedJobs ==
    /\ pc = "agents" /\ todo = {}
    /\ At("products", NULL)
    /\ todo' = {r \in Product \ buried : state[r] = "queued"}
    /\ UNCHANGED <<tableVars, apiVars, forgeVars, verdict, outside>>

\* After the agent jobs the pass lists the product jobs that are not terminal,
\* among the newest 500 jobs.
ListProductJobs ==
    /\ pc = "agents" /\ todo = {}
    /\ At("products", NULL)
    /\ todo' = {r \in Product \ buried : state[r] \in {"queued", "running"}}
    /\ UNCHANGED <<tableVars, apiVars, forgeVars, verdict, outside>>

EndPass ==
    /\ pc = "products" /\ todo = {}
    /\ At("rest", NULL)
    /\ UNCHANGED <<tableVars, apiVars, forgeVars, todo, verdict, outside>>

\* The next listed job is read again; one that has ended is skipped, a running
\* one is not claimed again.
TakeProductJob ==
    /\ pc = "products"
    /\ \E r \in todo :
          /\ todo' = todo \ {r}
          /\ CASE state[r] = "queued" -> At("claim", r)
               [] state[r] = "running" /\ ~ linked[r] -> At("start", r)
               [] state[r] = "running" /\ linked[r] -> At("poll", r)
               [] OTHER -> At("products", NULL)
    /\ UNCHANGED <<tableVars, apiVars, forgeVars, verdict, outside>>

ClaimProductJob ==
    /\ pc = "claim"
    /\ Update(job, "running")
    /\ IF state'[job] = "running" THEN At("start", job) ELSE At("products", NULL)
    /\ UNCHANGED <<linked, overdue, apiVars, forgeVars, todo, verdict, outside>>

\* Forge makes one release for a request key and answers a repeat with it.
ForgeMakes(k) ==
    IF release[k] = "none"
    THEN /\ releases' = [releases EXCEPT ![k] = @ + 1]
         /\ release' = [release EXCEPT ![k] = "pending"]
    ELSE UNCHANGED <<release, releases>>

\* The release is requested: refused, made, or made with the answer lost.
StartRelease ==
    /\ pc = "start"
    /\ \/ At("error", job) /\ UNCHANGED <<release, releases>>
       \/ /\ ForgeMakes(KeyOf[job])
          /\ At("confirm", job) \/ At("error", job)
    /\ UNCHANGED <<tableVars, apiVars, todo, verdict, pipelines, healthy, outside>>

\* Was the job cancelled while the release was made?
Confirm ==
    /\ pc = "confirm"
    /\ At(IF state[job] = "running" THEN "link" ELSE "withdraw", job)
    /\ UNCHANGED <<tableVars, apiVars, todo, verdict, forgeVars, outside>>

\* Then Forge is asked to cancel it, whatever comes of that.
Withdraw ==
    /\ pc = "withdraw"
    /\ At("products", NULL)
    /\ CancelAtForge(KeyOf[job]) \/ UNCHANGED release
    /\ UNCHANGED <<tableVars, apiVars, todo, verdict, releases, pipelines,
                   healthy, outside>>

\* The ids of the release are recorded, by the same guarded update.
Link ==
    /\ pc = "link"
    /\ linked' = [linked EXCEPT ![job] = @ \/ state[job] = "running"]
    /\ At("poll", job)
    /\ UNCHANGED <<state, overdue, apiVars, todo, verdict, forgeVars, outside>>

\* Mutant: the status of the release is taken for that of its pipeline.
PollRelease ==
    /\ pc = "poll"
    /\ \/ At("error", job)
       \/ /\ ~ overdue[job]
          /\ IF release[KeyOf[job]] # "failed" THEN At("probe", job) ELSE At("error", job)
    /\ UNCHANGED <<tableVars, apiVars, todo, verdict, forgeVars, outside>>

\* The release and its pipeline are read.  A request may fail and a release
\* may be missing: that is an error, as is the timeout.  Statuses only move
\* forward, so the two reads are one.
Poll ==
    /\ pc = "poll"
    /\ LET is == release[KeyOf[job]] IN
       \/ At("error", job)
       \/ /\ ~ overdue[job]
          /\ \/ is = "success" /\ At("probe", job)
             \* not ended, or cancelled before it had a pipeline
             \/ is \in {"pending", "building", "cancelled"} /\ At("products", NULL)
    /\ UNCHANGED <<tableVars, apiVars, todo, verdict, forgeVars, outside>>

\* Both health addresses must answer with success.
Probe ==
    /\ pc = "probe"
    /\ \/ At("error", job) /\ UNCHANGED healthy
       \/ At("complete", job) /\ healthy' = healthy \cup {job}
    /\ UNCHANGED <<tableVars, apiVars, todo, verdict, release, releases,
                   pipelines, outside>>

Complete ==
    /\ pc = "complete"
    /\ Update(job, "completed")
    /\ At("products", NULL)
    /\ UNCHANGED <<linked, overdue, apiVars, forgeVars, todo, verdict, outside>>

\* Any error: the job is read again, its release is cancelled if it is known ...
HandleError ==
    /\ pc = "error"
    /\ At(IF linked[job] THEN "abort" ELSE "fail", job)
    /\ UNCHANGED <<tableVars, apiVars, todo, verdict, forgeVars, outside>>

\* ... which need not succeed ...
Abort ==
    /\ pc = "abort"
    /\ At("fail", job)
    /\ CancelAtForge(KeyOf[job]) \/ UNCHANGED release
    /\ UNCHANGED <<tableVars, apiVars, todo, verdict, releases, pipelines,
                   healthy, outside>>

\* ... and the job fails.
Fail ==
    /\ pc = "fail"
    /\ Update(job, "failed")
    /\ At("products", NULL)
    /\ UNCHANGED <<linked, overdue, apiVars, forgeVars, todo, verdict, outside>>

-----------------------------------------------------------------------------
(* Faults, Forge and time.                                                 *)

\* A database call of the worker fails.  Inside process_product_job that is an
\* error of the job, elsewhere it ends the pass.
CallFails ==
    /\ faults < MaxFaults /\ faults' = faults + 1
    /\ pc \notin {"rest", "trigger", "start", "withdraw", "poll", "probe", "abort"}
    /\ IF pc \in {"claim", "confirm", "link", "complete"}
       THEN At("error", job) /\ UNCHANGED todo
       ELSE At("rest", NULL) /\ todo' = {}
    /\ verdict' = NULL
    /\ UNCHANGED <<tableVars, apiVars, forgeVars, forge, buried>>

\* Fleet dies and starts again, with the configuration it finds: what was under
\* way is forgotten.  (A request without an answer is a new request when it is
\* repeated.)
Crash ==
    /\ faults < MaxFaults /\ faults' = faults + 1
    /\ At("rest", NULL) /\ todo' = {} /\ verdict' = NULL
    /\ canceller' = [r \in Requests |-> "idle"]
    /\ asking' = [r \in Requests |->
                     IF r \in Product /\ asking[r] # "find" THEN "done" ELSE asking[r]]
    /\ forge' \in BOOLEAN
    /\ UNCHANGED <<tableVars, told, forgeVars, buried>>

\* Forge works on a release and ends it.
ForgeProceeds(k) ==
    /\ \/ /\ release[k] = "pending"
          /\ release' = [release EXCEPT ![k] = "building"]
       \/ /\ release[k] = "building"
          /\ \E s \in {"success", "failed"} : release' = [release EXCEPT ![k] = s]
    /\ UNCHANGED <<tableVars, apiVars, workerVars, releases, pipelines, healthy, outside>>

\* Thirty minutes after the job was created, if it has not ended by then.
TimeIsUp(r) ==
    /\ r \in Product /\ state[r] \in {"queued", "running"} /\ ~ overdue[r]
    /\ overdue' = [overdue EXCEPT ![r] = TRUE]
    /\ UNCHANGED <<state, linked, apiVars, workerVars, forgeVars, outside>>

\* A product job that 500 newer jobs follow is not seen by the worker any more.
Bury(r) ==
    /\ r \in Product /\ state[r] \in {"queued", "running"}
    /\ r \notin buried /\ faults < MaxFaults /\ faults' = faults + 1
    /\ buried' = buried \cup {r}
    /\ UNCHANGED <<tableVars, apiVars, workerVars, forgeVars, forge>>

Worker ==
    \/ ListAgentJobs \/ RunAgentJob \/ TriggerPipeline \/ RecordOutcome
    \/ ListProductJobs \/ EndPass \/ TakeProductJob \/ ClaimProductJob
    \/ StartRelease \/ Confirm \/ Withdraw \/ Link
    \/ Poll \/ Probe \/ Complete \/ HandleError \/ Abort \/ Fail

Api(r) ==
    \/ FindKey(r) \/ Insert(r)
    \/ CancelBegins(r) \/ CancelPosts(r) \/ CancelReads(r) \/ CancelWrites(r)

Next ==
    \/ Worker \/ CallFails \/ Crash
    \/ \E r \in Requests : Api(r) \/ TimeIsUp(r) \/ Bury(r)
    \/ \E k \in Keys : ForgeProceeds(k)

Spec == Init /\ [][Next]_vars

\* The reconciler loop never stops while Fleet is up, and time passes.  Users,
\* operators and Forge may do nothing.
FairSpec ==
    /\ Spec
    /\ WF_vars(Worker)
    /\ WF_vars(\E r \in Requests : TimeIsUp(r))

-----------------------------------------------------------------------------
\* A job is completed only if its release succeeded and both health addresses
\* answered, whatever was retried, cancelled or lost on the way
\* (docs/API.md:221).
CompletedVerified ==
    \A r \in Product :
       state[r] = "completed" => release[KeyOf[r]] = "success" /\ r \in healthy

\* Requests with one key are about one job, who asked for something else under
\* that key is told so, Forge makes at most one release for the key and starts
\* at most one pipeline for an agent job: no retry, crash or lost answer
\* repeats any of it.
OncePerKey ==
    /\ \A r, s \in Product :
          KeyOf[r] = KeyOf[s] /\ state[r] # "absent" /\ state[s] # "absent" => r = s
    /\ \A r, s \in Product :
          KeyOf[r] = KeyOf[s] /\ told[r] \in Requests /\ told[s] \in Requests =>
             told[r] = told[s] /\ PayloadOf[r] = PayloadOf[s]
    /\ \A k \in Keys : releases[k] <= 1
    /\ \A r \in Requests \ Product : pipelines[r] <= 1

\* A request is refused for its key only if another request holds the key
\* (docs/API.md:221).  The repeat of a request after the worker added the ids of
\* the release to the job breaks this.
RepeatIsAnswered ==
    \A r \in Product :
        told[r] = "conflict" =>
            \E s \in SameKey(r) : PayloadOf[s] # PayloadOf[r]

\* The keys of the product jobs in one of some states.
KeysIn(states) == {KeyOf[r] : r \in {s \in Product : state[s] \in states}}

\* Seen from outside, a key opens one job and one release, a job is completed
\* only with its release, and one that failed or was cancelled is never taken up
\* again by the worker, which may be in the middle of it.
Ledger == INSTANCE JobLedger WITH
    opened <- KeysIn(JobStates),
    made <- {k \in Keys : releases[k] = 1},
    completed <- KeysIn({"completed"}),
    failed <- KeysIn({"failed"})
ImplementsLedger == Ledger!Spec

\* While Forge is configured, every product job ends unless 500 newer jobs hide
\* it from the worker: crashes of Fleet, failing calls and a Forge that never
\* ends a release only delay it.
ProductJobsEnd ==
    (forge /\ \E r \in Product \ buried : state[r] \in {"queued", "running"}) ~>
        (\/ ~ forge
         \/ \A r \in Product :
                state[r] \in {"absent", "completed", "failed"} \/ r \in buried)
=============================================================================
