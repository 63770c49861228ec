----------------------------- MODULE JobsProofs -----------------------------
(* Machine-checked safety of DeploymentJobs, for any requests, keys and    *)
(* faults.                                                                 *)
EXTENDS DeploymentJobs, TLAPS

Agents == Requests \ Product
AgentSteps == {"agents", "trigger", "record"}

\* The worker lists agent jobs in the first half of a pass and product jobs in
\* the second.
Listed ==
    /\ pc \in AgentSteps => todo \subseteq Agents
    /\ pc \notin AgentSteps => todo \subseteq Product
    /\ pc = "record" => verdict \in Terminal
    /\ job \notin todo

\* A request has no row before it inserts one; what is listed, processed or
\* cancelled has one.
Present ==
    \A r \in Requests :
        /\ asking[r] \in {"find", "insert"} => state[r] = "absent"
        /\ canceller[r] # "idle" \/ r \in todo \/ r = job => state[r] # "absent"

\* A key has one row, and who asks with it is told of that row.
Owned ==
    /\ \A r, s \in Product :
          KeyOf[r] = KeyOf[s] /\ state[r] # "absent" /\ state[s] # "absent" => r = s
    /\ \A r \in Product : told[r] \in Requests =>
          /\ told[r] \in Product /\ state[told[r]] # "absent"
          /\ KeyOf[told[r]] = KeyOf[r] /\ PayloadOf[told[r]] = PayloadOf[r]

\* Forge made at most one release for a key, and then knows it.
Made ==
    \A k \in Keys : releases[k] <= 1 /\ (release[k] = "none" <=> releases[k] = 0)

\* A pipeline was started only for a job that is past its trigger.
Triggered ==
    \A r \in Agents :
        /\ pipelines[r] <= 1
        /\ state[r] \in {"absent", "queued"} \/ r \in todo \/ (pc = "trigger" /\ r = job)
              => pipelines[r] = 0
        /\ pc = "trigger" /\ r = job => state[r] # "queued"

\* Beyond its poll a job has a successful release, beyond its probe it is
\* healthy too.
Verified ==
    /\ CompletedVerified
    /\ pc = "probe" => release[KeyOf[job]] = "success"
    /\ pc = "complete" => release[KeyOf[job]] = "success" /\ job \in healthy

IInv == TypeOK /\ Listed /\ Present /\ Owned /\ Made /\ Triggered /\ Verified

USE DEF JobsAssumption, tableVars, apiVars, workerVars, forgeVars, outside

-----------------------------------------------------------------------------
(* Types.                                                                  *)

\* The worker stays with jobs of the kind its list was read for.
LEMMA WorkerTyped ==
    ASSUME JobsAssumption, TypeOK, Listed, Worker
    PROVE  TypeOK'
<1> USE DEF TypeOK, Listed, At, WorkerSteps, JobStates, Terminal, ReleaseStates,
            AgentSteps, Agents, Keys
<1>1. CASE ListAgentJobs
  BY <1>1 DEF ListAgentJobs
<1>2. CASE RunAgentJob
  BY <1>2 DEF RunAgentJob
<1>3. CASE TriggerPipeline
  BY <1>3 DEF TriggerPipeline
<1>4. CASE RecordOutcome
  BY <1>4 DEF RecordOutcome
<1>5. CASE ListProductJobs
  BY <1>5 DEF ListProductJobs
<1>6. CASE EndPass
  BY <1>6 DEF EndPass
<1>7. CASE TakeProductJob
  BY <1>7 DEF TakeProductJob
<1>8. CASE ClaimProductJob
  BY <1>8 DEF ClaimProductJob, Update
<1>9. CASE StartRelease
  BY <1>9 DEF StartRelease, ForgeMakes
<1>10. CASE Confirm
  BY <1>10 DEF Confirm
<1>11. CASE Withdraw
  BY <1>11 DEF Withdraw, CancelAtForge
<1>12. CASE Link
  BY <1>12 DEF Link
<1>13. CASE Poll
  BY <1>13 DEF Poll
<1>14. CASE Probe
  BY <1>14 DEF Probe
<1>15. CASE Complete
  BY <1>15 DEF Complete, Update
<1>16. CASE HandleError
  BY <1>16 DEF HandleError
<1>17. CASE Abort
  BY <1>17 DEF Abort, CancelAtForge
<1>18. CASE Fail
  BY <1>18 DEF Fail, Update
<1> QED
  BY <1>1, <1>2, <1>3, <1>4, <1>5, <1>6, <1>7, <1>8, <1>9, <1>10, <1>11,
     <1>12, <1>13, <1>14, <1>15, <1>16, <1>17, <1>18 DEF Worker

\* Creating and cancelling a job writes the states of a job.
LEMMA ApiTyped ==
    ASSUME JobsAssumption, TypeOK, NEW r \in Requests, Api(r)
    PROVE  TypeOK'
<1> USE DEF TypeOK, JobStates, ReleaseStates, Keys
<1>1. CASE FindKey(r)
  BY <1>1 DEF FindKey, SameKey, Reply
<1>2. CASE Insert(r)
  BY <1>2 DEF Insert, SameKey
<1>3. CASE CancelBegins(r)
  BY <1>3 DEF CancelBegins
<1>4. CASE CancelPosts(r)
  BY <1>4 DEF CancelPosts, CancelAtForge
<1>5. CASE CancelReads(r)
  BY <1>5 DEF CancelReads
<1>6. CASE CancelWrites(r)
  BY <1>6 DEF CancelWrites
<1> QED
  BY <1>1, <1>2, <1>3, <1>4, <1>5, <1>6 DEF Api

\* So do failures, crashes, time and Forge.
LEMMA OtherTyped ==
    ASSUME JobsAssumption, TypeOK,
           \/ CallFails \/ Crash
           \/ \E r \in Requests : TimeIsUp(r) \/ Bury(r)
           \/ \E k \in Keys : ForgeProceeds(k)
    PROVE  TypeOK'
<1>1. CASE CallFails
  BY <1>1 DEF CallFails, TypeOK, At, WorkerSteps
<1>2. CASE Crash
  <2>1. asking' \in [Requests -> {"find", "insert", "again", "done"}]
    BY <1>2 DEF Crash, TypeOK
  <2> QED
    BY <1>2, <2>1 DEF Crash, TypeOK, At, WorkerSteps
<1>3. CASE \E r \in Requests : TimeIsUp(r)
  BY <1>3 DEF TimeIsUp, TypeOK
<1>5. CASE \E r \in Requests : Bury(r)
  <2>1. /\ buried' \subseteq Product /\ faults' \in 0 .. MaxFaults
        /\ UNCHANGED <<tableVars, apiVars, workerVars, forgeVars, forge>>
    BY <1>5 DEF Bury, TypeOK
  <2> QED
    BY <2>1 DEF TypeOK
<1>4. CASE \E k \in Keys : ForgeProceeds(k)
  BY <1>4 DEF ForgeProceeds, TypeOK, ReleaseStates
<1> QED
  BY <1>1, <1>2, <1>3, <1>4, <1>5

-----------------------------------------------------------------------------
(* The worker.                                                             *)

\* What is left of a list is a part of it.
LEMMA WorkerListed ==
    ASSUME JobsAssumption, TypeOK, Listed, Worker
    PROVE  Listed'
<1> USE DEF TypeOK, Listed, At, Terminal, AgentSteps, Agents
<1>1. CASE ListAgentJobs
  BY <1>1 DEF ListAgentJobs
<1>2. CASE RunAgentJob
  BY <1>2 DEF RunAgentJob
<1>3. CASE TriggerPipeline
  BY <1>3 DEF TriggerPipeline
<1>4. CASE RecordOutcome
  BY <1>4 DEF RecordOutcome
<1>5. CASE ListProductJobs
  BY <1>5 DEF ListProductJobs
<1>6. CASE EndPass
  BY <1>6 DEF EndPass
<1>7. CASE TakeProductJob
  BY <1>7 DEF TakeProductJob
<1>8. CASE ClaimProductJob
  BY <1>8 DEF ClaimProductJob, Update
<1>9. CASE StartRelease
  BY <1>9 DEF StartRelease, ForgeMakes
<1>10. CASE Confirm
  BY <1>10 DEF Confirm
<1>11. CASE Withdraw
  BY <1>11 DEF Withdraw, CancelAtForge
<1>12. CASE Link
  BY <1>12 DEF Link
<1>13. CASE Poll
  BY <1>13 DEF Poll
<1>14. CASE Probe
  BY <1>14 DEF Probe
<1>15. CASE Complete
  BY <1>15 DEF Complete, Update
<1>16. CASE HandleError
  BY <1>16 DEF HandleError
<1>17. CASE Abort
  BY <1>17 DEF Abort, CancelAtForge
<1>18. CASE Fail
  BY <1>18 DEF Fail, Update
<1> QED
  BY <1>1, <1>2, <1>3, <1>4, <1>5, <1>6, <1>7, <1>8, <1>9, <1>10, <1>11,
     <1>12, <1>13, <1>14, <1>15, <1>16, <1>17, <1>18 DEF Worker

\* Nobody else changes the lists, and no job changes its kind.
LEMMA OtherListed ==
    ASSUME JobsAssumption, TypeOK, Listed, [Next]_vars, ~ Worker
    PROVE  Listed'
<1>1. CASE CallFails
  BY <1>1 DEF CallFails, TypeOK, Listed, At, AgentSteps
<1>2. CASE Crash
  BY <1>2 DEF Crash, Listed, At, AgentSteps
<1>3. CASE UNCHANGED workerVars
  BY <1>3 DEF Listed
<1> QED
  BY <1>1, <1>2, <1>3
     DEF Next, vars, Api, FindKey, Insert, CancelBegins, CancelPosts,
         CancelReads,
         CancelWrites, TimeIsUp, Bury, ForgeProceeds

-----------------------------------------------------------------------------
(* The rows.                                                               *)

\* How one row may change: it is inserted, if its key is new, or it moves on,
\* and then a failed product job stays failed, and one is completed only after
\* its probe.
Change(x, new) ==
    \/ /\ state[x] = "absent" /\ new = "queued"
       /\ asking[x] = "insert" /\ asking'[x] = "done" /\ SameKey(x) = {}
    \/ /\ state[x] # "absent" /\ new \in {"running"} \cup Terminal
       /\ x \in Product /\ state[x] = "failed" => new = "failed"
       /\ x \in Product /\ state[x] = "completed" => new \in {"completed", "failed"}
       /\ x \in Product /\ new = "completed" => pc = "complete" /\ x = job

\* One step changes the state of at most one job, in one of the ways of Change.
LEMMA StateSteps ==
    ASSUME JobsAssumption, TypeOK, Listed, Present, [Next]_vars
    PROVE  \/ UNCHANGED state
           \/ \E x \in Requests, new \in JobStates :
                 state' = [state EXCEPT ![x] = new] /\ Change(x, new)
<1> USE DEF TypeOK, Listed, Present, JobStates, Terminal, Agents, AgentSteps, Change, At
<1>1. ASSUME NEW r \in Requests, Insert(r)
      PROVE  \/ UNCHANGED state
             \/ state' = [state EXCEPT ![r] = "queued"] /\ Change(r, "queued")
  BY <1>1 DEF Insert
<1>2. ASSUME NEW r \in Requests, CancelWrites(r)
      PROVE  \E new \in JobStates : state' = [state EXCEPT ![r] = new] /\ Change(r, new)
  BY <1>2 DEF CancelWrites
<1>3. CASE RunAgentJob
  BY <1>3 DEF RunAgentJob
<1>4. CASE RecordOutcome
  BY <1>4 DEF RecordOutcome
<1>5. ASSUME NEW new \in {"running", "failed", "completed"}, Update(job, new), job \in Product,
             new = "completed" => pc = "complete"
      PROVE  \/ UNCHANGED state
             \/ state' = [state EXCEPT ![job] = new] /\ Change(job, new)
  BY <1>5 DEF Update
<1>6. CASE ClaimProductJob \/ Complete \/ Fail
  BY <1>5, <1>6 DEF ClaimProductJob, Complete, Fail
<1> QED
  BY <1>1, <1>2, <1>3, <1>4, <1>6
     DEF Next, vars, Worker, Api, FindKey, CancelBegins, CancelPosts,
         CancelReads,
         TimeIsUp, Bury, ForgeProceeds, CallFails, Crash, ListAgentJobs, TriggerPipeline,
         ListProductJobs, EndPass, TakeProductJob, StartRelease, Confirm, Withdraw,
         Link, Poll, Probe, HandleError, Abort

\* A row never disappears, and a new one is queued.
LEMMA RowsStay ==
    ASSUME JobsAssumption, TypeOK, Listed, Present, [Next]_vars, NEW r \in Requests,
           state[r] # "absent"
    PROVE  state'[r] # "absent" /\ (state'[r] = "queued" => state[r] = "queued")
  BY StateSteps DEF Change, TypeOK, Terminal

\* A request has no row before it inserts, and its row never goes.
LEMMA PresentKeeps ==
    ASSUME JobsAssumption, TypeOK, Listed, Present, [Next]_vars
    PROVE  Present'
<1> USE DEF TypeOK
<1>1. ASSUME NEW r \in Requests, asking'[r] \in {"find", "insert"}
      PROVE  state'[r] = "absent"
  <2>1. asking[r] \in {"find", "insert"}
    <3>1. CASE Worker
      BY <3>1, <1>1
         DEF Worker, At, ListAgentJobs, RunAgentJob, TriggerPipeline,
             RecordOutcome, ListProductJobs, EndPass, TakeProductJob,
             ClaimProductJob, StartRelease, Confirm, Withdraw, Link, Poll,
             Probe, Complete, HandleError, Abort, Fail
    <3>2. ASSUME NEW q \in Requests, Api(q)
          PROVE  asking[r] \in {"find", "insert"}
      BY <3>2, <1>1
         DEF Api, FindKey, Insert, CancelBegins, CancelPosts, CancelReads,
             CancelWrites, SameKey
    <3>3. CASE CallFails \/ Crash
      BY <3>3, <1>1 DEF CallFails, Crash, At
    <3>4. CASE \/ \E q \in Requests : TimeIsUp(q) \/ Bury(q)
               \/ \E k \in Keys : ForgeProceeds(k)
               \/ UNCHANGED vars
      BY <3>4, <1>1 DEF TimeIsUp, Bury, ForgeProceeds, vars
    <3> QED
      BY <3>1, <3>2, <3>3, <3>4 DEF Next
  <2>2. state[r] = "absent"
    BY <2>1 DEF Present
  <2> QED
    BY <1>1, <2>2, StateSteps DEF Change
<1>2. ASSUME NEW r \in Requests, canceller'[r] # "idle" \/ r \in todo' \/ r = job'
      PROVE  state'[r] # "absent"
  <2>1. state[r] # "absent" \/ state'[r] # "absent"
    <3> USE DEF Present
    <3>1. CASE Worker
      BY <3>1, <1>2
         DEF Worker, At, ListAgentJobs, RunAgentJob, TriggerPipeline,
             RecordOutcome, ListProductJobs, EndPass, TakeProductJob,
             ClaimProductJob, StartRelease, Confirm, Withdraw, Link, Poll,
             Probe, Complete, HandleError, Abort, Fail
    <3>2. ASSUME NEW q \in Requests, Api(q)
          PROVE  state[r] # "absent" \/ state'[r] # "absent"
      BY <3>2, <1>2
         DEF Api, FindKey, Insert, CancelBegins, CancelPosts, CancelReads,
             CancelWrites, SameKey
    <3>3. CASE CallFails \/ Crash
      BY <3>3, <1>2 DEF CallFails, Crash, At
    <3>4. CASE \/ \E q \in Requests : TimeIsUp(q) \/ Bury(q)
               \/ \E k \in Keys : ForgeProceeds(k)
               \/ UNCHANGED vars
      BY <3>4, <1>2 DEF TimeIsUp, Bury, ForgeProceeds, vars
    <3> QED
      BY <3>1, <3>2, <3>3, <3>4 DEF Next
  <2> QED
    BY <2>1, RowsStay
<1> QED
  BY <1>1, <1>2 DEF Present

-----------------------------------------------------------------------------
(* Keys.                                                                   *)

\* What a request is told changes only to its own row, inserted with it, or to
\* that of its key.
LEMMA ToldSteps ==
    ASSUME JobsAssumption, TypeOK, [Next]_vars, NEW r \in Product
    PROVE  \/ told'[r] = told[r] \/ told'[r] = "conflict"
           \/ told'[r] = r /\ state'[r] = "queued"
           \/ \E s \in SameKey(r) : told'[r] = s /\ PayloadOf[s] = PayloadOf[r]
<1>1. ASSUME NEW q \in Requests, FindKey(q)
      PROVE  \/ told'[r] = told[r] \/ told'[r] = "conflict"
             \/ \E s \in SameKey(r) : told'[r] = s /\ PayloadOf[s] = PayloadOf[r]
  BY <1>1 DEF FindKey, Reply, TypeOK
<1>2. ASSUME NEW q \in Requests, Insert(q)
      PROVE  told'[r] = told[r] \/ (told'[r] = r /\ state'[r] = "queued")
  BY <1>2 DEF Insert, TypeOK
<1> QED
  BY <1>1, <1>2
     DEF Next, vars, Api, CancelBegins, CancelPosts, CancelReads, CancelWrites,
         TimeIsUp, Bury, ForgeProceeds, CallFails, Crash, Worker, ListAgentJobs,
         RunAgentJob, TriggerPipeline, RecordOutcome, ListProductJobs, EndPass,
         TakeProductJob, ClaimProductJob, StartRelease, Confirm, Withdraw, Link,
         Poll, Probe, Complete, HandleError, Abort, Fail

\* The unique index keeps one row for a key, which later answers name.
LEMMA OwnedKeeps ==
    ASSUME JobsAssumption, TypeOK, Listed, Present, Owned, [Next]_vars
    PROVE  Owned'
<1>1. ASSUME NEW r \in Product, NEW s \in Product, KeyOf[r] = KeyOf[s],
             state'[r] # "absent", state'[s] # "absent"
      PROVE  r = s
  <2>1. CASE state[r] # "absent" /\ state[s] # "absent"
    BY <1>1, <2>1 DEF Owned
  <2>2. ASSUME NEW x \in Requests, NEW new \in JobStates,
               state' = [state EXCEPT ![x] = new], Change(x, new), state[x] = "absent"
        PROVE  r = s
    <3>1. x \in Product => \A q \in Product : KeyOf[q] = KeyOf[x] => state[q] = "absent"
      BY <2>2 DEF Change, SameKey
    <3>2. \A q \in Product : q # x => state'[q] = state[q]
      BY <2>2 DEF TypeOK
    <3> QED
      BY <1>1, <2>1, <3>1, <3>2
  <2>3. ASSUME NEW x \in Requests, NEW new \in JobStates,
               state' = [state EXCEPT ![x] = new], state[x] # "absent"
        PROVE  state[r] # "absent" /\ state[s] # "absent"
    BY <1>1, <2>3 DEF TypeOK
  <2> QED
    BY <1>1, <2>1, <2>2, <2>3, StateSteps
<1>2. ASSUME NEW r \in Product, told'[r] \in Requests
      PROVE  /\ told'[r] \in Product /\ state'[told'[r]] # "absent"
             /\ KeyOf[told'[r]] = KeyOf[r] /\ PayloadOf[told'[r]] = PayloadOf[r]
  <2>1. CASE told'[r] = told[r]
    BY <1>2, <2>1, RowsStay DEF Owned
  <2>2. CASE told'[r] = r /\ state'[r] = "queued"
    BY <2>2
  <2>3. CASE \E s \in SameKey(r) : told'[r] = s /\ PayloadOf[s] = PayloadOf[r]
    BY <2>3, RowsStay DEF SameKey
  <2> QED
    BY <1>2, <2>1, <2>2, <2>3, ToldSteps
<1> QED
  BY <1>1, <1>2 DEF Owned

-----------------------------------------------------------------------------
(* Forge.                                                                  *)

\* A release is made once; what succeeded stays so.
LEMMA ForgeSteps ==
    ASSUME JobsAssumption, TypeOK, Listed, [Next]_vars, NEW k \in Keys
    PROVE  /\ \/ releases'[k] = releases[k] /\ (release'[k] = "none" <=> release[k] = "none")
              \/ release[k] = "none" /\ release'[k] # "none" /\ releases'[k] = releases[k] + 1
           /\ release[k] = "success" => release'[k] = "success"
<1> USE DEF TypeOK, Keys
<1>1. CASE StartRelease
  BY <1>1 DEF StartRelease, ForgeMakes
<1>2. CASE Withdraw \/ Abort
  BY <1>2 DEF Withdraw, Abort, CancelAtForge
<1>3. ASSUME NEW r \in Requests, CancelPosts(r)
      PROVE  /\ releases'[k] = releases[k] /\ (release'[k] = "none" <=> release[k] = "none")
             /\ release[k] = "success" => release'[k] = "success"
  BY <1>3 DEF CancelPosts, CancelAtForge
<1>4. ASSUME NEW j \in Keys, ForgeProceeds(j)
      PROVE  /\ releases'[k] = releases[k] /\ (release'[k] = "none" <=> release[k] = "none")
             /\ release[k] = "success" => release'[k] = "success"
  BY <1>4 DEF ForgeProceeds
<1> QED
  BY <1>1, <1>2, <1>3, <1>4
     DEF Next, vars, Api, FindKey, Insert, CancelBegins, CancelReads,
         CancelWrites,
         TimeIsUp, Bury, CallFails, Crash, Worker, ListAgentJobs, RunAgentJob,
         TriggerPipeline, RecordOutcome, ListProductJobs, EndPass, TakeProductJob,
         ClaimProductJob, Confirm, Link, Poll, Probe, Complete, HandleError, Fail

\* Forge makes a release for a key once, and forgets none.
LEMMA MadeKeeps ==
    ASSUME JobsAssumption, TypeOK, Listed, Made, [Next]_vars
    PROVE  Made'
<1> SUFFICES ASSUME NEW k \in Keys
             PROVE  releases'[k] <= 1 /\ (release'[k] = "none" <=> releases'[k] = 0)
  BY DEF Made, Keys
<1>1. releases[k] \in Nat
  BY DEF TypeOK
<1> QED
  BY <1>1, ForgeSteps DEF Made

\* A pipeline is started only by the trigger of its job.
LEMMA TriggeredKeeps ==
    ASSUME JobsAssumption, TypeOK, Listed, Present, Triggered, [Next]_vars
    PROVE  Triggered'
<1> USE DEF TypeOK, Agents
<1> SUFFICES ASSUME NEW r \in Agents
             PROVE  /\ pipelines'[r] <= 1
                    /\ \/ state'[r] \in {"absent", "queued"} \/ r \in todo'
                       \/ pc' = "trigger" /\ r = job'
                       => pipelines'[r] = 0
                    /\ pc' = "trigger" /\ r = job' => state'[r] # "queued"
  BY DEF Triggered
<1>1. /\ pipelines[r] \in Nat /\ pipelines[r] <= 1
      /\ state[r] \in {"absent", "queued"} \/ r \in todo \/ (pc = "trigger" /\ r = job)
            => pipelines[r] = 0
      /\ pc = "trigger" /\ r = job => state[r] # "queued"
  BY DEF Triggered
<1>2. CASE TriggerPipeline
  <2>1. /\ pc = "trigger" /\ job \in Agents /\ job \notin todo
        /\ todo' = todo /\ state' = state /\ pc' = "record"
    BY <1>2 DEF TriggerPipeline, At, Listed
  <2>2. CASE r = job
    <3>1. state[r] \notin {"absent", "queued"}
      BY <1>1, <2>1, <2>2 DEF Present
    <3> QED
      BY <1>1, <1>2, <2>1, <2>2, <3>1 DEF TriggerPipeline
  <2>3. CASE r # job
    BY <1>1, <1>2, <2>1, <2>3 DEF TriggerPipeline
  <2> QED
    BY <2>2, <2>3
<1>3. CASE ~ TriggerPipeline
  <2>1. pipelines' = pipelines
    <3>1. CASE Worker
      BY <3>1, <1>3
         DEF Worker, ForgeMakes, At, ListAgentJobs, RunAgentJob,
             TriggerPipeline, RecordOutcome, ListProductJobs, EndPass,
             TakeProductJob, ClaimProductJob, StartRelease, Confirm, Withdraw,
             Link, Poll, Probe, Complete, HandleError, Abort, Fail
    <3>2. ASSUME NEW q \in Requests, Api(q)
          PROVE  pipelines' = pipelines
      BY <3>2, <1>3
         DEF Api, FindKey, Insert, CancelBegins, CancelPosts, CancelReads,
             CancelWrites, SameKey
    <3>3. CASE CallFails \/ Crash
      BY <3>3, <1>3 DEF CallFails, Crash, At
    <3>4. CASE \/ \E q \in Requests : TimeIsUp(q) \/ Bury(q)
               \/ \E k \in Keys : ForgeProceeds(k)
               \/ UNCHANGED vars
      BY <3>4, <1>3 DEF TimeIsUp, Bury, ForgeProceeds, vars
    <3> QED
      BY <3>1, <3>2, <3>3, <3>4 DEF Next
  <2>2. ASSUME r \in todo' \/ (pc' = "trigger" /\ r = job')
        PROVE  r \in todo \/ (pc = "trigger" /\ r = job) \/ state[r] = "queued"
    <3>1. CASE Worker
      BY <3>1, <1>3, <2>2
         DEF Worker, At, ListAgentJobs, RunAgentJob, TriggerPipeline,
             RecordOutcome, ListProductJobs, EndPass, TakeProductJob,
             ClaimProductJob, StartRelease, Confirm, Withdraw, Link, Poll,
             Probe, Complete, HandleError, Abort, Fail
    <3>2. ASSUME NEW q \in Requests, Api(q)
          PROVE  r \in todo \/ (pc = "trigger" /\ r = job) \/ state[r] = "queued"
      BY <3>2, <1>3, <2>2
         DEF Api, FindKey, Insert, CancelBegins, CancelPosts, CancelReads,
             CancelWrites, SameKey
    <3>3. CASE CallFails \/ Crash
      BY <3>3, <1>3, <2>2 DEF CallFails, Crash, At
    <3>4. CASE \/ \E q \in Requests : TimeIsUp(q) \/ Bury(q)
               \/ \E k \in Keys : ForgeProceeds(k)
               \/ UNCHANGED vars
      BY <3>4, <1>3, <2>2 DEF TimeIsUp, Bury, ForgeProceeds, vars
    <3> QED
      BY <3>1, <3>2, <3>3, <3>4 DEF Next
  <2>3. state'[r] \in {"absent", "queued"} => state[r] \in {"absent", "queued"}
    BY RowsStay
  <2>4. ASSUME pc' = "trigger" /\ r = job'
        PROVE  state'[r] # "queued"
    <3>1. CASE pc = "trigger" /\ r = job
      BY <1>1, <3>1, RowsStay DEF Present
    <3>2. CASE RunAgentJob
      BY <3>2, <2>4 DEF RunAgentJob, At
    <3>3. RunAgentJob \/ (pc = "trigger" /\ r = job)
      <4>1. CASE Worker
        BY <4>1, <1>3, <2>4
           DEF Worker, At, ListAgentJobs, RunAgentJob, TriggerPipeline,
               RecordOutcome, ListProductJobs, EndPass, TakeProductJob,
               ClaimProductJob, StartRelease, Confirm, Withdraw, Link, Poll,
               Probe, Complete, HandleError, Abort, Fail
      <4>2. ASSUME NEW q \in Requests, Api(q)
            PROVE  RunAgentJob \/ (pc = "trigger" /\ r = job)
        BY <4>2, <1>3, <2>4
           DEF Api, FindKey, Insert, CancelBegins, CancelPosts, CancelReads,
               CancelWrites, SameKey
      <4>3. CASE CallFails \/ Crash
        BY <4>3, <1>3, <2>4 DEF CallFails, Crash, At
      <4>4. CASE \/ \E q \in Requests : TimeIsUp(q) \/ Bury(q)
                 \/ \E k \in Keys : ForgeProceeds(k)
                 \/ UNCHANGED vars
        BY <4>4, <1>3, <2>4 DEF TimeIsUp, Bury, ForgeProceeds, vars
      <4> QED
        BY <4>1, <4>2, <4>3, <4>4 DEF Next
    <3> QED
      BY <3>1, <3>2, <3>3
  <2> QED
    BY <1>1, <2>1, <2>2, <2>3, <2>4
<1> QED
  BY <1>2, <1>3

-----------------------------------------------------------------------------
(* Completion.                                                             *)

\* What the worker saw of release and addresses stays true while it acts on it.
LEMMA VerifiedKeeps ==
    ASSUME JobsAssumption, TypeOK, Listed, Present, Verified, [Next]_vars
    PROVE  Verified'
<1>1. /\ healthy \subseteq healthy'
      /\ \A r \in Product : release[KeyOf[r]] = "success" => release'[KeyOf[r]] = "success"
  <2>1. healthy \subseteq healthy'
    <3>1. CASE Worker
      BY <3>1
         DEF Worker, ForgeMakes, At, ListAgentJobs, RunAgentJob,
             TriggerPipeline, RecordOutcome, ListProductJobs, EndPass,
             TakeProductJob, ClaimProductJob, StartRelease, Confirm, Withdraw,
             Link, Poll, Probe, Complete, HandleError, Abort, Fail
    <3>2. ASSUME NEW q \in Requests, Api(q)
          PROVE  healthy \subseteq healthy'
      BY <3>2
         DEF Api, FindKey, Insert, CancelBegins, CancelPosts, CancelReads,
             CancelWrites, SameKey
    <3>3. CASE CallFails \/ Crash
      BY <3>3 DEF CallFails, Crash, At
    <3>4. CASE \/ \E q \in Requests : TimeIsUp(q) \/ Bury(q)
               \/ \E k \in Keys : ForgeProceeds(k)
               \/ UNCHANGED vars
      BY <3>4 DEF TimeIsUp, Bury, ForgeProceeds, vars
    <3> QED
      BY <3>1, <3>2, <3>3, <3>4 DEF Next
  <2> QED
    BY <2>1, ForgeSteps DEF Keys
<1>2. ASSUME NEW r \in Product, state'[r] = "completed"
      PROVE  release'[KeyOf[r]] = "success" /\ r \in healthy'
  <2>1. state[r] = "completed" \/ (pc = "complete" /\ r = job)
    BY <1>2, StateSteps DEF Change, TypeOK
  <2> QED
    BY <1>1, <2>1 DEF Verified, CompletedVerified
<1>3. pc \in {"probe", "complete"} => job \in Product
  BY DEF TypeOK
<1>4. ASSUME pc' = "probe"
      PROVE  release'[KeyOf[job']] = "success"
  <2>1. \/ pc = "probe" /\ job' = job
        \/ release[KeyOf[job]] = "success" /\ job' = job /\ pc = "poll"
    <3>1. CASE Worker
      BY <3>1, <1>4
         DEF Worker, At, ListAgentJobs, RunAgentJob, TriggerPipeline,
             RecordOutcome, ListProductJobs, EndPass, TakeProductJob,
             ClaimProductJob, StartRelease, Confirm, Withdraw, Link, Poll,
             Probe, Complete, HandleError, Abort, Fail
    <3>2. ASSUME NEW q \in Requests, Api(q)
          PROVE  \/ pc = "probe" /\ job' = job
                 \/ release[KeyOf[job]] = "success" /\ job' = job /\ pc = "poll"
      BY <3>2, <1>4
         DEF Api, FindKey, Insert, CancelBegins, CancelPosts, CancelReads,
             CancelWrites, SameKey
    <3>3. CASE CallFails \/ Crash
      BY <3>3, <1>4 DEF CallFails, Crash, At
    <3>4. CASE \/ \E q \in Requests : TimeIsUp(q) \/ Bury(q)
               \/ \E k \in Keys : ForgeProceeds(k)
               \/ UNCHANGED vars
      BY <3>4, <1>4 DEF TimeIsUp, Bury, ForgeProceeds, vars
    <3> QED
      BY <3>1, <3>2, <3>3, <3>4 DEF Next
  <2>2. job \in Product
    BY <2>1 DEF TypeOK
  <2> QED
    BY <1>1, <2>1, <2>2 DEF Verified
<1>5. ASSUME pc' = "complete"
      PROVE  release'[KeyOf[job']] = "success" /\ job' \in healthy'
  <2>1. \/ pc = "complete" /\ job' = job
        \/ pc = "probe" /\ job' = job /\ job' \in healthy'
    <3>1. CASE Worker
      BY <3>1, <1>5
         DEF Worker, At, ListAgentJobs, RunAgentJob, TriggerPipeline,
             RecordOutcome, ListProductJobs, EndPass, TakeProductJob,
             ClaimProductJob, StartRelease, Confirm, Withdraw, Link, Poll,
             Probe, Complete, HandleError, Abort, Fail
    <3>2. ASSUME NEW q \in Requests, Api(q)
          PROVE  \/ pc = "complete" /\ job' = job
                 \/ pc = "probe" /\ job' = job /\ job' \in healthy'
      BY <3>2, <1>5
         DEF Api, FindKey, Insert, CancelBegins, CancelPosts, CancelReads,
             CancelWrites, SameKey
    <3>3. CASE CallFails \/ Crash
      BY <3>3, <1>5 DEF CallFails, Crash, At
    <3>4. CASE \/ \E q \in Requests : TimeIsUp(q) \/ Bury(q)
               \/ \E k \in Keys : ForgeProceeds(k)
               \/ UNCHANGED vars
      BY <3>4, <1>5 DEF TimeIsUp, Bury, ForgeProceeds, vars
    <3> QED
      BY <3>1, <3>2, <3>3, <3>4 DEF Next
  <2> QED
    BY <1>1, <1>3, <2>1 DEF Verified
<1> QED
  BY <1>2, <1>4, <1>5 DEF Verified, CompletedVerified

-----------------------------------------------------------------------------
\* There is no job at first.
LEMMA InitIInv ==
    ASSUME JobsAssumption, Init
    PROVE  IInv
<1>1. TypeOK
  <2>1. PICK W \in Workloads : asking = Arriving(W)
    BY DEF Init
  <2>2. asking \in [Requests -> {"find", "insert", "again", "done"}]
    BY <2>1 DEF Arriving
  <2> QED
    BY <2>2 DEF Init, TypeOK, JobStates, ReleaseStates, WorkerSteps
<1>2. Listed /\ Present
  BY DEF Init, Listed, Present, AgentSteps
<1>3. Owned /\ Made /\ Verified
  BY DEF Init, Owned, Made, Verified, CompletedVerified
<1>4. Triggered
  <2>1. pc = "rest"
    BY DEF Init
  <2>2. ASSUME NEW r \in Agents
        PROVE  pipelines[r] = 0
    BY DEF Init, Agents
  <2> QED
    BY <2>1, <2>2 DEF Triggered
<1> QED
  BY <1>1, <1>2, <1>3, <1>4 DEF IInv

\* Each conjunct is kept by the conjuncts before it.
LEMMA NextKeeps ==
    ASSUME JobsAssumption, IInv, [Next]_vars
    PROVE  IInv'
<1>1. TypeOK'
  <2>1. CASE UNCHANGED vars
    BY <2>1 DEF vars, IInv, TypeOK, Keys
  <2> QED
    BY <2>1, WorkerTyped, ApiTyped, OtherTyped DEF Next, IInv
<1>2. Listed'
  BY WorkerListed, OtherListed DEF IInv
<1> QED
  BY <1>1, <1>2, PresentKeeps, OwnedKeeps, MadeKeeps, TriggeredKeeps,
     VerifiedKeeps
     DEF IInv

\* Together they say what a completed job and a key promise.
LEMMA IInvImplies ==
    ASSUME JobsAssumption, IInv
    PROVE  CompletedVerified /\ OncePerKey
<1>1. ASSUME NEW r \in Product, NEW s \in Product, KeyOf[r] = KeyOf[s],
             told[r] \in Requests, told[s] \in Requests
      PROVE  told[r] = told[s] /\ PayloadOf[r] = PayloadOf[s]
  BY <1>1 DEF IInv, Owned
<1>2. OncePerKey
  BY <1>1 DEF IInv, Owned, Made, Triggered, Agents, OncePerKey
<1> QED
  BY <1>2 DEF IInv, Verified

\* Rows, requests, worker and Forge agree in every reachable state.
THEOREM Inductive ==
    ASSUME JobsAssumption
    PROVE  Spec => []IInv
<1>1. Init => IInv
  BY InitIInv
<1>2. IInv /\ [Next]_vars => IInv'
  BY NextKeeps
<1> QED
  BY <1>1, <1>2, PTL DEF Spec

\* Every reachable state is well typed; the worker is at an agent job only where
\* it triggers pipelines, and at a product job only where it handles releases.
THEOREM TypeCorrect ==
    ASSUME JobsAssumption
    PROVE  Spec => []TypeOK
<1>1. IInv => TypeOK
  BY DEF IInv
<1> QED
  BY <1>1, Inductive, PTL

\* No retry, cancellation or crash completes a product job without a successful
\* release and healthy addresses.
THEOREM CompletedVerifiedHolds ==
    ASSUME JobsAssumption
    PROVE  Spec => []CompletedVerified
<1>1. IInv => CompletedVerified
  BY IInvImplies
<1> QED
  BY <1>1, Inductive, PTL

\* For any number of requests and keys, a key stands for one job and one
\* release, and an agent job for one pipeline.
THEOREM OncePerKeyHolds ==
    ASSUME JobsAssumption
    PROVE  Spec => []OncePerKey
<1>1. IInv => OncePerKey
  BY IInvImplies
<1> QED
  BY <1>1, Inductive, PTL

-----------------------------------------------------------------------------
(* DeploymentJobs implements the abstract ledger of keys.                  *)

\* Releases are made only for the job the worker starts, beside no other change.
LEMMA ReleaseSteps ==
    ASSUME JobsAssumption, TypeOK, Listed, [Next]_vars
    PROVE  \/ releases' = releases
           \/ /\ state' = state /\ job \in Product /\ release[KeyOf[job]] = "none"
              /\ releases' = [releases EXCEPT ![KeyOf[job]] = @ + 1]
<1>1. CASE StartRelease
  BY <1>1 DEF StartRelease, ForgeMakes, TypeOK
<1> QED
  BY <1>1
     DEF Next, vars, Api, FindKey, Insert, CancelBegins, CancelPosts, CancelReads,
         CancelWrites, TimeIsUp, Bury, ForgeProceeds, CallFails, Crash, Worker,
         ListAgentJobs, RunAgentJob, TriggerPipeline, RecordOutcome,
         ListProductJobs, EndPass, TakeProductJob, ClaimProductJob, Confirm,
         Withdraw, Link, Poll, Probe, Complete, HandleError, Abort, Fail

\* A release enters the ledger once, for a key that has a job.
LEMMA ReleaseInLedger ==
    ASSUME JobsAssumption, IInv, [Next]_vars, releases' # releases
    PROVE  Ledger!Next
<1>1. /\ state' = state /\ job \in Product /\ release[KeyOf[job]] = "none"
      /\ releases' = [releases EXCEPT ![KeyOf[job]] = @ + 1]
  BY ReleaseSteps DEF IInv
<1>2. PICK k \in Keys : k = KeyOf[job]
  BY <1>1 DEF Keys
<1>3. k \in KeysIn(JobStates)
  BY <1>1, <1>2 DEF IInv, TypeOK, Present, KeysIn
<1>4. releases[k] = 0 /\ \A j \in Keys : releases[j] \in Nat
  BY <1>1, <1>2 DEF IInv, TypeOK, Made
<1>5. {j \in Keys : releases'[j] = 1} = {j \in Keys : releases[j] = 1} \cup {k}
  BY <1>1, <1>2, <1>4 DEF IInv, TypeOK
<1>6. \A S : KeysIn(S)' = KeysIn(S)
  BY <1>1 DEF KeysIn
<1>7. Ledger!Make(k)
  BY <1>3, <1>4, <1>5, <1>6 DEF Ledger!Make
<1> QED
  BY <1>7 DEF Ledger!Next

\* What a change of one row does to the keys in some states.
LEMMA KeysStep ==
    ASSUME JobsAssumption, IInv, NEW x \in Product, NEW new \in JobStates,
           state' = [state EXCEPT ![x] = new], NEW S, "absent" \notin S
    PROVE  KeysIn(S)' = IF new \in S THEN KeysIn(S) \cup {KeyOf[x]}
                        ELSE IF state[x] \in S THEN KeysIn(S) \ {KeyOf[x]}
                        ELSE KeysIn(S)
<1>1. state'[x] = new /\ \A s \in Product \ {x} : state'[s] = state[s]
  BY DEF IInv, TypeOK
<1>2. ASSUME state[x] # "absent"
      PROVE  \A s \in Product : state[s] \in S /\ KeyOf[s] = KeyOf[x] => s = x
  BY <1>2 DEF IInv, Owned
<1>3. CASE new \in S
  BY <1>1, <1>3 DEF KeysIn
<1>4. CASE new \notin S /\ state[x] \notin S
  BY <1>1, <1>4 DEF KeysIn
<1>5. CASE new \notin S /\ state[x] \in S
  BY <1>1, <1>2, <1>5 DEF KeysIn
<1> QED
  BY <1>3, <1>4, <1>5

\* A row that changes moves its key in the ledger, or leaves it where it is.
LEMMA RowInLedger ==
    ASSUME JobsAssumption, IInv, UNCHANGED releases, [Next]_vars,
           NEW x \in Product, NEW new \in JobStates,
           state' = [state EXCEPT ![x] = new], Change(x, new)
    PROVE  Ledger!Next \/ UNCHANGED Ledger!vars
<1> DEFINE k == KeyOf[x]
<1>1. k \in Keys /\ {j \in Keys : releases'[j] = 1} = {j \in Keys : releases[j] = 1}
  BY DEF Keys
<1>2. KeysIn(JobStates)' = KeysIn(JobStates) \cup {k}
  BY KeysStep DEF JobStates
<1>3. \A S : "absent" \notin S /\ state[x] \notin S /\ state[x] # "absent" =>
         k \notin KeysIn(S)
  BY DEF KeysIn, IInv, Owned
<1>4. CASE state[x] = "absent"
  <2>1. new = "queued" /\ k \notin KeysIn(JobStates)
    BY <1>4 DEF Change, SameKey, KeysIn, JobStates, IInv, TypeOK
  <2>2. KeysIn({"completed"})' = KeysIn({"completed"})
    BY <1>4, <2>1, KeysStep
  <2>3. KeysIn({"failed"})' = KeysIn({"failed"})
    BY <1>4, <2>1, KeysStep
  <2>4. Ledger!Open(k)
    BY <1>1, <1>2, <2>1, <2>2, <2>3 DEF Ledger!Open
  <2> QED
    BY <1>1, <2>4 DEF Ledger!Next
<1>5. CASE state[x] # "absent"
  <2>1. k \in KeysIn(JobStates) /\ KeysIn(JobStates)' = KeysIn(JobStates)
    BY <1>2, <1>5 DEF KeysIn, IInv, TypeOK
  <2>2. CASE new = state[x]
    <3>1. state' = state
      BY <2>2 DEF IInv, TypeOK
    <3> QED
      BY <1>1, <3>1 DEF Ledger!vars, KeysIn
  <2>3. CASE new = "completed" /\ new # state[x]
    <3>1. state[x] # "failed" /\ release[k] = "success"
      BY <1>5, <2>3 DEF Change, IInv, Verified
    <3>2. k \in {j \in Keys : releases[j] = 1}
      BY <1>1, <3>1 DEF IInv, Made, TypeOK
    <3>3. k \notin KeysIn({"completed"}) /\ k \notin KeysIn({"failed"})
      BY <1>3, <1>5, <2>3, <3>1
    <3>4. KeysIn({"completed"})' = KeysIn({"completed"}) \cup {k}
      BY <2>3, KeysStep
    <3>5. KeysIn({"failed"})' = KeysIn({"failed"})
      BY <2>3, <3>1, KeysStep, ZenonT(40)
    <3>6. Ledger!Complete(k)
      BY <1>1, <2>1, <3>2, <3>3, <3>4, <3>5 DEF Ledger!Complete
    <3> QED
      BY <1>1, <3>6 DEF Ledger!Next
  <2>4. CASE new = "failed" /\ new # state[x]
    <3>1. k \notin KeysIn({"failed"})
      BY <1>3, <1>5, <2>4
    <3>2. KeysIn({"failed"})' = KeysIn({"failed"}) \cup {k}
      BY <2>4, KeysStep
    <3>3. KeysIn({"completed"})' = KeysIn({"completed"}) \ {k}
      <4>1. CASE state[x] = "completed"
        BY <2>4, <4>1, KeysStep, ZenonT(40)
      <4>2. CASE state[x] # "completed"
        <5>1. KeysIn({"completed"})' = KeysIn({"completed"})
          BY <2>4, <4>2, KeysStep
        <5> QED
          BY <1>3, <1>5, <4>2, <5>1
      <4> QED
        BY <4>1, <4>2
    <3>4. Ledger!Fail(k)
      BY <1>1, <2>1, <3>1, <3>2, <3>3 DEF Ledger!Fail
    <3> QED
      BY <1>1, <3>4 DEF Ledger!Next
  <2>5. CASE new \notin {"completed", "failed"}
    <3>1. state[x] \notin {"completed", "failed"}
      BY <1>5, <2>5 DEF Change
    <3>2. KeysIn({"completed"})' = KeysIn({"completed"})
      BY <2>5, <3>1, KeysStep
    <3>3. KeysIn({"failed"})' = KeysIn({"failed"})
      BY <2>5, <3>1, KeysStep
    <3> QED
      BY <1>1, <2>1, <3>2, <3>3 DEF Ledger!vars
  <2> QED
    BY <2>2, <2>3, <2>4, <2>5
<1> QED
  BY <1>4, <1>5

\* An agent job is not in the ledger.
LEMMA AgentRowAside ==
    ASSUME JobsAssumption, IInv, UNCHANGED releases,
           NEW x \in Requests \ Product, NEW new \in JobStates,
           state' = [state EXCEPT ![x] = new]
    PROVE  UNCHANGED Ledger!vars
<1>1. \A s \in Product : state'[s] = state[s]
  BY DEF IInv, TypeOK
<1> QED
  BY <1>1 DEF Ledger!vars, KeysIn

\* Every step is one of the ledger or none: a release is made, or one row changes.
LEMMA LedgerStep ==
    ASSUME JobsAssumption, IInv, [Next]_vars
    PROVE  Ledger!Next \/ UNCHANGED Ledger!vars
<1>1. CASE releases' # releases
  BY <1>1, ReleaseInLedger
<1>2. CASE UNCHANGED <<releases, state>>
  BY <1>2 DEF Ledger!vars, KeysIn
<1>3. CASE releases' = releases /\ state' # state
  <2>1. PICK x \in Requests, new \in JobStates :
           state' = [state EXCEPT ![x] = new] /\ Change(x, new)
    BY <1>3, StateSteps DEF IInv
  <2>2. CASE x \in Product
    BY <1>3, <2>1, <2>2, RowInLedger
  <2>3. CASE x \notin Product
    BY <1>3, <2>1, <2>3, AgentRowAside
  <2> QED
    BY <2>2, <2>3
<1> QED
  BY <1>1, <1>2, <1>3

\* Without jobs the ledger is empty.
LEMMA LedgerInit ==
    ASSUME JobsAssumption, Init
    PROVE  Ledger!Init
BY DEF Init, Ledger!Init, KeysIn, JobStates, Keys

\* However requests, retries, cancellations, the worker and Forge interleave,
\* a key opens one job and one release, a job is completed only with it, and
\* one that failed or was cancelled is never taken up again.
THEOREM Refinement ==
    ASSUME JobsAssumption
    PROVE  Spec => ImplementsLedger
<1>1. Init => Ledger!Init
  BY LedgerInit
<1>2. IInv /\ [Next]_vars => [Ledger!Next]_(Ledger!vars)
  BY LedgerStep
<1> QED
  BY <1>1, <1>2, Inductive, PTL DEF Spec, ImplementsLedger, Ledger!Spec
=============================================================================
