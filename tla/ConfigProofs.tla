---------------------------- MODULE ConfigProofs ----------------------------
(* Machine-checked safety of ConfigRevisions, for every set of agents,      *)
(* number of revisions and adversities.                                     *)
EXTENDS ConfigRevisions, TLAPS

USE DEF revisionVars, headVars, opVars, hostVars, jobVars

-----------------------------------------------------------------------------
(* The inductive invariant, in named parts.                                *)

\* Revisions are numbered without gaps and the newest is the desired one.
Numbered ==
    \A a \in Agents, r \in Revisions : state[a][r] = "absent" <=> desired[a] < r

\* The activator works on an activation it claimed.
Held ==
    job # NULL => state[agent][revision] = "activating" /\ job \in claimed

\* An activation nobody claimed has not touched the files.
Untouched ==
    \A a \in Agents, r \in Revisions :
        state[a][r] = "activating" /\ <<a, r>> \notin claimed =>
            files[a] = effective[a]

\* What is on disk at every step of an activation.
Applied ==
    job # NULL =>
        /\ step \in {"claimed", "stopping", "writing", "restarting",
                     "rereadying"} => files[agent] = effective[agent]
        /\ step \in {"stopping", "writing", "verifying", "starting", "readying",
                     "undoing", "restoring"} => backup = effective[agent]
        /\ step \in {"starting", "readying"} => files[agent] = revision
        /\ step = "finishing" =>
              /\ verdict # "none"
              /\ verdict = "active" => files[agent] = revision
              /\ verdict = "failed" => files[agent] = effective[agent]

\* All that the activator keeps whatever work its agent is given.
Owned ==
    /\ TypeOK /\ Numbered /\ DrainHasReason /\ Held
    /\ EffectiveOnDisk /\ Untouched /\ Applied

\* The agent of a claimed activation has no work.
AtRest == job # NULL => ~ busy[agent]

IInv == Owned /\ AtRest

-----------------------------------------------------------------------------
(* Typing.                                                                  *)

\* The two parts of a claimed activation are an agent and a revision.
LEMMA JobParts ==
    ASSUME TypeOK, job # NULL
    PROVE  agent \in Agents /\ revision \in Revisions /\ job = <<agent, revision>>
BY DEF TypeOK, agent, revision

\* What the proofs need of the values on disk.
LEMMA Values ==
    /\ 0 \in OnDisk /\ Mixed \in OnDisk /\ 0 \in 0 .. MaxRevision
    /\ Revisions \subseteq OnDisk /\ Revisions \subseteq 0 .. MaxRevision
    /\ NULL \notin (Agents \X Revisions)
<1>1. 0 \in 0 .. MaxRevision /\ Revisions \subseteq 0 .. MaxRevision
  BY ConfigAssumption DEF Revisions
<1>2. NULL \notin (Agents \X Revisions)
  BY ConfigAssumption, Zenon DEF Revisions
<1> QED
  BY <1>1, <1>2 DEF OnDisk

\* Every step keeps the tables, the host and the activator well typed.
LEMMA TypeStep == TypeOK /\ [Next]_vars => TypeOK'
<1> SUFFICES ASSUME TypeOK, [Next]_vars PROVE TypeOK'
  OBVIOUS
<1> USE Values
        DEF TypeOK, States, Statuses, Operations, ActivatorSteps, Verdicts
<1>1. CASE Activator
  <2>1. ASSUME NEW a \in Agents, NEW r \in Revisions,
               Claim(a, r) \/ ClaimUnread(a, r)
        PROVE  TypeOK'
    <3>1. claimed' \subseteq Agents \X Revisions
      BY <2>1 DEF Claim, ClaimUnread
    <3>2. job' \in (Agents \X Revisions) \cup {NULL}
      BY <2>1 DEF Claim, ClaimUnread
    <3>3. step' = "idle" <=> job' = NULL
      BY <2>1 DEF Claim, ClaimUnread
    <3> QED
      BY <2>1, <3>1, <3>2, <3>3 DEF Claim, ClaimUnread
  <2>2. CASE Finish
    <3>1. agent \in Agents /\ revision \in Revisions
      BY <2>2, JobParts DEF Finish
    <3>2. state' \in [Agents -> [Revisions -> States]]
      BY <2>2, <3>1 DEF Finish
    <3>3. effective' \in [Agents -> 0 .. MaxRevision]
      BY <2>2, <3>1 DEF Finish
    <3> QED
      BY <2>2, <3>1, <3>2, <3>3 DEF Finish, Rest
  <2>3. CASE FinishLost
    BY <2>3 DEF FinishLost, Rest
  <2> QED
    <3> USE DEF Conclude, Kill, SetStatus
    <3>1. CASE Refuse \/ Begin
      BY <3>1, JobParts, ZenonT(40) DEF Refuse, Begin
    <3>2. CASE StopOld \/ StopOldUnrecorded
      BY <3>2, JobParts DEF StopOld, StopOldUnrecorded
    <3>3. CASE StartWriting \/ FailWriting
      BY <3>3, JobParts DEF StartWriting, FailWriting
    <3>9. CASE FinishWriting
      <4>1. revision \in OnDisk /\ agent \in Agents
        BY <3>9, JobParts DEF FinishWriting
      <4> QED
        BY <3>9, <4>1 DEF FinishWriting
    <3>4. CASE StartAgain
      <4>1. agent \in Agents /\ job # NULL
        BY <3>4, JobParts DEF StartAgain
      <4>2. CASE Launch(agent)
        BY <3>4, <4>1, <4>2 DEF StartAgain, Launch, AlreadyTracked
      <4>3. CASE AlreadyTracked(agent)
        BY <3>4, <4>1, <4>3 DEF StartAgain, Launch, AlreadyTracked
      <4> QED
        BY <3>4, <4>2, <4>3 DEF StartAgain
    <3>5. CASE Ready \/ NotReady
      BY <3>5, JobParts, ZenonT(40) DEF Ready, NotReady, BecomesReady, StaysUnready,
         StartFailed
    <3>6. CASE StartUnrecorded
      BY <3>6, JobParts DEF StartUnrecorded, StartFailed
    <3>7. CASE Undo
      BY <3>7, JobParts DEF Undo
    <3>8. CASE Restore \/ RestoreFails
      BY <3>8, JobParts DEF Restore, RestoreFails
    <3> QED
      BY <1>1, <2>1, <2>2, <2>3, <3>1, <3>2, <3>3, <3>4, <3>5, <3>6, <3>7, <3>8, <3>9
         DEF Activator
<1>2. ASSUME NEW a \in Agents, Api(a) PROVE TypeOK'
  <2>1. CASE Create(a)
    <3>1. state' \in [Agents -> [Revisions -> States]]
      BY <2>1 DEF Create
    <3>2. desired' \in [Agents -> 0 .. MaxRevision]
      BY <2>1 DEF Create
    <3> QED
      BY <2>1, <3>1, <3>2 DEF Create
  <2>2. ASSUME NEW r \in Revisions, Validate(a, r) PROVE TypeOK'
    BY <2>2 DEF Validate
  <2>3. ASSUME NEW r \in Revisions, Activate(a, r) PROVE TypeOK'
    BY <2>3 DEF Activate
  <2> QED
    BY <1>2, <2>1, <2>2, <2>3 DEF Api
<1>3. ASSUME NEW a \in Agents, Lifecycle(a) PROVE TypeOK'
  <2> USE DEF Kill, SetStatus
  <2>1. ASSUME NEW operation \in Operations, Ask(a, operation) PROVE TypeOK'
    BY <2>1 DEF Ask
  <2>2. CASE OperatorStop(a)
    BY <2>2 DEF OperatorStop
  <2>3. CASE OperatorStart(a)
    <3>1. CASE Launch(a)
      BY <2>3, <3>1 DEF OperatorStart, Launch, AlreadyTracked
    <3>2. CASE AlreadyTracked(a)
      BY <2>3, <3>2 DEF OperatorStart, Launch, AlreadyTracked
    <3> QED
      BY <2>3, <3>1, <3>2 DEF OperatorStart
  <2>4. CASE OperatorStarted(a)
    BY <2>4, ZenonT(40) DEF OperatorStarted, BecomesReady, StaysUnready
  <2>5. CASE Probe(a)
    BY <2>5 DEF Probe
  <2>6. CASE RecordProbe(a) \/ ProcessExits(a)
    BY <2>6, ZenonT(40) DEF RecordProbe, ProcessExits
  <2> QED
    BY <1>3, <2>1, <2>2, <2>3, <2>4, <2>5, <2>6 DEF Lifecycle
<1>4. CASE Crash
  BY <1>4 DEF Crash, Rest
<1>5. ASSUME NEW a \in Agents, WorkChange(a) PROVE TypeOK'
  BY <1>5 DEF WorkChange
<1>6. CASE UNCHANGED vars
  BY <1>6 DEF vars
<1> QED
  BY <1>1, <1>2, <1>3, <1>4, <1>5, <1>6 DEF Next, Step

\* Nothing is configured yet, and that is well typed.
LEMMA InitTyped == Init => TypeOK
<1> SUFFICES ASSUME Init PROVE TypeOK
  OBVIOUS
<1>1. runtime \in [Agents -> OnDisk \cup {Down}]
  BY Values DEF Init
<1>2. status \in [Agents -> Statuses] /\ tracked \subseteq Agents
  BY DEF Init, Statuses
<1>3. state \in [Agents -> [Revisions -> States]]
  BY DEF Init, States
<1> QED
  BY <1>1, <1>2, <1>3, Values DEF Init, TypeOK, ActivatorSteps, Verdicts

\* The rows, the host and the activator are well typed in every state.
THEOREM TypeCorrect == Spec => []TypeOK
BY InitTyped, TypeStep, PTL DEF Spec

-----------------------------------------------------------------------------
(* The steps of the activator between its claim and its outcome.            *)

JobStep ==
    \/ Refuse \/ Begin \/ StopOld \/ StopOldUnrecorded
    \/ StartWriting \/ FinishWriting \/ FailWriting
    \/ StartAgain \/ Ready \/ NotReady \/ StartUnrecorded
    \/ Undo \/ Restore \/ RestoreFails

\* They work on a job, and write no row and no file of another agent.
LEMMA JobFrame ==
    ASSUME TypeOK, JobStep
    PROVE  /\ job # NULL
           /\ UNCHANGED <<revisionVars, headVars, busy, job>>
           /\ \A a \in Agents \ {agent} : files'[a] = files[a]
<1> USE DEF TypeOK
<1>1. CASE Refuse \/ Begin \/ StopOld \/ StopOldUnrecorded
  BY <1>1 DEF Refuse, Begin, StopOld, StopOldUnrecorded
<1>2. CASE StartWriting \/ FinishWriting \/ FailWriting
  BY <1>2 DEF StartWriting, FinishWriting, FailWriting
<1>3. CASE StartAgain \/ Ready \/ NotReady \/ StartUnrecorded
  BY <1>3 DEF StartAgain, Ready, NotReady, StartUnrecorded
<1>4. CASE Undo \/ Restore \/ RestoreFails
  BY <1>4 DEF Undo, Restore, RestoreFails
<1> QED
  BY <1>1, <1>2, <1>3, <1>4 DEF JobStep

\* They keep what is known of the files at each step.
LEMMA AppliedStep == TypeOK /\ Applied /\ JobStep => Applied'
<1> SUFFICES ASSUME TypeOK, Applied, JobStep PROVE Applied'
  OBVIOUS
<1>1. /\ job # NULL /\ agent' = agent /\ revision' = revision
      /\ effective' = effective /\ job' = job
  BY JobFrame DEF agent, revision
<1>2. agent \in Agents
  BY <1>1, JobParts
<1>3. files \in [Agents -> OnDisk]
  BY DEF TypeOK
<1> USE <1>1 DEF Applied, Conclude
<1>4. CASE Refuse \/ Begin \/ StopOld \/ StopOldUnrecorded
  BY <1>4 DEF Refuse, Begin, StopOld, StopOldUnrecorded
<1>5. CASE StartWriting \/ FailWriting
  BY <1>5 DEF StartWriting, FailWriting
<1>6. CASE FinishWriting
  BY <1>2, <1>3, <1>6 DEF FinishWriting
<1>7. CASE StartAgain
  BY <1>7 DEF StartAgain
<1>8. CASE Ready \/ NotReady \/ StartUnrecorded
  BY <1>8 DEF Ready, NotReady, StartUnrecorded, StartFailed
<1>9. CASE Undo
  BY <1>9 DEF Undo
<1>10. CASE Restore \/ RestoreFails
  BY <1>2, <1>3, <1>10 DEF Restore, RestoreFails
<1> QED
  BY <1>4, <1>5, <1>6, <1>7, <1>8, <1>9, <1>10 DEF JobStep

\* The agent of a job drains, and its only activation is the claimed one.
LEMMA JobDrains ==
    ASSUME TypeOK, DrainHasReason, Held, job # NULL
    PROVE  /\ draining[agent] /\ desired[agent] = revision
           /\ \A r \in Revisions : state[agent][r] = "activating" => r = revision
BY JobParts DEF DrainHasReason, Held

Safe ==
    Numbered /\ DrainHasReason /\ Held /\ EffectiveOnDisk /\ Untouched /\ Applied

\* Each step of the activator keeps drains explained and files accounted for.
LEMMA JobSafe == Owned /\ JobStep => Safe'
<1> SUFFICES ASSUME Owned, JobStep PROVE Safe'
  OBVIOUS
<1> USE DEF Owned
<1>1. /\ job # NULL /\ agent' = agent /\ revision' = revision
      /\ UNCHANGED <<revisionVars, headVars, busy, job>>
      /\ \A a \in Agents \ {agent} : files'[a] = files[a]
  BY JobFrame DEF agent, revision
<1>2. Numbered' /\ DrainHasReason' /\ Held'
  BY <1>1 DEF Numbered, DrainHasReason, Held
<1>3. EffectiveOnDisk'
  BY <1>1, JobDrains DEF EffectiveOnDisk
<1>4. Untouched'
  <2> SUFFICES ASSUME NEW a \in Agents, NEW r \in Revisions,
                      state[a][r] = "activating", <<a, r>> \notin claimed
               PROVE  files'[a] = effective[a]
    BY <1>1 DEF Untouched
  <2>1. a # agent
    BY <1>1, JobDrains, JobParts DEF Held
  <2> QED
    BY <1>1, <2>1 DEF Untouched
<1> QED
  BY <1>2, <1>3, <1>4, AppliedStep DEF Safe

-----------------------------------------------------------------------------
(* The other steps.                                                         *)

\* A step that leaves rows, files and the activator alone.
LEMMA QuietSafe ==
    Owned /\ UNCHANGED <<revisionVars, headVars, busy, files, step, jobVars>>
    => Safe'
BY DEF Owned, Safe, Numbered, DrainHasReason, Held, EffectiveOnDisk, Untouched,
   Applied, agent, revision

\* A claim takes an activation whose files nobody has touched.
LEMMA ClaimSafe ==
    ASSUME Owned, NEW a \in Agents, NEW r \in Revisions,
           Claim(a, r) \/ ClaimUnread(a, r)
    PROVE  Safe'
<1> USE DEF Owned, TypeOK
<1>1. /\ state[a][r] = "activating" /\ <<a, r>> \notin claimed
      /\ claimed' = claimed \cup {<<a, r>>} /\ step = "idle"
      /\ UNCHANGED <<state, headVars, busy, files>>
  BY DEF Claim, ClaimUnread, Claimable
<1>2. files[a] = effective[a]
  BY <1>1 DEF Untouched
<1>3. Numbered' /\ DrainHasReason' /\ EffectiveOnDisk' /\ Untouched'
  BY <1>1 DEF Numbered, DrainHasReason, EffectiveOnDisk, Untouched
<1>4. CASE Claim(a, r)
  <2>1. job' = <<a, r>> /\ agent' = a /\ revision' = r /\ step' = "claimed"
    BY <1>4 DEF Claim, agent, revision
  <2> QED
    BY <1>1, <1>2, <1>3, <2>1 DEF Safe, Held, Applied
<1>5. CASE ClaimUnread(a, r)
  <2>1. job' = NULL
    BY <1>1, <1>5 DEF ClaimUnread
  <2> QED
    BY <1>3, <2>1 DEF Safe, Held, Applied
<1> QED
  BY <1>4, <1>5

\* What the activator records is what it left on disk.
LEMMA FinishSafe == Owned /\ Finish => Safe'
<1> SUFFICES ASSUME Owned, Finish, NEW a \in Agents, a = agent,
                    NEW r \in Revisions, r = revision
             PROVE  Safe'
  BY JobParts DEF Finish, Owned, TypeOK
<1> USE DEF Owned, TypeOK
<1>1. job # NULL /\ job' = NULL
  BY DEF Finish, Rest
<1>2. /\ desired[a] = r /\ draining[a]
      /\ \A q \in Revisions : state[a][q] = "activating" => q = r
  BY <1>1, JobDrains
<1>3. /\ state' = [state EXCEPT ![a][r] =
                       IF verdict = "active" THEN "active" ELSE "failed"]
      /\ draining' = [draining EXCEPT ![a] = verdict = "unverified"]
      /\ effective' = IF verdict = "active"
                      THEN [effective EXCEPT ![a] = r] ELSE effective
      /\ UNCHANGED <<claimed, desired, busy, files>>
      /\ state[a][r] = "activating"
  BY <1>2 DEF Finish
<1>4. /\ verdict \in {"active", "failed", "unverified"}
      /\ verdict = "active" => files[a] = r
      /\ verdict = "failed" => files[a] = effective[a]
  BY <1>1 DEF Finish, Applied, Verdicts
<1>5. Numbered'
  BY <1>2, <1>3 DEF Numbered
<1>6. DrainHasReason'
  BY <1>2, <1>3, <1>4 DEF DrainHasReason, Revisions
<1>7. EffectiveOnDisk'
  BY <1>3, <1>4 DEF EffectiveOnDisk
<1>8. Untouched'
  BY <1>2, <1>3 DEF Untouched
<1> QED
  BY <1>1, <1>5, <1>6, <1>7, <1>8 DEF Safe, Held, Applied

\* The activator forgets its job; the activation stays open and drained.
LEMMA RestSafe ==
    Owned /\ Rest /\ UNCHANGED <<revisionVars, headVars, busy, files>> => Safe'
BY DEF Owned, Rest, Safe, Numbered, DrainHasReason, Held, EffectiveOnDisk,
   Untouched, Applied

\* Saving, validating and activating never touch the files.
LEMMA ApiSafe == ASSUME Owned, NEW a \in Agents, Api(a) PROVE Safe'
<1> USE DEF Owned, TypeOK
<1>1. /\ UNCHANGED <<effective, busy, files, step, jobVars>>
      /\ agent' = agent /\ revision' = revision
  BY DEF Api, Create, Validate, Activate, agent, revision
<1>2. CASE Create(a)
  <2>1. PICK r \in Revisions :
           /\ state[a][r] = "absent"
           /\ \A q \in Revisions : q < r => state[a][q] # "absent"
           /\ state' = [state EXCEPT ![a][r] = "draft"]
           /\ desired' = [desired EXCEPT ![a] = r]
    BY <1>2 DEF Create
  <2>2. ~ draining[a] /\ UNCHANGED <<claimed, draining>>
    BY <1>2 DEF Create
  <2>3. \A q \in Revisions : q <= r <=> (q = r \/ q <= desired[a])
    <3>1. desired[a] < r
      BY <2>1 DEF Numbered
    <3>2. \A q \in Revisions : q < r => ~ (desired[a] < q)
      BY <2>1 DEF Numbered
    <3>3. desired[a] \in Int /\ Revisions \subseteq Int
      <4>1. desired[a] \in 0 .. MaxRevision
        OBVIOUS
      <4> QED
        BY <4>1 DEF Revisions
    <3> QED
      BY <3>1, <3>2, <3>3
  <2>4. Numbered'
    <3> SUFFICES ASSUME NEW b \in Agents, NEW q \in Revisions
                 PROVE  state'[b][q] = "absent" <=> desired'[b] < q
      BY DEF Numbered
    <3>1. CASE b # a
      BY <2>1, <3>1 DEF Numbered
    <3>2. CASE b = a
      <4>1. desired'[b] = r /\ (state'[b][q] = "absent" <=>
                                  q # r /\ state[a][q] = "absent")
        BY <2>1, <3>2
      <4>2. desired[a] \in Int /\ r \in Int /\ q \in Int
        <5>1. desired[a] \in 0 .. MaxRevision
          OBVIOUS
        <5> QED
          BY <5>1 DEF Revisions
      <4> QED
        BY <2>3, <4>1, <4>2 DEF Numbered
    <3> QED
      BY <3>1, <3>2
  <2>5. DrainHasReason'
    BY <2>1, <2>2 DEF DrainHasReason
  <2>6. Held'
    BY <1>1, <2>1, <2>2, JobParts, JobDrains DEF Held
  <2>7. EffectiveOnDisk' /\ Untouched'
    BY <1>1, <2>1, <2>2 DEF EffectiveOnDisk, Untouched
  <2> QED
    BY <1>1, <2>4, <2>5, <2>6, <2>7 DEF Safe, Applied
<1>3. ASSUME NEW r \in Revisions, Validate(a, r) PROVE Safe'
  <2>1. PICK result \in {"draft", "validated"} :
           state' = [state EXCEPT ![a][r] = result]
    BY <1>3 DEF Validate
  <2>2. /\ state[a][r] \notin {"absent", "activating", "active"}
        /\ UNCHANGED <<claimed, draining, desired>>
    BY <1>3 DEF Validate
  <2>3. Numbered' /\ DrainHasReason' /\ EffectiveOnDisk' /\ Untouched'
    BY <1>1, <2>1, <2>2
       DEF Numbered, DrainHasReason, EffectiveOnDisk, Untouched
  <2>4. Held'
    BY <1>1, <2>1, <2>2, JobParts DEF Held
  <2> QED
    BY <1>1, <2>3, <2>4 DEF Safe, Applied
<1>4. ASSUME NEW r \in Revisions, Activate(a, r) PROVE Safe'
  <2>1. /\ desired[a] = r /\ ~ draining[a] /\ state[a][r] = "validated"
        /\ draining' = [draining EXCEPT ![a] = TRUE]
        /\ state' = [state EXCEPT ![a][r] = "activating"]
        /\ claimed' = claimed \ {<<a, r>>} /\ desired' = desired
    BY <1>4 DEF Activate
  <2>2. Numbered'
    BY <2>1 DEF Numbered
  <2>3. DrainHasReason'
    BY <2>1 DEF DrainHasReason, Revisions
  <2>4. Held'
    BY <1>1, <2>1, JobParts, JobDrains DEF Held
  <2>5. EffectiveOnDisk'
    BY <1>1, <2>1 DEF EffectiveOnDisk
  <2>6. Untouched'
    BY <1>1, <2>1 DEF EffectiveOnDisk, Untouched
  <2> QED
    BY <1>1, <2>2, <2>3, <2>4, <2>5, <2>6 DEF Safe, Applied
<1> QED
  BY <1>2, <1>3, <1>4 DEF Api

\* Nothing else than a step of this module touches what it keeps: the work of
\* the agents may change freely.
LEMMA OthersKeep ==
    ASSUME Owned, busy' \in [Agents -> BOOLEAN],
           UNCHANGED <<revisionVars, headVars, hostVars, opVars, step, jobVars>>
    PROVE  Owned'
BY DEF Owned, TypeOK, Numbered, DrainHasReason, Held, EffectiveOnDisk, Untouched,
   Applied, agent, revision

\* Every step of the revisions, the activator and the host keeps it.
LEMMA StepKeeps == Owned /\ Step => Owned'
<1> SUFFICES ASSUME Owned, Step PROVE Owned'
  OBVIOUS
<1>1. TypeOK'
  BY TypeStep DEF Owned, Next
<1>2. Safe'
  <2>1. CASE JobStep
    BY <2>1, JobSafe
  <2>2. CASE Activator /\ ~ JobStep
    BY <2>2, ClaimSafe, FinishSafe, RestSafe DEF Activator, JobStep, FinishLost
  <2>3. CASE \E a \in Agents : Api(a)
    BY <2>3, ApiSafe
  <2>4. ASSUME NEW a \in Agents, Lifecycle(a) PROVE Safe'
    BY <2>4, QuietSafe DEF Lifecycle, Ask, OperatorStop, OperatorStart,
       OperatorStarted, Probe, RecordProbe, ProcessExits
  <2>5. CASE Crash
    BY <2>5, RestSafe DEF Crash
  <2> QED
    BY <2>1, <2>2, <2>3, <2>4, <2>5 DEF Step
<1> QED
  BY <1>1, <1>2 DEF Owned, Safe

\* Every step keeps what the activator owns, the other actors included.
LEMMA OwnedStep == Owned /\ [Next]_vars => Owned'
<1> SUFFICES ASSUME Owned, [Next]_vars PROVE Owned'
  OBVIOUS
<1>1. ASSUME NEW a \in Agents, WorkChange(a) PROVE Owned'
  BY <1>1, OthersKeep DEF WorkChange, Owned, TypeOK
<1>2. CASE UNCHANGED vars
  BY <1>2, OthersKeep DEF vars, Owned, TypeOK
<1> QED
  BY <1>1, <1>2, StepKeeps DEF Next

\* The activator takes a job only from an agent without work, and keeps it
\* until it forgets it.
LEMMA JobTaken ==
    ASSUME TypeOK, Step
    PROVE  \/ job' = job
           \/ job' = NULL
           \/ \E a \in Agents, r \in Revisions : Claimable(a, r) /\ job' = <<a, r>>
<1>1. CASE JobStep
  BY <1>1, JobFrame
<1>2. CASE Activator /\ ~ JobStep
  BY <1>2 DEF Activator, JobStep, Claim, ClaimUnread, Finish, FinishLost, Rest
<1>3. CASE \E a \in Agents : Api(a)
  BY <1>3 DEF Api, Create, Validate, Activate
<1>4. CASE \E a \in Agents : Lifecycle(a)
  BY <1>4 DEF Lifecycle, Ask, OperatorStop, OperatorStart, OperatorStarted,
     Probe, RecordProbe, ProcessExits
<1>5. CASE Crash
  BY <1>5 DEF Crash, Rest
<1> QED
  BY <1>1, <1>2, <1>3, <1>4, <1>5 DEF Step

\* Work begins and ends by WorkChange only.
LEMMA StepNotWork == TypeOK /\ Step => UNCHANGED busy
<1>1. JobStep /\ TypeOK => UNCHANGED busy
  BY JobFrame
<1>2. Activator /\ ~ JobStep => UNCHANGED busy
  BY DEF Activator, JobStep, Claim, ClaimUnread, Finish, FinishLost
<1>3. ASSUME NEW a \in Agents, Api(a) \/ Lifecycle(a) PROVE UNCHANGED busy
  BY <1>3 DEF Api, Create, Validate, Activate, Lifecycle, Ask, OperatorStop,
     OperatorStart, OperatorStarted, Probe, RecordProbe, ProcessExits
<1>4. Crash => UNCHANGED busy
  BY DEF Crash
<1> QED
  BY <1>1, <1>2, <1>3, <1>4 DEF Step

\* Nobody owns anything at first.
LEMMA InitOwned == Init => Owned
<1> SUFFICES ASSUME Init PROVE Owned
  OBVIOUS
<1>1. TypeOK
  BY InitTyped
<1>2. Safe
  BY Values DEF Init, Safe, Numbered, DrainHasReason, Held, EffectiveOnDisk,
     Untouched, Applied, Revisions
<1> QED
  BY <1>1, <1>2 DEF Owned, Safe

\* Work is given only to an agent that does not drain, and a claim asks for
\* an agent without any.
LEMMA AtRestStep == IInv /\ [Next]_vars => AtRest'
<1> SUFFICES ASSUME Owned, AtRest, [Next]_vars PROVE AtRest'
  BY DEF IInv
<1> USE DEF Owned, AtRest, agent
<1>1. CASE Step
  <2>1. ASSUME NEW a \in Agents, NEW r \in Revisions,
               Claimable(a, r), job' = <<a, r>>
        PROVE  AtRest'
    BY <1>1, <2>1, StepNotWork DEF Claimable
  <2> QED
    BY <1>1, <2>1, JobTaken, StepNotWork
<1>2. ASSUME NEW a \in Agents, WorkChange(a) PROVE AtRest'
  <2>1. job' = job /\ (job # NULL => draining[job[1]] /\ job[1] \in Agents)
    BY <1>2, JobDrains, JobParts DEF WorkChange
  <2> QED
    BY <1>2, <2>1 DEF WorkChange, TypeOK
<1>3. CASE UNCHANGED vars
  BY <1>3 DEF vars
<1> QED
  BY <1>1, <1>2, <1>3 DEF Next

-----------------------------------------------------------------------------
(* The theorems.                                                            *)

\* The whole strengthening holds in every reachable state.
THEOREM Inductive == Spec => []IInv
<1>1. Init => Owned /\ AtRest
  BY InitOwned DEF Init, AtRest
<1>2. IInv <=> Owned /\ AtRest
  BY DEF IInv
<1> QED
  BY <1>1, <1>2, OwnedStep, AtRestStep, PTL DEF Spec

\* No save, validation, race or crash detaches an activation from its drain.
THEOREM DrainHasReasonHolds == Spec => []DrainHasReason
BY Inductive, PTL DEF IInv, Owned

\* A released agent has exactly its effective revision on disk.
THEOREM EffectiveOnDiskHolds == Spec => []EffectiveOnDisk
BY Inductive, PTL DEF IInv, Owned

\* Only an activation step moves files, and only those of its job.
LEMMA FilesStep ==
    ASSUME Owned, [Next]_vars, NEW a \in Agents, files'[a] # files[a]
    PROVE  JobStep /\ a = agent
<1>1. CASE JobStep
  BY <1>1, JobFrame DEF Owned
<1>2. CASE Activator /\ ~ JobStep
  BY <1>2 DEF Activator, JobStep, Claim, ClaimUnread, Finish, FinishLost
<1>3. CASE \E b \in Agents : Api(b) \/ WorkChange(b)
  BY <1>3 DEF Api, Create, Validate, Activate, WorkChange
<1>4. CASE \E b \in Agents : Lifecycle(b)
  BY <1>4 DEF Lifecycle, Ask, OperatorStop, OperatorStart, OperatorStarted,
     Probe, RecordProbe, ProcessExits
<1>5. CASE Crash \/ UNCHANGED vars
  BY <1>5 DEF Crash, vars
<1> QED
  BY <1>1, <1>2, <1>3, <1>4, <1>5 DEF Next, Step

\* The files of an agent change only while it drains and has no work.
THEOREM WritesAtRestHolds == Spec => WritesAtRest
<1> DEFINE OnlyAtRest ==
      \A a \in Agents : files'[a] # files[a] => ~ busy[a] /\ draining[a]
<1>1. IInv /\ [Next]_vars => OnlyAtRest
  <2> SUFFICES ASSUME IInv, [Next]_vars, NEW a \in Agents,
                      files'[a] # files[a]
               PROVE  ~ busy[a] /\ draining[a]
    OBVIOUS
  <2>1. JobStep /\ a = agent
    BY FilesStep DEF IInv
  <2>2. job # NULL
    BY <2>1, JobFrame DEF IInv, Owned
  <2> QED
    BY <2>1, <2>2, JobDrains DEF IInv, Owned, AtRest
<1> QED
  BY <1>1, Inductive, PTL DEF Spec, WritesAtRest

\* Saving, activating and the recorded outcome are the steps of the abstract
\* register; everything else leaves it as it is.
LEMMA RegisterStep ==
    ASSUME Owned, Step
    PROVE  Register!Next \/ UNCHANGED Register!vars
<1> USE DEF Owned, TypeOK, Register!vars
<1>1. ASSUME NEW a \in Agents, Create(a) PROVE Register!Next
  <2>1. PICK r \in Revisions :
           state[a][r] = "absent" /\ desired' = [desired EXCEPT ![a] = r]
    BY <1>1 DEF Create
  <2>2. desired[a] \in Int /\ r \in Int /\ desired[a] < r
    <3>1. desired[a] \in 0 .. MaxRevision
      OBVIOUS
    <3> QED
      BY <2>1, <3>1 DEF Numbered, Revisions
  <2> QED
    BY <1>1, <2>1, <2>2 DEF Create, Register!Next, Register!Save
<1>2. ASSUME NEW a \in Agents, NEW r \in Revisions, Activate(a, r)
      PROVE  Register!Next
  <2>1. desired[a] # 0
    BY <1>2 DEF Activate, Revisions
  <2> QED
    BY <1>2, <2>1 DEF Activate, Register!Next, Register!Block
<1>3. CASE Finish
  <2> SUFFICES ASSUME NEW a \in Agents, a = agent,
                      NEW r \in Revisions, r = revision
               PROVE  Register!Next \/ UNCHANGED Register!vars
    BY <1>3, JobParts DEF Finish
  <2>1. desired[a] = r /\ draining[a]
    BY <1>3, JobDrains DEF Finish
  <2>2. /\ draining' = [draining EXCEPT ![a] = verdict = "unverified"]
        /\ effective' = IF verdict = "active"
                        THEN [effective EXCEPT ![a] = r] ELSE effective
        /\ desired' = desired
    BY <1>3, <2>1 DEF Finish
  <2>3. CASE verdict = "active"
    BY <2>1, <2>2, <2>3 DEF Register!Next, Register!Commit
  <2>4. CASE verdict = "unverified"
    BY <2>1, <2>2, <2>4
  <2>5. CASE verdict \notin {"active", "unverified"}
    BY <2>1, <2>2, <2>5 DEF Register!Next, Register!Abort
  <2> QED
    BY <2>3, <2>4, <2>5
<1>4. CASE JobStep
  BY <1>4, JobFrame
<1>5. CASE Activator /\ ~ JobStep /\ ~ Finish
  BY <1>5 DEF Activator, JobStep, Claim, ClaimUnread, FinishLost
<1>6. ASSUME NEW a \in Agents, NEW r \in Revisions, Validate(a, r)
      PROVE  UNCHANGED Register!vars
  BY <1>6 DEF Validate
<1>7. CASE \E a \in Agents : Lifecycle(a)
  BY <1>7 DEF Lifecycle, Ask, OperatorStop, OperatorStart, OperatorStarted,
     Probe, RecordProbe, ProcessExits
<1>8. CASE Crash
  BY <1>8 DEF Crash
<1> QED
  BY <1>1, <1>2, <1>3, <1>4, <1>5, <1>6, <1>7, <1>8 DEF Step, Api

\* Without revisions the register is empty.
LEMMA RegisterInit == Init => Register!Init
BY DEF Init, Register!Init

\* Seen from outside, saving, activating and applying revisions is the abstract
\* register, whatever fails.
THEOREM Refinement == Spec => ImplementsRegister
<1>1. IInv /\ [Next]_vars => [Register!Next]_(Register!vars)
  BY RegisterStep DEF IInv, Next, WorkChange, vars, Register!vars
<1> QED
  BY <1>1, RegisterInit, Inductive, PTL DEF Spec, ImplementsRegister, Register!Spec

-----------------------------------------------------------------------------
(* What the processes run, when nobody starts or stops agents meanwhile.   *)

NoOperator == "lifecycle" \notin Faults

\* No lifecycle operation or health check is under way.
Unattended == \A a \in Agents : asked[a] = "none" /\ seen[a] = "nothing"

\* An agent whose configuration nobody is applying or lost while applying it.
Resting(a) ==
    \/ ~ draining[a]
    \/ \E r \in Revisions : state[a][r] = "activating" /\ <<a, r>> \notin claimed

\* No process of the agent answers or is tracked.
Gone(a) == runtime[a] = Down /\ a \notin tracked

\* A process that answers runs revision r, and a stopped agent has none.
Serves(a, r) ==
    /\ runtime[a] \in {Down, r}
    /\ status[a] = "stopped" => Gone(a)

RestingServes == \A a \in Agents : Resting(a) => Serves(a, effective[a])

\* What the process of the agent runs at every step of an activation.
JobServes ==
    job # NULL =>
        /\ step = "claimed" => Serves(agent, effective[agent])
        /\ step = "stopping" =>
              agent \in tracked /\ runtime[agent] \in {Down, effective[agent]}
        /\ step \in {"writing", "verifying", "starting", "restoring",
                     "restarting"} => Gone(agent)
        /\ step = "readying" =>
              agent \in tracked /\ runtime[agent] \in {Down, revision}
        /\ step = "rereadying" =>
              agent \in tracked /\ runtime[agent] \in {Down, effective[agent]}
        /\ step = "undoing" =>
              /\ agent \in tracked \/ runtime[agent] = Down
              /\ ~ wasUp => Gone(agent)
        /\ step = "finishing" =>
              /\ verdict = "active" => Serves(agent, revision)
              /\ verdict = "failed" => Serves(agent, effective[agent])

\* The activator starts only what it found running.
Remembers ==
    /\ step \in {"idle", "claimed"} => ~ wasUp
    /\ step \in {"stopping", "starting", "readying", "restarting", "rereadying"} =>
          wasUp

Hosting == Unattended /\ RestingServes /\ JobServes /\ Remembers

\* An activation step starts and stops no process but that of its agent.
LEMMA JobHost ==
    ASSUME TypeOK, JobStep
    PROVE  /\ UNCHANGED opVars
           /\ \A a \in Agents \ {agent} :
                 /\ runtime'[a] = runtime[a] /\ status'[a] = status[a]
                 /\ a \in tracked' <=> a \in tracked
<1> USE DEF TypeOK, Kill, SetStatus
<1>1. CASE Refuse \/ Begin \/ StopOld \/ StopOldUnrecorded
  BY <1>1 DEF Refuse, Begin, StopOld, StopOldUnrecorded
<1>2. CASE StartWriting \/ FinishWriting \/ FailWriting
  BY <1>2 DEF StartWriting, FinishWriting, FailWriting
<1>3. CASE StartAgain \/ StartUnrecorded
  BY <1>3 DEF StartAgain, StartUnrecorded, Launch, AlreadyTracked
<1>4. CASE Ready \/ NotReady
  BY <1>4 DEF Ready, NotReady, BecomesReady, StaysUnready
<1>5. CASE Undo \/ Restore \/ RestoreFails
  BY <1>5 DEF Undo, Restore, RestoreFails
<1> QED
  BY <1>1, <1>2, <1>3, <1>4, <1>5 DEF JobStep

\* It keeps what is known of that process.
LEMMA JobServesStep == Owned /\ JobServes /\ Remembers /\ JobStep => JobServes'
<1> SUFFICES ASSUME Owned, JobServes, Remembers, JobStep, NEW a \in Agents, a = agent
             PROVE  JobServes'
  BY JobFrame, JobParts DEF Owned
<1>1. /\ job # NULL /\ agent' = agent /\ revision' = revision
      /\ effective' = effective /\ job' = job
      /\ TypeOK /\ Applied
  BY JobFrame DEF agent, revision, Owned
<1>2. /\ runtime \in [Agents -> OnDisk \cup {Down}] /\ tracked \subseteq Agents
      /\ status \in [Agents -> Statuses] /\ files \in [Agents -> OnDisk]
  BY <1>1 DEF TypeOK
<1> USE <1>1, <1>2 DEF JobServes, Serves, Gone, Conclude, Kill, SetStatus, Statuses
<1>3. CASE Refuse \/ Begin
  BY <1>3 DEF Refuse, Begin
<1>4. CASE StopOld \/ StopOldUnrecorded
  BY <1>4 DEF StopOld, StopOldUnrecorded
<1>5. CASE StartWriting \/ FinishWriting \/ FailWriting
  BY <1>5 DEF StartWriting, FinishWriting, FailWriting
<1>6. CASE StartAgain
  <2>1. /\ step = "starting" => files[a] = revision
        /\ step = "restarting" => files[a] = effective[a]
    BY DEF Applied
  <2> QED
    BY <1>6, <2>1 DEF StartAgain, Launch, AlreadyTracked
<1>7. CASE Ready \/ NotReady
  BY <1>7 DEF Ready, NotReady, BecomesReady, StaysUnready, StartFailed
<1>8. CASE StartUnrecorded
  BY <1>8 DEF StartUnrecorded, StartFailed, Remembers
<1>9. CASE Undo
  BY <1>9 DEF Undo
<1>10. CASE Restore \/ RestoreFails
  BY <1>10 DEF Restore, RestoreFails
<1> QED
  BY <1>3, <1>4, <1>5, <1>6, <1>7, <1>8, <1>9, <1>10 DEF JobStep

\* The agent of a job is not at rest, and stays so when the job is lost.
LEMMA JobNotResting == ASSUME Owned, job # NULL PROVE ~ Resting(agent)
BY JobDrains, JobParts DEF Owned, Held, Resting

\* What the activator remembers of the process is its own, whoever acts.
LEMMA RemembersStep == TypeOK /\ Remembers /\ [Next]_vars => Remembers'
<1> SUFFICES ASSUME TypeOK, Remembers, [Next]_vars PROVE Remembers'
  OBVIOUS
<1> USE DEF Remembers, Conclude
<1>1. CASE JobStep
  <2>1. CASE Refuse \/ Begin \/ StopOld \/ StopOldUnrecorded
    BY <2>1 DEF Refuse, Begin, StopOld, StopOldUnrecorded
  <2>2. CASE StartWriting \/ FinishWriting \/ FailWriting
    BY <2>2 DEF StartWriting, FinishWriting, FailWriting
  <2>3. CASE StartAgain \/ Ready \/ NotReady \/ StartUnrecorded
    BY <2>3 DEF StartAgain, Ready, NotReady, StartUnrecorded, StartFailed
  <2>4. CASE Undo \/ Restore \/ RestoreFails
    BY <2>4 DEF Undo, Restore, RestoreFails
  <2> QED
    BY <1>1, <2>1, <2>2, <2>3, <2>4 DEF JobStep
<1>2. CASE Activator /\ ~ JobStep
  BY <1>2 DEF Activator, JobStep, Claim, ClaimUnread, Finish, FinishLost, Rest
<1>3. CASE \E a \in Agents : Api(a) \/ WorkChange(a)
  BY <1>3 DEF Api, Create, Validate, Activate, WorkChange
<1>4. CASE \E a \in Agents : Lifecycle(a)
  BY <1>4 DEF Lifecycle, Ask, OperatorStop, OperatorStart, OperatorStarted,
     Probe, RecordProbe, ProcessExits
<1>5. CASE Crash \/ UNCHANGED vars
  BY <1>5 DEF Crash, Rest, vars
<1> QED
  BY <1>1, <1>2, <1>3, <1>4, <1>5 DEF Next, Step

\* A step that leaves the processes alone and lets no agent come to rest.
LEMMA QuietHosting ==
    ASSUME Hosting, UNCHANGED <<opVars, status, tracked, runtime, effective, step, jobVars>>,
           \A a \in Agents : Resting(a)' => Resting(a)
    PROVE  Unattended' /\ RestingServes' /\ JobServes'
BY DEF Hosting, Unattended, RestingServes, JobServes, Serves, Gone, agent, revision

\* So are what the activator remembers and how it will end, when no row, process
\* or step of a configuration changes.
LEMMA OthersHosting ==
    ASSUME UNCHANGED <<revisionVars, headVars, hostVars, opVars, step, jobVars>>
    PROVE  /\ Hosting => Hosting'
           /\ RuntimeRunsEffective => RuntimeRunsEffective'
BY DEF Hosting, Unattended, RestingServes, Resting, JobServes, Remembers, Serves,
       Gone, RuntimeRunsEffective, agent, revision

\* A claimed agent is still served from its effective revision.
LEMMA ClaimHosting ==
    ASSUME Owned, Hosting, NEW a \in Agents, NEW r \in Revisions,
           Claim(a, r) \/ ClaimUnread(a, r)
    PROVE  Unattended' /\ RestingServes' /\ JobServes'
<1> USE DEF Hosting, Unattended, RestingServes, JobServes, Serves, Gone
<1>1. /\ state[a][r] = "activating" /\ <<a, r>> \notin claimed
      /\ UNCHANGED <<state, headVars, hostVars, opVars>>
      /\ claimed \subseteq claimed'
  BY DEF Claim, ClaimUnread, Claimable
<1>2. Serves(a, effective[a])
  BY <1>1 DEF Resting
<1>3. \A b \in Agents : Resting(b)' => Resting(b)
  BY <1>1 DEF Resting
<1>4. CASE Claim(a, r)
  <2>1. agent' = a /\ step' = "claimed"
    BY <1>4 DEF Claim, agent
  <2> QED
    BY <1>1, <1>2, <1>3, <2>1
<1>5. CASE ClaimUnread(a, r)
  <2>1. job' = job /\ job = NULL
    BY <1>5 DEF ClaimUnread, Owned, TypeOK
  <2> QED
    BY <1>1, <1>3, <2>1
<1> QED
  BY <1>4, <1>5

\* A released agent is served from what the activator recorded.
LEMMA FinishHosting ==
    ASSUME Owned, Hosting, Finish
    PROVE  Unattended' /\ RestingServes' /\ JobServes'
<1> USE DEF Hosting, Unattended, RestingServes, JobServes, Serves, Gone
<1>1. PICK a \in Agents, r \in Revisions : a = agent /\ r = revision
  BY JobParts DEF Finish, Owned, TypeOK
<1>2. /\ job # NULL /\ job' = NULL /\ UNCHANGED <<hostVars, opVars, claimed>>
      /\ verdict \in {"active", "failed", "unverified"} /\ step = "finishing"
  BY DEF Finish, Rest, Owned, TypeOK, Applied, Verdicts
<1>3. /\ desired[a] = r /\ draining[a]
      /\ \A q \in Revisions : state[a][q] = "activating" => q = r
  BY <1>1, <1>2, JobDrains DEF Owned
<1>4. /\ state' = [state EXCEPT ![a][r] =
                       IF verdict = "active" THEN "active" ELSE "failed"]
      /\ draining' = [draining EXCEPT ![a] = verdict = "unverified"]
      /\ effective' = IF verdict = "active"
                      THEN [effective EXCEPT ![a] = r] ELSE effective
  BY <1>1, <1>3 DEF Finish
<1>5. /\ state \in [Agents -> [Revisions -> States]]
      /\ draining \in [Agents -> BOOLEAN]
      /\ effective \in [Agents -> 0 .. MaxRevision]
  BY DEF Owned, TypeOK
<1>6. \A b \in Agents \ {a} : effective'[b] = effective[b] /\ (Resting(b)' => Resting(b))
  BY <1>2, <1>4, <1>5 DEF Resting
<1>7. Resting(a)' => verdict # "unverified"
  <2>1. \A q \in Revisions : state'[a][q] # "activating"
    BY <1>3, <1>4, <1>5
  <2> QED
    BY <1>4, <1>5, <2>1 DEF Resting
<1>8. /\ verdict = "active" => Serves(a, effective'[a])
      /\ verdict = "failed" => Serves(a, effective'[a])
  BY <1>1, <1>2, <1>4, <1>5
<1>9. RestingServes'
  BY <1>2, <1>6, <1>7, <1>8
<1> QED
  BY <1>2, <1>9

\* The handlers of revisions touch no process and no file.
LEMMA ApiHosting ==
    ASSUME Owned, Hosting, NEW a \in Agents, Api(a)
    PROVE  Unattended' /\ RestingServes' /\ JobServes'
<1>1. UNCHANGED <<opVars, status, tracked, runtime, effective, step, jobVars>>
  BY DEF Api, Create, Validate, Activate
<1>2. ASSUME NEW b \in Agents, Resting(b)' PROVE Resting(b)
  <2> USE <1>2 DEF Resting, Owned, TypeOK
  <2>1. CASE Create(a)
    <3>1. PICK r \in Revisions : state' = [state EXCEPT ![a][r] = "draft"]
      BY <2>1 DEF Create
    <3>2. draining' = draining /\ claimed' = claimed
      BY <2>1 DEF Create
    <3> QED
      BY <3>1, <3>2
  <2>2. ASSUME NEW r \in Revisions, Validate(a, r) PROVE Resting(b)
    <3>1. PICK result \in {"draft", "validated"} :
             state' = [state EXCEPT ![a][r] = result]
      BY <2>2 DEF Validate
    <3>2. draining' = draining /\ claimed' = claimed
      BY <2>2 DEF Validate
    <3> QED
      BY <3>1, <3>2
  <2>3. ASSUME NEW r \in Revisions, Activate(a, r) PROVE Resting(b)
    BY <2>3 DEF Activate
  <2> QED
    BY <2>1, <2>2, <2>3 DEF Api
<1> QED
  BY <1>1, <1>2, QuietHosting

\* Fleet dies: processes go, or stay untracked with what they run.
LEMMA CrashHosting ==
    ASSUME Owned, Hosting, Crash
    PROVE  Unattended' /\ RestingServes' /\ JobServes'
<1>1. \A a \in Agents : Resting(a)' <=> Resting(a)
  BY DEF Crash, Resting
<1>2. \A a \in Agents : a \notin tracked' /\ runtime'[a] \in {Down, runtime[a]}
  BY DEF Crash
<1> QED
  BY <1>1, <1>2 DEF Crash, Rest, Hosting, Unattended, RestingServes, JobServes,
     Serves, Gone

\* Nobody asks; a process may exit.
LEMMA LifecycleHosting ==
    ASSUME NoOperator, Owned, Hosting, NEW a \in Agents, Lifecycle(a)
    PROVE  Unattended' /\ RestingServes' /\ JobServes'
<1>1. ProcessExits(a)
  BY DEF Lifecycle, Ask, OperatorStop, OperatorStart, OperatorStarted, Probe,
     RecordProbe, NoOperator, Happens, Hosting, Unattended
<1>2. /\ UNCHANGED <<revisionVars, headVars, opVars, step, jobVars, status, tracked>>
      /\ \A b \in Agents : runtime'[b] \in {Down, runtime[b]}
      /\ agent' = agent /\ revision' = revision
  BY <1>1 DEF ProcessExits, Owned, TypeOK, agent, revision
<1>3. job # NULL => agent \in Agents
  BY JobParts DEF Owned
<1> QED
  BY <1>2, <1>3 DEF Hosting, Unattended, RestingServes, JobServes, Serves, Gone,
     Resting

\* Without operators every step keeps the process with its revision.
LEMMA HostingStep ==
    ASSUME NoOperator, Owned, Hosting, [Next]_vars
    PROVE  Hosting'
<1>1. Remembers'
  BY RemembersStep DEF Owned, Hosting
<1>2. Unattended' /\ RestingServes' /\ JobServes'
  <2>1. CASE JobStep
    <3>1. JobServes'
      BY <2>1, JobServesStep DEF Hosting
    <3>2. Unattended'
      BY <2>1, JobHost DEF Owned, Hosting, Unattended
    <3>3. /\ job # NULL /\ UNCHANGED <<revisionVars, headVars>>
          /\ ~ Resting(agent)
      BY <2>1, JobFrame, JobNotResting DEF Owned
    <3>4. RestingServes'
      BY <2>1, <3>3, JobHost DEF Owned, Hosting, RestingServes, Resting, Serves, Gone
    <3> QED
      BY <3>1, <3>2, <3>4
  <2>2. CASE FinishLost
    BY <2>2 DEF FinishLost, Rest, Hosting, Unattended, RestingServes, JobServes,
       Resting, Serves, Gone
  <2>3. CASE Activator /\ ~ JobStep /\ ~ FinishLost
    BY <2>3, ClaimHosting, FinishHosting DEF Activator, JobStep
  <2>4. CASE \E a \in Agents : WorkChange(a)
    BY <2>4, QuietHosting DEF WorkChange, Resting
  <2>5. CASE UNCHANGED vars
    BY <2>5, QuietHosting DEF vars, Resting
  <2> QED
    BY <2>1, <2>2, <2>3, <2>4, <2>5, ApiHosting, LifecycleHosting, CrashHosting
       DEF Next, Step
<1> QED
  BY <1>1, <1>2 DEF Hosting

\* So does every reachable state.
LEMMA HostingInvariant == ASSUME NoOperator PROVE Spec => []Hosting
<1>1. Init => Hosting
  BY DEF Init, Hosting, Unattended, RestingServes, JobServes, Remembers, Serves, Gone
<1>2. Owned /\ Hosting /\ [Next]_vars => Hosting'
  BY HostingStep
<1>3. IInv => Owned
  BY DEF IInv
<1> QED
  BY <1>1, <1>2, <1>3, Inductive, PTL DEF Spec

\* Whatever crashes, fails or exits: as long as nobody starts or stops agents
\* meanwhile, a process that serves a released agent runs its effective
\* revision.
THEOREM RuntimeRunsEffectiveHolds ==
    ASSUME NoOperator
    PROVE  Spec => []RuntimeRunsEffective
<1>1. Hosting => RuntimeRunsEffective
  BY DEF Hosting, RestingServes, Resting, Serves, RuntimeRunsEffective
<1> QED
  BY <1>1, HostingInvariant, PTL

-----------------------------------------------------------------------------
(* What a rollback promises when the database answers and processes stay.  *)

HostFaultsOnly == Faults \cap {"lifecycle", "database", "exit"} = {}

Restarted ==
    step = "finishing" /\ verdict = "failed" /\ wasUp =>
        runtime[agent] = effective[agent]

\* Only a restart that became ready leads a running agent to a failure.
LEMMA RestartedStep ==
    ASSUME HostFaultsOnly, Owned, Hosting, Restarted, [Next]_vars
    PROVE  Restarted'
<1> USE DEF Restarted, Conclude
<1>1. CASE JobStep
  <2>1. job # NULL /\ agent' = agent /\ effective' = effective
    BY <1>1, JobFrame DEF Owned, agent
  <2>2. CASE Refuse \/ Begin
    BY <2>2 DEF Refuse, Begin, Hosting, Remembers
  <2>3. CASE StopOld \/ StartWriting \/ FinishWriting \/ FailWriting
    BY <2>3 DEF StopOld, StartWriting, FinishWriting, FailWriting
  <2>4. CASE StartAgain
    BY <2>1, <2>4 DEF StartAgain, AlreadyTracked, Hosting, JobServes, Gone
  <2>5. CASE Ready
    BY <2>1, <2>5 DEF Ready, BecomesReady, Hosting, JobServes
  <2>6. CASE NotReady
    BY <2>6 DEF NotReady, StartFailed
  <2>7. CASE StopOldUnrecorded \/ StartUnrecorded
    BY <2>7 DEF StopOldUnrecorded, StartUnrecorded, HostFaultsOnly, Happens
  <2>8. CASE Undo \/ Restore \/ RestoreFails
    BY <2>8 DEF Undo, Restore, RestoreFails
  <2> QED
    BY <1>1, <2>2, <2>3, <2>4, <2>5, <2>6, <2>7, <2>8 DEF JobStep
<1>2. CASE Activator /\ ~ JobStep
  BY <1>2 DEF Activator, JobStep, Claim, ClaimUnread, Finish, FinishLost, Rest
<1>3. CASE \E a \in Agents : Api(a) \/ WorkChange(a)
  BY <1>3 DEF Api, Create, Validate, Activate, WorkChange, agent
<1>4. ASSUME NEW a \in Agents PROVE ~ Lifecycle(a)
  BY DEF Lifecycle, Ask, OperatorStop, OperatorStart, OperatorStarted, Probe,
     RecordProbe, ProcessExits, HostFaultsOnly, Happens, Hosting, Unattended
<1>5. CASE Crash \/ UNCHANGED vars
  BY <1>5 DEF Crash, Rest, vars, agent
<1> QED
  BY <1>1, <1>2, <1>3, <1>4, <1>5 DEF Next, Step

\* With crashes and failing files, requests and readiness, but with a database
\* that answers and processes that do not exit: an activation that failed and
\* is about to release its agent has restored the files, and if it stopped a
\* process, one that was started from them answers.
THEOREM FailureRestoresHolds ==
    ASSUME HostFaultsOnly
    PROVE  Spec => []FailureRestores
<1>1. NoOperator
  BY DEF HostFaultsOnly, NoOperator
<1>2. Owned /\ Restarted => FailureRestores
  BY DEF Owned, TypeOK, Applied, Restarted, FailureRestores
<1>3. Init => Restarted
  BY DEF Init, Restarted
<1>4. Owned /\ Hosting /\ Restarted /\ [Next]_vars => Restarted'
  BY RestartedStep
<1>5. IInv => Owned
  BY DEF IInv
<1>6. Spec => []Hosting
  BY <1>1, HostingInvariant
<1> QED
  BY <1>2, <1>3, <1>4, <1>5, <1>6, Inductive, PTL DEF Spec
=============================================================================
