----------------------------- MODULE GateProofs -----------------------------
(* Machine-checked safety of the dispatcher and the activator together: for *)
(* all agents, prompts, revisions and adversities, each keeps what it keeps *)
(* alone, and the hole between the drain and the claim of a prompt is one   *)
(* prompt wide.                                                            *)
EXTENDS AgentGate, TLAPS

USE GateAssumption

-----------------------------------------------------------------------------
(* What each component keeps alone it keeps here.                           *)

CInv == Dispatch!IInv /\ Config!Owned

\* What one component reads of the other's tables is well typed.
LEMMA ReadsTyped ==
    /\ [a \in Agents |-> HasWork(a)]' \in [Agents -> BOOLEAN]
    /\ [a \in Agents |-> status[a] = "running"]' \in [Agents -> BOOLEAN]
<1>1. \A a \in Agents : HasWork(a)' \in BOOLEAN
  BY DEF HasWork
<1> QED
  BY <1>1, Zenon

\* Each component begins as it does alone.
LEMMA InitCInv == Init => CInv
BY Dispatch!InitIInv, Config!InitOwned DEF Init, CInv

\* A step of the dispatch is one of its own; the rows and files of the
\* configuration stay, and only the work of the agents is another.
LEMMA DispatchKeeps ==
    ASSUME CInv, DispatchStep
    PROVE  CInv' /\ Dispatch!Next
<1>1. Dispatch!Next
  BY DEF DispatchStep, OfDispatch, Dispatch!Next
<1>2. Dispatch!IInv'
  BY <1>1, Dispatch!IInvStep DEF CInv
<1>3. [a \in Agents |-> HasWork(a)]' \in [Agents -> BOOLEAN]
  BY ReadsTyped
<1>4. UNCHANGED <<configVars, draining>>
  BY DEF DispatchStep, OfDispatch
<1>5. Config!Owned'
  BY <1>3, <1>4, Config!OthersKeep
     DEF CInv, configVars, Config!revisionVars, Config!headVars, Config!hostVars,
         Config!opVars, Config!jobVars
<1> QED
  BY <1>1, <1>2, <1>5 DEF CInv

\* A step of the configuration is one of its own; the tables of the dispatch
\* stay, and only the statuses and drains it reads are others.
LEMMA ConfigKeeps ==
    ASSUME CInv, ConfigStep
    PROVE  CInv' /\ Config!Step
<1>1. Config!Step
  BY DEF ConfigStep, OfConfig, Config!Step
<1>2. Config!Owned'
  BY <1>1, Config!StepKeeps DEF CInv
<1>3. [a \in Agents |-> status[a] = "running"]' \in [Agents -> BOOLEAN]
  BY ReadsTyped
<1>4. draining' \in [Agents -> BOOLEAN]
  BY <1>2 DEF Config!Owned, Config!TypeOK
<1>5. UNCHANGED dispatchVars
  BY DEF ConfigStep, OfConfig
<1>6. Dispatch!IInv'
  BY <1>3, <1>4, <1>5, Dispatch!AgentsChange
     DEF CInv, dispatchVars, Dispatch!queueVars, Dispatch!dbVars, Dispatch!taskVars,
         Dispatch!runtimeVars
<1> QED
  BY <1>1, <1>2, <1>6 DEF CInv

\* Fleet dies as a whole, which each component sees as its own crash.
LEMMA CrashKeeps ==
    ASSUME CInv, Crash
    PROVE  CInv' /\ Dispatch!Next /\ Config!Step
<1>1. Dispatch!Next /\ Config!Step
  BY DEF Crash, Dispatch!Next, Dispatch!Surroundings, Config!Step
<1> QED
  BY <1>1, Dispatch!IInvStep, Config!StepKeeps DEF CInv

\* What one component does to the shared state is a step of the other.
LEMMA CInvStep == CInv /\ [Next]_vars => CInv'
<1> SUFFICES ASSUME CInv, [Next]_vars PROVE CInv'
  OBVIOUS
<1>1. CASE UNCHANGED vars
  <2>1. UNCHANGED <<dispatchVars, configVars, draining>>
    BY <1>1 DEF vars
  <2>2. /\ [a \in Agents |-> HasWork(a)]' \in [Agents -> BOOLEAN]
        /\ [a \in Agents |-> status[a] = "running"]' \in [Agents -> BOOLEAN]
    BY ReadsTyped
  <2>3. Config!Owned'
    BY <2>1, <2>2, Config!OthersKeep
       DEF CInv, configVars, Config!revisionVars, Config!headVars,
           Config!hostVars, Config!opVars, Config!jobVars
  <2>4. draining' \in [Agents -> BOOLEAN]
    BY <2>3 DEF Config!Owned, Config!TypeOK
  <2>5. Dispatch!IInv'
    BY <2>1, <2>2, <2>4, Dispatch!AgentsChange
       DEF CInv, dispatchVars, Dispatch!queueVars, Dispatch!dbVars,
           Dispatch!taskVars, Dispatch!runtimeVars
  <2> QED
    BY <2>3, <2>5 DEF CInv
<1> QED
  BY <1>1, DispatchKeeps, ConfigKeeps, CrashKeeps DEF Next

\* Whatever one component does to what the other reads, each keeps its own
\* inductive invariant.
THEOREM ComponentsKeep == Spec => []CInv
BY InitCInv, CInvStep, PTL DEF Spec

\* In the composition too, an agent never executes two runs at once, a prompt
\* is sent at most once, run rows and answers have the runtime's evidence,
\* an activation is never detached from its drain, and a released agent has
\* exactly its effective revision on disk.
THEOREM SafetyComposed ==
    Spec => [](/\ Dispatch!CapacityOne /\ Dispatch!SentOnce
               /\ Dispatch!TerminalEvidence /\ Dispatch!AnswerOnce
               /\ Dispatch!DispatchedWasAccepted
               /\ Config!DrainHasReason /\ Config!EffectiveOnDisk)
<1>1. CInv => /\ Dispatch!CapacityOne /\ Dispatch!SentOnce
              /\ Dispatch!TerminalEvidence /\ Dispatch!AnswerOnce
              /\ Dispatch!DispatchedWasAccepted
              /\ Config!DrainHasReason /\ Config!EffectiveOnDisk
  BY DEF CInv, Dispatch!IInv, Dispatch!Sending, Dispatch!SentOnce,
         Dispatch!Reported, Dispatch!AnswerOnce, Dispatch!Accepted,
         Dispatch!DispatchedWasAccepted, Config!Owned
<1> QED
  BY <1>1, ComponentsKeep, PTL

\* And the composition implements the abstract slots and the abstract register
\* at once.
THEOREM RefinesBoth == Spec => Dispatch!ImplementsSlots /\ Config!ImplementsRegister
<1> DEFINE phases == [m \in Messages |-> Dispatch!Phase(m)]
<1>1. Init => Dispatch!Slots!Init /\ Config!Register!Init
  BY Dispatch!SlotsInit, Config!RegisterInit DEF Init
<1>2. CInv /\ [Next]_vars => [Dispatch!Slots!Next]_phases
  <2> SUFFICES ASSUME CInv, [Next]_vars
               PROVE  Dispatch!Slots!Next \/ UNCHANGED phases
    OBVIOUS
  <2>1. CASE Dispatch!Next
    BY <2>1, Dispatch!SlotsStep DEF CInv
  <2>2. CASE UNCHANGED dispatchVars
    BY <2>2 DEF dispatchVars, Dispatch!Phase, Dispatch!Live
  <2> QED
    BY <2>1, <2>2, DispatchKeeps, CrashKeeps DEF Next, ConfigStep, OfConfig, vars
<1>3. CInv /\ [Next]_vars => [Config!Register!Next]_(Config!Register!vars)
  <2> SUFFICES ASSUME CInv, [Next]_vars
               PROVE  Config!Register!Next \/ UNCHANGED Config!Register!vars
    OBVIOUS
  <2>1. CASE Config!Step
    BY <2>1, Config!RegisterStep DEF CInv
  <2>2. CASE UNCHANGED <<configVars, draining>>
    BY <2>2 DEF configVars, Config!Register!vars
  <2> QED
    BY <2>1, <2>2, ConfigKeeps, CrashKeeps DEF Next, DispatchStep, OfDispatch, vars
<1> QED
  BY <1>1, <1>2, <1>3, ComponentsKeep, PTL
     DEF Spec, Dispatch!ImplementsSlots, Config!ImplementsRegister,
         Dispatch!Slots!Spec, Config!Register!Spec

-----------------------------------------------------------------------------
(* At most one prompt slips through a drain.                                *)

\* Who slipped is remembered while the drain lasts; and once somebody did, the
\* dispatcher is past the choice it made before the drain.
OneChoice ==
    /\ slipped \in [Agents -> SUBSET Messages]
    /\ \A a \in Agents :
          /\ \A m, n \in slipped[a] : m = n
          /\ ~ draining[a] => slipped[a] = {}
          /\ slipped[a] # {} => ~ (pc = "claiming" /\ AgentOf[current] = a)

\* A prompt is claimed by the dispatcher that holds it.
LEMMA ClaimsStep ==
    ASSUME CInv, [Next]_vars, NEW a \in Agents, NEW m \in Claims(a)
    PROVE  /\ Dispatch!ClaimLocked /\ m = current
           /\ m \in Messages /\ AgentOf[m] = a
           /\ UNCHANGED <<configVars, draining>>
<1>1. m \in Messages /\ AgentOf[m] = a /\ outbox[m] # outbox'[m]
  BY DEF Claims
<1>2. DispatchStep
  BY <1>1 DEF Next, ConfigStep, OfConfig, Crash, vars, dispatchVars
<1>3. Dispatch!Busy(m)' /\ ~ Dispatch!Busy(m)
  BY DEF Claims, Dispatch!Busy
<1>4. Dispatch!TypeOK
  BY DEF CInv, Dispatch!IInv
<1>5. Dispatch!ClaimLocked /\ m = current
  BY <1>1, <1>2, <1>3, <1>4, DispatchKeeps, Dispatch!BusyStep
<1> QED
  BY <1>1, <1>2, <1>5 DEF DispatchStep, OfDispatch

\* The history after a step.
LEMMA Noted ==
    ASSUME [Next]_vars
    PROVE  NoteClaims \/ UNCHANGED vars
BY DEF Next, DispatchStep, OfDispatch, ConfigStep, OfConfig, Crash

\* A dispatcher that chooses a prompt now sees its agent released.
LEMMA ChosenReleased ==
    ASSUME CInv, [Next]_vars, pc' = "claiming",
           draining[AgentOf[current']]
    PROVE  UNCHANGED <<pc, current>>
<1>1. Dispatch!TypeOK
  BY DEF CInv, Dispatch!IInv
<1>2. CASE Dispatch!Next
  BY <1>1, <1>2, Dispatch!ClaimBegins
     DEF Dispatch!ClaimSnapshot, Dispatch!Claimable
<1>3. CASE UNCHANGED dispatchVars
  BY <1>3 DEF dispatchVars
<1> QED
  BY <1>2, <1>3, DispatchKeeps, CrashKeeps DEF Next, ConfigStep, OfConfig, vars

\* The choice is made before the drain, and only one is open.
LEMMA OneChoiceStep ==
    ASSUME CInv, OneChoice, [Next]_vars
    PROVE  OneChoice'
<1>1. CASE UNCHANGED vars
  BY <1>1 DEF vars, dispatchVars, OneChoice
<1>2. CASE NoteClaims
  <2>1. slipped' \in [Agents -> SUBSET Messages]
    BY <1>2 DEF NoteClaims, Claims, OneChoice
  <2> SUFFICES ASSUME NEW a \in Agents
               PROVE  /\ \A m, n \in slipped'[a] : m = n
                      /\ ~ draining'[a] => slipped'[a] = {}
                      /\ slipped'[a] # {} =>
                            ~ (pc' = "claiming" /\ AgentOf[current'] = a)
    BY <2>1 DEF OneChoice
  <2>2. slipped'[a] = IF draining'[a] THEN slipped[a] \cup Claims(a) ELSE {}
    BY <1>2 DEF NoteClaims
  <2>3. CASE ~ draining'[a]
    BY <2>2, <2>3
  <2>4. CASE draining'[a] /\ Claims(a) = {}
    <3>1. slipped'[a] = slipped[a]
      BY <2>2, <2>4
    <3>2. ASSUME slipped[a] # {}, pc' = "claiming", AgentOf[current'] = a
          PROVE  FALSE
      <4>1. UNCHANGED <<pc, current>>
        BY <3>2, ChosenReleased DEF OneChoice
      <4> QED
        BY <3>2, <4>1 DEF OneChoice
    <3> QED
      BY <2>4, <3>1, <3>2 DEF OneChoice
  <2>5. CASE draining'[a] /\ Claims(a) # {}
    <3>1. Dispatch!ClaimLocked /\ AgentOf[current] = a /\ Claims(a) = {current}
      BY <2>5, ClaimsStep
    <3>2. pc = "claiming" /\ pc' = "claimed"
      BY <3>1 DEF Dispatch!ClaimLocked
    <3>3. slipped[a] = {}
      BY <3>1, <3>2 DEF OneChoice
    <3> QED
      BY <2>2, <2>5, <3>1, <3>2, <3>3
  <2> QED
    BY <2>3, <2>4, <2>5
<1> QED
  BY <1>1, <1>2, Noted

\* Nobody has slipped at first, and the choice stays the only one.
LEMMA OneChoiceInvariant == Spec => []OneChoice
<1>1. Init => OneChoice
  BY DEF Init, Dispatch!Init, OneChoice
<1> QED
  BY <1>1, OneChoiceStep, ComponentsKeep, PTL DEF Spec

\* However long a drain takes and whatever crashes meanwhile, at most one prompt
\* of the agent is claimed during it.
THEOREM OneSlipHolds == Spec => []OneSlip
<1>1. OneChoice => OneSlip
  BY DEF OneChoice, OneSlip
<1> QED
  BY <1>1, OneChoiceInvariant, PTL

-----------------------------------------------------------------------------
(* No other prompt is disturbed.                                            *)

\* What the dispatcher holds of an agent whose activation is applied, and what
\* of it is on its way or executing, slipped through the drain.  (Run rows
\* may become active again: a late control answer or a stream that broke
\* after its terminal event writes one without a run in the runtime.)
Excluded ==
    job # NULL =>
        \A m \in Messages :
            AgentOf[m] = job[1] /\ (Dispatch!Busy(m) \/ Dispatch!Live(m)) =>
                m \in slipped[job[1]]

\* An agent without rows of work has nothing in the runtime either.
LEMMA NoWorkIsClear ==
    ASSUME CInv, NEW m \in Messages, ~ HasWork(AgentOf[m])
    PROVE  ~ Dispatch!Busy(m) /\ ~ Dispatch!Live(m)
<1>1. ~ Dispatch!Busy(m) /\ ~ Dispatch!ActiveRun(m)
  BY DEF HasWork
<1>2. Dispatch!TypeOK /\ Dispatch!Sending /\ Dispatch!Evidence /\ Dispatch!Accepted
  BY DEF CInv, Dispatch!IInv, Dispatch!Evidence
<1> QED
  BY <1>1, <1>2, Dispatch!LiveIsHeld

\* The agent of a job drains.
LEMMA JobDrains ==
    ASSUME CInv, job # NULL
    PROVE  job[1] \in Agents /\ draining[job[1]]
BY Config!JobDrains, Config!JobParts DEF CInv, Config!Owned, Config!agent

\* While a drain lasts nobody who slipped through it is forgotten.
LEMMA SlippedStay ==
    ASSUME [Next]_vars, NEW a \in Agents, draining'[a]
    PROVE  slipped[a] \cup Claims(a) \subseteq slipped'[a]
<1>1. CASE UNCHANGED vars
  BY <1>1 DEF vars, dispatchVars, Claims
<1> QED
  BY <1>1, Noted DEF NoteClaims

\* A step of the dispatch: what it claims of a draining agent slips through,
\* and it sends what it holds.
LEMMA ExcludedDispatch ==
    ASSUME CInv, Excluded, DispatchStep
    PROVE  Excluded'
<1>1. UNCHANGED <<configVars, draining>>
  BY DEF DispatchStep, OfDispatch
<1> SUFFICES ASSUME job # NULL, NEW m \in Messages, AgentOf[m] = job[1],
                    Dispatch!Busy(m)' \/ Dispatch!Live(m)'
             PROVE  m \in slipped'[AgentOf[m]]
  BY <1>1 DEF Excluded, configVars
<1>2. AgentOf[m] \in Agents /\ draining'[AgentOf[m]]
  BY <1>1, JobDrains
<1>3. slipped[AgentOf[m]] \cup Claims(AgentOf[m]) \subseteq slipped'[AgentOf[m]]
  BY <1>2, SlippedStay DEF Next
<1>4. Dispatch!Next /\ Dispatch!TypeOK /\ Dispatch!Sending
  BY DispatchKeeps DEF CInv, Dispatch!IInv
<1>5. CASE Dispatch!Busy(m) \/ Dispatch!Live(m)
  BY <1>3, <1>5 DEF Excluded
<1>6. CASE ~ Dispatch!Busy(m) /\ Dispatch!Busy(m)'
  <2>1. Dispatch!ClaimLocked /\ m = current
    BY <1>4, <1>6, Dispatch!BusyStep
  <2>2. outbox[m] = "pending" /\ outbox'[m] = "dispatching"
    BY <1>4, <2>1 DEF Dispatch!ClaimLocked, Dispatch!TypeOK
  <2> QED
    BY <1>3, <2>2 DEF Claims
<1>7. CASE ~ Dispatch!Busy(m) /\ ~ Dispatch!Live(m) /\ Dispatch!Live(m)'
  <2>1. Dispatch!SendRun /\ m = current
    BY <1>4, <1>7, Dispatch!LiveStep
  <2> QED
    BY <1>4, <1>7, <2>1
       DEF Dispatch!SendRun, Dispatch!Sending, Dispatch!Working, Dispatch!Busy
<1> QED
  BY <1>5, <1>6, <1>7

\* The activator claims an agent without work.
LEMMA ExcludedConfig ==
    ASSUME CInv, Excluded, ConfigStep
    PROVE  Excluded'
<1>1. UNCHANGED dispatchVars /\ Config!Step /\ Config!TypeOK
  BY ConfigKeeps DEF ConfigStep, OfConfig, CInv, Config!Owned
<1>2. \A m \in Messages :
         /\ Dispatch!Busy(m)' <=> Dispatch!Busy(m)
         /\ Dispatch!Live(m)' <=> Dispatch!Live(m)
  BY <1>1 DEF dispatchVars, Dispatch!Busy, Dispatch!Live
<1>3. CASE job' = job /\ job # NULL
  <2>1. job[1] \in Agents /\ draining'[job[1]]
    <3>1. CInv'
      BY ConfigKeeps
    <3>2. /\ Config!TypeOK' /\ Config!DrainHasReason' /\ Config!Held'
      BY <3>1 DEF CInv, Config!Owned
    <3> QED
      BY <1>3, <3>2, JobDrains
         DEF Config!TypeOK, Config!DrainHasReason, Config!Held, Config!agent,
             Config!revision
  <2>2. slipped[job[1]] \subseteq slipped'[job[1]]
    BY <2>1, SlippedStay DEF Next
  <2> QED
    BY <1>2, <1>3, <2>2 DEF Excluded
<1>4. ASSUME NEW a \in Agents, NEW r \in Config!Revisions,
             Config!Claimable(a, r), job' = <<a, r>>
      PROVE  Excluded'
  <2>1. ~ HasWork(a)
    BY <1>4 DEF Config!Claimable
  <2>2. \A m \in Messages :
           AgentOf[m] = a => ~ Dispatch!Busy(m) /\ ~ Dispatch!Live(m)
    BY <2>1, NoWorkIsClear
  <2> QED
    BY <1>2, <1>4, <2>2 DEF Excluded
<1> QED
  BY <1>1, <1>3, <1>4, Config!JobTaken DEF Excluded

\* So it stays in every step.
LEMMA ExcludedStep ==
    ASSUME CInv, Excluded, [Next]_vars
    PROVE  Excluded'
<1>1. CASE Crash
  BY <1>1 DEF Crash, Config!Crash, Config!Rest, Excluded
<1>2. CASE UNCHANGED vars
  BY <1>2 DEF vars, dispatchVars, configVars, Excluded, Dispatch!Busy, Dispatch!Live
<1> QED
  BY <1>1, <1>2, ExcludedDispatch, ExcludedConfig DEF Next

\* Whatever crashes, is lost or comes late: the files of an agent never change
\* while one of its prompts is on its way to the runtime or executing there,
\* unless it is the one that was claimed during the drain.
THEOREM OnlySlippedDisturbedHolds == Spec => OnlySlippedDisturbed
<1> DEFINE Undisturbed ==
      \A m \in Messages :
          files'[AgentOf[m]] # files[AgentOf[m]] /\ Dispatch!Live(m) =>
             m \in slipped[AgentOf[m]]
<1>1. Init => Excluded
  BY DEF Init, Config!Init, Excluded
<1>2. CInv /\ Excluded /\ [Next]_vars => Excluded'
  BY ExcludedStep
<1>3. CInv /\ Excluded /\ [Next]_vars => [Undisturbed]_vars
  <2> SUFFICES ASSUME CInv, Excluded, [Next]_vars, NEW m \in Messages,
                      files'[AgentOf[m]] # files[AgentOf[m]], Dispatch!Live(m)
               PROVE  m \in slipped[AgentOf[m]]
    OBVIOUS
  <2>1. Config!Step
    BY ConfigKeeps, CrashKeeps DEF Next, DispatchStep, OfDispatch, configVars, vars
  <2>2. AgentOf[m] \in Agents
    BY DEF Dispatch!DispatchAssumption
  <2>3. Config!JobStep /\ AgentOf[m] = Config!agent
    BY <2>1, <2>2, Config!FilesStep DEF CInv, Config!Next
  <2>4. job # NULL
    BY <2>3, Config!JobFrame DEF CInv, Config!Owned
  <2> QED
    BY <2>3, <2>4 DEF Excluded, Config!agent
<1> QED
  BY <1>1, <1>2, <1>3, ComponentsKeep, PTL DEF Spec, OnlySlippedDisturbed

-----------------------------------------------------------------------------
(* The hole is closed from the stop of the runtime on, and what runs is what *)
(* was activated, when nobody starts or stops agents meanwhile.             *)

\* Without operators the composition keeps what is known of the processes.
LEMMA HostingComposed ==
    ASSUME Config!NoOperator
    PROVE  Spec => []Config!Hosting
<1>1. Init => Config!Hosting
  BY DEF Init, Config!Init, Config!Hosting, Config!Unattended,
         Config!RestingServes, Config!JobServes, Config!Remembers,
         Config!Serves, Config!Gone
<1>2. CInv /\ Config!Hosting /\ [Next]_vars => Config!Hosting'
  <2> SUFFICES ASSUME CInv, Config!Hosting, [Next]_vars PROVE Config!Hosting'
    OBVIOUS
  <2>1. CASE Config!Step
    BY <2>1, Config!HostingStep DEF CInv, Config!Next
  <2>2. CASE UNCHANGED <<configVars, draining>>
    BY <2>2, Config!OthersHosting
       DEF configVars, Config!revisionVars, Config!headVars, Config!hostVars,
           Config!opVars, Config!jobVars
  <2> QED
    BY <2>1, <2>2, ConfigKeeps, CrashKeeps DEF Next, DispatchStep, OfDispatch, vars
<1> QED
  BY <1>1, <1>2, ComponentsKeep, PTL DEF Spec

\* Whatever crashes, fails or exits: while nobody starts or stops agents, a
\* process that serves a released agent runs its effective revision, with the
\* dispatcher at work beside the activator.
THEOREM RuntimeRunsEffectiveHolds ==
    ASSUME Config!NoOperator
    PROVE  Spec => []RuntimeRunsEffective
<1>1. Config!Hosting => RuntimeRunsEffective
  BY DEF Config!Hosting, Config!RestingServes, Config!Resting, Config!Serves,
         RuntimeRunsEffective, Config!RuntimeRunsEffective
<1> QED
  BY <1>1, HostingComposed, PTL

\* With crashes and failing files and readiness only, a failed activation that
\* is about to release its agent has restored the files, and if it stopped a
\* process, one that was started from them answers.
THEOREM FailureRestoresHolds ==
    ASSUME Config!HostFaultsOnly
    PROVE  Spec => []FailureRestores
<1>1. Config!NoOperator
  BY DEF Config!HostFaultsOnly, Config!NoOperator
<1>2. CInv /\ Config!Restarted => FailureRestores
  BY DEF CInv, Config!Owned, Config!TypeOK, Config!Applied, Config!Restarted,
         FailureRestores, Config!FailureRestores
<1>3. Init => Config!Restarted
  BY DEF Init, Config!Init, Config!Restarted
<1>4. CInv /\ Config!Hosting /\ Config!Restarted /\ [Next]_vars => Config!Restarted'
  <2> SUFFICES ASSUME CInv, Config!Hosting, Config!Restarted, [Next]_vars
               PROVE  Config!Restarted'
    OBVIOUS
  <2>1. CASE Config!Step
    BY <2>1, Config!RestartedStep DEF CInv, Config!Next
  <2>2. CASE UNCHANGED <<configVars, draining>>
    BY <2>2 DEF configVars, Config!Restarted, Config!agent
  <2> QED
    BY <2>1, <2>2, ConfigKeeps, CrashKeeps DEF Next, DispatchStep, OfDispatch, vars
<1>5. Spec => []Config!Hosting
  BY <1>1, HostingComposed
<1> QED
  BY <1>2, <1>3, <1>4, <1>5, ComponentsKeep, PTL DEF Spec

\* The agent whose runtime the activator has stopped is not shown as running.
Stopped == step \in Changing => status[job[1]] # "running"

\* The activator alone makes it so again, when it is done.
LEMMA StoppedStep ==
    ASSUME Config!NoOperator, CInv, Config!Hosting, Stopped, [Next]_vars
    PROVE  Stopped'
<1> USE DEF Stopped, Changing, Config!hostVars, Config!jobVars
<1>1. CASE Config!JobStep
  <2>1. job' = job /\ job[1] \in Agents
    BY <1>1, Config!JobFrame, JobDrains DEF CInv, Config!Owned
  <2>2. status \in [Agents -> Config!Statuses]
    BY DEF CInv, Config!Owned, Config!TypeOK
  <2> USE <2>1, <2>2 DEF Config!agent, Config!SetStatus, Config!Conclude
  <2>3. CASE Config!Refuse \/ Config!Begin
    BY <2>3 DEF Config!Refuse, Config!Begin
  <2>4. CASE Config!StopOld \/ Config!StopOldUnrecorded
    BY <2>4 DEF Config!StopOld, Config!StopOldUnrecorded
  <2>5. CASE Config!StartWriting \/ Config!FinishWriting \/ Config!FailWriting
    BY <2>5 DEF Config!StartWriting, Config!FinishWriting, Config!FailWriting
  <2>6. CASE Config!StartAgain
    BY <2>6 DEF Config!StartAgain, Config!Launch, Config!AlreadyTracked
  <2>7. CASE Config!Ready \/ Config!NotReady \/ Config!StartUnrecorded
    BY <2>7 DEF Config!Ready, Config!NotReady, Config!StartUnrecorded,
           Config!BecomesReady, Config!StaysUnready, Config!StartFailed
  <2>8. CASE Config!Undo \/ Config!Restore \/ Config!RestoreFails
    BY <2>8 DEF Config!Undo, Config!Restore, Config!RestoreFails
  <2> QED
    BY <1>1, <2>3, <2>4, <2>5, <2>6, <2>7, <2>8 DEF Config!JobStep
<1>2. CASE Config!Activator /\ ~ Config!JobStep
  BY <1>2 DEF Config!Activator, Config!JobStep, Config!Claim, Config!ClaimUnread,
         Config!Finish, Config!FinishLost, Config!Rest
<1>3. CASE \E a \in Agents : Config!Api(a)
  BY <1>3 DEF Config!Api, Config!Create, Config!Validate, Config!Activate
<1>4. ASSUME NEW a \in Agents, Config!Lifecycle(a) PROVE Stopped'
  BY <1>4 DEF Config!Lifecycle, Config!Ask, Config!OperatorStop,
         Config!OperatorStart, Config!OperatorStarted, Config!Probe,
         Config!RecordProbe, Config!ProcessExits, Config!NoOperator,
         Config!Happens, Config!Hosting, Config!Unattended
<1>5. CASE Config!Crash
  BY <1>5 DEF Config!Crash, Config!Rest
<1>6. CASE UNCHANGED configVars
  BY <1>6 DEF configVars
<1> QED
  BY <1>1, <1>2, <1>3, <1>4, <1>5, <1>6, ConfigKeeps, CrashKeeps
     DEF Next, DispatchStep, OfDispatch, vars, Config!Step

\* Once the activator has stopped a runtime, or found it stopped, no prompt of
\* its agent is claimed or given a run row until the outcome is known.
THEOREM NoClaimDuringApplyHolds ==
    ASSUME Config!NoOperator
    PROVE  Spec => NoClaimDuringApply
<1> DEFINE Unclaimed ==
      \A m \in Messages :
          \/ outbox[m] = "pending" /\ outbox'[m] = "dispatching"
          \/ run[m] = "absent" /\ run'[m] = "pending"
          => ~ (job # NULL /\ job[1] = AgentOf[m] /\ step \in Changing)
<1>1. Init => Stopped
  BY DEF Init, Config!Init, Stopped, Changing
<1>2. CInv /\ Config!Hosting /\ Stopped /\ [Next]_vars => Stopped'
  BY StoppedStep
<1>3. CInv /\ Stopped /\ [Next]_vars => [Unclaimed]_vars
  <2> SUFFICES ASSUME CInv, Stopped, [Next]_vars, NEW m \in Messages,
                      \/ outbox[m] = "pending" /\ outbox'[m] = "dispatching"
                      \/ run[m] = "absent" /\ run'[m] = "pending"
               PROVE  status[AgentOf[m]] = "running"
    BY DEF Stopped
  <2>1. AgentOf[m] \in Agents
    BY DEF Dispatch!DispatchAssumption
  <2>2. CASE outbox[m] = "pending" /\ outbox'[m] = "dispatching"
    <3>1. m \in Claims(AgentOf[m])
      BY <2>2 DEF Claims
    <3>2. Dispatch!ClaimLocked /\ m = current
      BY <2>1, <3>1, ClaimsStep
    <3> QED
      BY <2>1, <3>2 DEF Dispatch!ClaimLocked
  <2>3. CASE run[m] = "absent" /\ run'[m] = "pending"
    <3>1. Dispatch!Next
      BY <2>3, DispatchKeeps, CrashKeeps
         DEF Next, ConfigStep, OfConfig, dispatchVars, vars
    <3>2. Dispatch!PrepareRun /\ m = current
      BY <2>3, <3>1, Dispatch!RowStep DEF CInv, Dispatch!IInv
    <3> QED
      BY <2>1, <3>2 DEF Dispatch!PrepareRun
  <2> QED
    BY <2>2, <2>3
<1> QED
  BY <1>1, <1>2, <1>3, HostingComposed, ComponentsKeep, PTL
     DEF Spec, NoClaimDuringApply
=============================================================================
