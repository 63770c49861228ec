----------------------------- MODULE AgentGate -----------------------------
(***************************************************************************)
(* The dispatcher and the activator of one Fleet process, on one database. *)
(*                                                                         *)
(* They meet in three places: the drain the activation sets and the claim  *)
(* reads, the outbox and run rows the dispatch writes and the activator's  *)
(* claim reads, and agents.status, which the activator's restart and the   *)
(* lifecycle operations write and a claim reads.                           *)
(***************************************************************************)
EXTENDS Integers

CONSTANTS
    Agents, Messages, AgentOf, NULL,    \* as in Dispatch
    MaxRevision, Mixed, Down,           \* as in ConfigRevisions
    DispatchFaults, ConfigFaults, MaxControls

VARIABLES
    \* the dispatch: see Dispatch
    begun, older, outbox, delivery, run, rid, replies, pc, current, follower,
    controls, hermes, inflight, posts,
    \* the revisions: see ConfigRevisions
    state, claimed, desired, effective, files, status, tracked, runtime, asked,
    seen, step, job, wasUp, backup, verdict,
    draining,   \* agent_config_heads.draining, shared
    slipped     \* history: prompts claimed while their agent drains, by agent,
                \* since that drain began

dispatchVars == <<begun, older, outbox, delivery, run, rid, replies, pc, current,
                  follower, controls, hermes, inflight, posts>>
configVars == <<state, claimed, desired, effective, files, status, tracked,
                runtime, asked, seen, step, job, wasUp, backup, verdict>>
vars == <<dispatchVars, configVars, draining, slipped>>

\* Each component comes with what is proved about it, for GateProofs to cite.
Dispatch == INSTANCE DispatchProofs WITH
    Faults <- DispatchFaults,
    agentUp <- [a \in Agents |-> status[a] = "running"]

\* What the activator's claim asks the dispatch tables.
HasWork(a) ==
    \E m \in Messages :
        AgentOf[m] = a /\ (Dispatch!Busy(m) \/ Dispatch!ActiveRun(m))

Config == INSTANCE ConfigProofs WITH
    Faults <- ConfigFaults,
    busy <- [a \in Agents |-> HasWork(a)]

ASSUME GateAssumption == Dispatch!DispatchAssumption /\ Config!ConfigAssumption

Init ==
    /\ status = [a \in Agents |-> "running"]
    /\ Dispatch!Init
    /\ Config!Init
    /\ slipped = [a \in Agents |-> {}]

\* The prompts of a that this step claims.
Claims(a) ==
    {m \in Messages :
        AgentOf[m] = a /\ outbox[m] = "pending" /\ outbox'[m] = "dispatching"}

NoteClaims ==
    slipped' = [a \in Agents |->
                  IF draining'[a] THEN slipped[a] \cup Claims(a) ELSE {}]

\* A step of the dispatch: the drain and the statuses are not its to change.
OfDispatch(action) == UNCHANGED <<configVars, draining>> /\ action /\ NoteClaims

DispatchStep ==
    OfDispatch(\/ Dispatch!Dispatcher
               \/ \E m \in Messages :
                     Dispatch!Follower(m) \/ Dispatch!Hermes(m) \/ Dispatch!Api(m))

\* The follower of m handles what the runtime reported; an approval event
\* need not come.
Handles(m) ==
    \/ Dispatch!SeeCancelled(m) \/ Dispatch!SeeFailed(m) \/ Dispatch!FailRun(m)
    \/ Dispatch!MirrorReply(m) \/ Dispatch!CompleteDelivery(m)
    \/ Dispatch!CompleteRun(m) \/ Dispatch!StreamEnds(m)
    \/ Dispatch!StreamBreaks(m) \/ Dispatch!BrokenDelivery(m)
    \/ Dispatch!BrokenRun(m)

\* A step of the configuration or lifecycle of an agent.
OfConfig(action) == UNCHANGED dispatchVars /\ action /\ NoteClaims

ConfigStep ==
    OfConfig(\/ Config!Activator
             \/ \E a \in Agents : Config!Api(a) \/ Config!Lifecycle(a))

\* One process runs both: they crash together.
Crash ==
    /\ UNCHANGED <<outbox, run>>
    /\ Config!Crash
    /\ Dispatch!Crash
    /\ NoteClaims

Next == DispatchStep \/ ConfigStep \/ Crash

Spec == Init /\ [][Next]_vars

\* Both tasks and the followers are loops that never stop while Fleet is up;
\* a claim meets a locked row only now and then, since a row lock lasts for
\* one transaction; the runtime answers requests and ends its runs.  Users and
\* operators may stop acting.
FairSpec ==
    /\ Spec
    /\ WF_vars(OfDispatch(Dispatch!Dispatcher))
    /\ SF_vars(OfDispatch(Dispatch!ClaimLocked))
    /\ WF_vars(OfConfig(Config!Activator))
    /\ \A m \in Messages :
          /\ WF_vars(OfDispatch(Dispatch!HermesAccepts(m) \/ Dispatch!HermesEnds(m)))
          /\ WF_vars(OfDispatch(Handles(m)))

-----------------------------------------------------------------------------
(* Where the drain does its work, and where it has its hole.               *)

\* The configuration of an agent never changes while one of its prompts is on
\* its way to the runtime or executing there (ADR 0012, line 19).  The claim of
\* a prompt can break this: it reads the drain as it was before its locks.
NoChangeBeneathRun ==
    [][\A m \in Messages :
          files'[AgentOf[m]] # files[AgentOf[m]] => ~ Dispatch!Live(m)]_vars

\* The hole is one prompt wide: while an agent drains, whatever crashes and
\* however long it takes, at most one of its prompts is still claimed, namely
\* the one the dispatcher had chosen when the drain began.
OneSlip == \A a \in Agents : \A m, n \in slipped[a] : m = n

\* And it is the only one: files never change beneath any other prompt.  A
\* prompt claimed before the drain is waited for until nothing of it is left,
\* on its way, executing or of unknown outcome.
OnlySlippedDisturbed ==
    [][\A m \in Messages :
          files'[AgentOf[m]] # files[AgentOf[m]] /\ Dispatch!Live(m) =>
             m \in slipped[AgentOf[m]]]_vars

\* From the stop of the old runtime until the outcome is known.
Changing ==
    {"writing", "verifying", "starting", "readying", "undoing", "restoring",
     "restarting", "rereadying"}

\* It closes when the activator stops the runtime: from then on no prompt of the
\* agent is claimed or given a run row, since both look at the status of the
\* agent under its row lock.  (One prepared before may still be sent.)
NoClaimDuringApply ==
    [][\A m \in Messages :
          \/ outbox[m] = "pending" /\ outbox'[m] = "dispatching"
          \/ run[m] = "absent" /\ run'[m] = "pending"
          => ~ (job # NULL /\ job[1] = AgentOf[m] /\ step \in Changing)]_vars

-----------------------------------------------------------------------------
(* What the activator keeps with the dispatcher's own work in its way.     *)

\* A process that serves a released agent was started from its effective
\* revision, not from an older or a half-written one.
RuntimeRunsEffective == Config!RuntimeRunsEffective

\* A failed activation that releases the agent has restored the files and, if
\* it stopped a runtime, started one from them.
FailureRestores == Config!FailureRestores

\* Nobody is left who would bring this prompt to an end: its outcome is unknown,
\* its claim was forgotten, or its run has no follower.
Orphaned(m) ==
    \/ outbox[m] = "uncertain"
    \/ outbox[m] = "dispatching" /\ current # m
    \/ Dispatch!ActiveRun(m) /\ follower[m] = "none" /\ current # m

OrphanOf(a) == \E m \in Messages : AgentOf[m] = a /\ Orphaned(m)

\* An activation ends although prompts keep being claimed until it begins,
\* unless Fleet lost it in a crash or a prompt of its agent was orphaned.
ActivationEnds ==
    \A a \in Agents, r \in Config!Revisions :
        state[a][r] = "activating" ~>
            state[a][r] # "activating" \/ Config!Lost(a, r) \/ OrphanOf(a)

\* When the agents are in the end left running and released, every prompt that was
\* stored has been sent and has finished, whatever was activated or crashed
\* before, unless a prompt of its agent was orphaned, which then holds the agent.
Settled(m) ==
    \/ outbox[m] = "absent"
    \/ run[m] \in Dispatch!TerminalStates
    \/ OrphanOf(AgentOf[m])

PromptsFinish ==
    <>[](\A a \in Agents : status[a] = "running" /\ ~ draining[a]) =>
        <>[](\A m \in Messages : Settled(m))
=============================================================================
