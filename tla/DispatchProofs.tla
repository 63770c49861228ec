--------------------------- MODULE DispatchProofs ---------------------------
(* Machine-checked safety of Dispatch, for every set of agents, prompts and *)
(* adversities.                                                             *)
EXTENDS Dispatch, TLAPS

USE DEF queueVars, dbVars, agentVars, taskVars, runtimeVars

-----------------------------------------------------------------------------
(* The inductive invariant, in named parts.                                *)

Working == pc \notin {"idle", "claiming"}

\* The dispatcher works on a row it holds 'dispatching', and on no other; a
\* prompt that was not claimed yet was not sent.
Sending ==
    /\ Working => outbox[current] = "dispatching"
    /\ pc \in {"claimed", "prepared"} => posts[current] = 0
    /\ \A m \in Messages :
          /\ outbox[m] # "failed"
          /\ outbox[m] \in {"absent", "pending"} => posts[m] = 0
          /\ posts[m] <= 1

\* Where a follower stands tells what the runtime reported.
Reported ==
    \A m \in Messages :
        /\ follower[m] \in {"mirrored", "answered"} => replies[m] = 1
        /\ follower[m] = "refused" => hermes[m] = "failed"
        /\ replies[m] = 1 => hermes[m] = "completed"
        /\ replies[m] <= 1
        /\ run[m] = "completed" => replies[m] = 1

\* What the outcome steps of the dispatcher have established.
Accepted ==
    /\ pc \in {"accepted", "recorded", "sent"} =>
          hermes[current] # "absent" /\ current \notin inflight
    /\ pc \in {"recorded", "sent"} => rid[current] /\ RowExists(current)
    /\ \A m \in Messages :
          /\ run[m] # "deleted"
          /\ Live(m) => posts[m] = 1
          /\ outbox[m] = "dispatched" =>
                /\ hermes[m] # "absent" /\ m \notin inflight
                /\ rid[m] /\ RowExists(m)

\* An agent has one busy row, and a prepared prompt no live rival.
Reserved ==
    /\ \A m \in Messages : \A n \in Peers(m) : Busy(m) /\ Busy(n) => m = n
    /\ pc = "prepared" =>
          \A n \in Peers(current) : n # current => ~ Live(n)

IInv ==
    /\ TypeOK /\ Sending /\ Reported /\ TerminalEvidence
    /\ Accepted /\ Reserved /\ CapacityOne
-----------------------------------------------------------------------------
(* Typing.                                                                  *)

\* Every step keeps the tables, the tasks and the runtime's state well typed.
LEMMA TypeStep == TypeOK /\ [Next]_vars => TypeOK'
<1> SUFFICES ASSUME TypeOK, [Next]_vars PROVE TypeOK'
  OBVIOUS
<1> USE DispatchAssumption DEF TypeOK, OutboxStates, DeliveryStates, RunStates,
        ActiveStates, TerminalStates, HermesStates, DispatcherSteps,
        FollowerSteps, ControlKinds
<1>1. CASE Dispatcher
  <2>1. ASSUME NEW m \in Messages, ClaimSnapshot(m) PROVE TypeOK'
    BY <2>1 DEF ClaimSnapshot
  <2>2. CASE ClaimLocked
    BY <2>2 DEF ClaimLocked
  <2>3. CASE ClaimSkipped \/ ClaimUnread \/ FinishLost
    BY <2>3 DEF ClaimSkipped, ClaimUnread, FinishLost, NextRound
  <2>4. CASE TargetUnread \/ PrepareRefused \/ RunNotAccepted \/ RecordFails
    BY <2>4 DEF TargetUnread, PrepareRefused, RunNotAccepted, RecordFails
  <2>5. CASE PrepareRun
    BY <2>5 DEF PrepareRun
  <2>6. CASE SendRun
    BY <2>6 DEF SendRun
  <2>7. CASE RunAccepted
    BY <2>7 DEF RunAccepted
  <2>8. CASE RecordRun
    BY <2>8 DEF RecordRun
  <2>9. CASE RecordDelivery
    BY <2>9 DEF RecordDelivery
  <2>10. CASE MarkUndelivered
    BY <2>10 DEF MarkUndelivered
  <2>11. CASE FinishDispatch
    BY <2>11 DEF FinishDispatch, NextRound
  <2> QED
    BY <1>1, <2>1, <2>2, <2>3, <2>4, <2>5, <2>6, <2>7, <2>8, <2>9, <2>10, <2>11
       DEF Dispatcher
<1>2. ASSUME NEW m \in Messages, Follower(m) PROVE TypeOK'
  <2> USE DEF FollowerGoes, WriteRun
  <2>1. CASE SeeApproval(m) \/ SeeCancelled(m)
    BY <2>1 DEF SeeApproval, SeeCancelled
  <2>2. CASE SeeFailed(m) \/ FailRun(m)
    BY <2>2 DEF SeeFailed, FailRun
  <2>3. CASE MirrorReply(m)
    BY <2>3 DEF MirrorReply
  <2>4. CASE CompleteDelivery(m) \/ CompleteRun(m)
    BY <2>4 DEF CompleteDelivery, CompleteRun
  <2>5. CASE StreamEnds(m) \/ StreamBreaks(m)
    BY <2>5 DEF StreamEnds, StreamBreaks
  <2>6. CASE BrokenDelivery(m) \/ BrokenRun(m)
    BY <2>6 DEF BrokenDelivery, BrokenRun
  <2> QED
    BY <1>2, <2>1, <2>2, <2>3, <2>4, <2>5, <2>6 DEF Follower
<1>3. ASSUME NEW m \in Messages, Hermes(m) PROVE TypeOK'
  BY <1>3 DEF Hermes, HermesAccepts, HermesDrops, HermesEnds
<1>4. ASSUME NEW m \in Messages, Api(m) PROVE TypeOK'
  <2>1. CASE BeginPrompt(m) \/ CommitPrompt(m)
    BY <2>1 DEF BeginPrompt, CommitPrompt
  <2>2. ASSUME NEW kind \in ControlKinds, PostControl(kind, m) PROVE TypeOK'
    BY <2>2 DEF PostControl
  <2>3. ASSUME NEW kind \in ControlKinds, RecordControl(kind, m) PROVE TypeOK'
    BY <2>3 DEF RecordControl, WriteRun
  <2> QED
    BY <1>4, <2>1, <2>2, <2>3 DEF Api
<1>5. CASE Surroundings
  <2>1. ASSUME NEW a \in Agents, LifecycleChange(a) \/ DrainChange(a)
        PROVE TypeOK'
    BY <2>1, ZenonT(40) DEF LifecycleChange, DrainChange
  <2>2. CASE Crash
    BY <2>2 DEF Crash, NextRound
  <2> QED
    BY <1>5, <2>1, <2>2 DEF Surroundings
<1>6. CASE UNCHANGED vars
  BY <1>6 DEF vars
<1> QED
  BY <1>1, <1>2, <1>3, <1>4, <1>5, <1>6 DEF Next

\* The tables hold well-typed rows in every reachable state.
THEOREM TypeCorrect == Spec => []TypeOK
<1>1. Init => TypeOK
  BY DispatchAssumption DEF Init, TypeOK, OutboxStates, DeliveryStates,
     RunStates, HermesStates, DispatcherSteps, FollowerSteps
<1> QED
  BY <1>1, TypeStep, PTL DEF Spec

-----------------------------------------------------------------------------
(* A prompt is sent once.                                                   *)

\* Only the dispatcher, its commit and a crash touch the queue; a claim finds
\* a pending row, so what it goes on to send was never sent before.
LEMMA SendingStep == TypeOK /\ Sending /\ [Next]_vars => Sending'
<1> SUFFICES ASSUME TypeOK, Sending, [Next]_vars PROVE Sending'
  OBVIOUS
<1> USE DEF TypeOK, Sending, Working
<1>1. CASE Dispatcher
  <2>1. ASSUME NEW m \in Messages, ClaimSnapshot(m) PROVE Sending'
    BY <2>1 DEF ClaimSnapshot
  <2>2. CASE ClaimLocked
    BY <2>2 DEF ClaimLocked
  <2>3. CASE ClaimSkipped \/ ClaimUnread \/ FinishLost
    BY <2>3 DEF ClaimSkipped, ClaimUnread, FinishLost, NextRound
  <2>4. CASE TargetUnread \/ PrepareRefused \/ RunNotAccepted \/ RecordFails
    BY <2>4 DEF TargetUnread, PrepareRefused, RunNotAccepted, RecordFails
  <2>5. CASE PrepareRun
    BY <2>5 DEF PrepareRun
  <2>6. CASE SendRun
    BY <2>6 DEF SendRun
  <2>7. CASE RunAccepted \/ RecordRun
    BY <2>7 DEF RunAccepted, RecordRun
  <2>8. CASE RecordDelivery \/ MarkUndelivered
    BY <2>8 DEF RecordDelivery, MarkUndelivered
  <2>9. CASE FinishDispatch
    BY <2>9 DEF FinishDispatch, NextRound
  <2> QED
    BY <1>1, <2>1, <2>2, <2>3, <2>4, <2>5, <2>6, <2>7, <2>8, <2>9
       DEF Dispatcher
<1>2. ASSUME NEW m \in Messages, Follower(m) PROVE Sending'
  BY <1>2 DEF Follower, SeeApproval, SeeCancelled, SeeFailed, FailRun,
     MirrorReply, CompleteDelivery, CompleteRun, StreamEnds, StreamBreaks,
     BrokenDelivery, BrokenRun
<1>3. ASSUME NEW m \in Messages, Hermes(m) PROVE Sending'
  BY <1>3 DEF Hermes, HermesAccepts, HermesDrops, HermesEnds
<1>4. ASSUME NEW m \in Messages, Api(m) PROVE Sending'
  BY <1>4, ZenonT(40) DEF Api, BeginPrompt, CommitPrompt, PostControl, RecordControl
<1>5. CASE Surroundings
  BY <1>5 DEF Surroundings, LifecycleChange, DrainChange, Crash, NextRound
<1>6. CASE UNCHANGED vars
  BY <1>6 DEF vars
<1> QED
  BY <1>1, <1>2, <1>3, <1>4, <1>5, <1>6 DEF Next

\* No timeout, crash, drain or lifecycle change makes the dispatcher send a
\* prompt to the runtime a second time.
THEOREM SentOnceHolds == Spec => []SentOnce
<1>1. Init => Sending
  BY DEF Init, Sending, Working
<1>2. Sending => SentOnce
  BY DEF Sending, SentOnce
<1> QED
  BY <1>1, <1>2, TypeCorrect, SendingStep, PTL DEF Spec

-----------------------------------------------------------------------------
(* Terminal states and the transcript rest on what the runtime reported.    *)

\* What the runtime may do in one step: a run it ended stays as it ended.
LEMMA RuntimeStep ==
    ASSUME TypeOK, [Next]_vars, NEW m \in Messages
    PROVE  \/ hermes'[m] = hermes[m]
           \/ hermes[m] = "absent" /\ m \in inflight /\ hermes'[m] = "active"
           \/ hermes[m] = "active" /\ hermes'[m] \in TerminalStates
<1> USE DEF TypeOK
<1>1. CASE Dispatcher
  BY <1>1 DEF Dispatcher, ClaimSnapshot, ClaimLocked, ClaimSkipped, ClaimUnread,
     TargetUnread, PrepareRun, PrepareRefused, SendRun, RunAccepted,
     RunNotAccepted, RecordRun, RecordDelivery, RecordFails, MarkUndelivered,
     FinishDispatch, FinishLost
<1>2. ASSUME NEW n \in Messages, Follower(n) PROVE hermes' = hermes
  BY <1>2 DEF Follower, SeeApproval, SeeCancelled, SeeFailed, FailRun,
     MirrorReply, CompleteDelivery, CompleteRun, StreamEnds, StreamBreaks,
     BrokenDelivery, BrokenRun
<1>3. CASE \E n \in Messages : Hermes(n)
  BY <1>3 DEF Hermes, HermesAccepts, HermesDrops, HermesEnds
<1>4. ASSUME NEW n \in Messages, Api(n) PROVE hermes' = hermes
  BY <1>4 DEF Api, BeginPrompt, CommitPrompt, PostControl, RecordControl
<1>5. CASE Surroundings
  BY <1>5 DEF Surroundings, LifecycleChange, DrainChange, Crash
<1>6. CASE UNCHANGED vars
  BY <1>6 DEF vars
<1> QED
  BY <1>1, <1>2, <1>3, <1>4, <1>5, <1>6 DEF Next

Evidence == Reported /\ TerminalEvidence

\* A step writes a terminal state, and inserts a reply, only from a follower
\* that has the runtime's word for it.
LEMMA EvidenceStep == TypeOK /\ Evidence /\ [Next]_vars => Evidence'
<1> SUFFICES ASSUME TypeOK, Evidence, [Next]_vars PROVE Evidence'
  OBVIOUS
<1> USE DEF TypeOK, Evidence, Reported, TerminalEvidence, TerminalStates
<1>1. CASE Dispatcher
  <2>1. CASE PrepareRun
    BY <2>1 DEF PrepareRun
  <2>2. CASE RecordRun
    BY <2>2 DEF RecordRun
  <2>3. CASE RecordDelivery
    BY <2>3 DEF RecordDelivery
  <2>4. CASE \/ \E m \in Messages : ClaimSnapshot(m)
             \/ ClaimLocked \/ ClaimSkipped \/ ClaimUnread \/ TargetUnread
             \/ PrepareRefused \/ SendRun \/ RunAccepted \/ RunNotAccepted
             \/ RecordFails \/ MarkUndelivered \/ FinishDispatch \/ FinishLost
    BY <2>4 DEF ClaimSnapshot, ClaimLocked, ClaimSkipped, ClaimUnread,
       TargetUnread, PrepareRefused, SendRun, RunAccepted, RunNotAccepted,
       RecordFails, MarkUndelivered, FinishDispatch, FinishLost
  <2> QED
    BY <1>1, <2>1, <2>2, <2>3, <2>4 DEF Dispatcher
<1>2. ASSUME NEW m \in Messages, Follower(m) PROVE Evidence'
  <2> USE DEF FollowerGoes, WriteRun
  <2>1. CASE SeeApproval(m)
    BY <2>1 DEF SeeApproval
  <2>2. CASE SeeCancelled(m)
    BY <2>2 DEF SeeCancelled
  <2>3. CASE SeeFailed(m)
    BY <2>3 DEF SeeFailed
  <2>4. CASE FailRun(m)
    BY <2>4 DEF FailRun
  <2>5. CASE MirrorReply(m)
    BY <2>5 DEF MirrorReply
  <2>6. CASE CompleteDelivery(m)
    BY <2>6 DEF CompleteDelivery
  <2>7. CASE CompleteRun(m)
    BY <2>7 DEF CompleteRun
  <2>8. CASE StreamEnds(m) \/ StreamBreaks(m)
    BY <2>8 DEF StreamEnds, StreamBreaks
  <2>9. CASE BrokenDelivery(m) \/ BrokenRun(m)
    BY <2>9 DEF BrokenDelivery, BrokenRun
  <2> QED
    BY <1>2, <2>1, <2>2, <2>3, <2>4, <2>5, <2>6, <2>7, <2>8, <2>9 DEF Follower
<1>3. ASSUME NEW m \in Messages, Hermes(m) PROVE Evidence'
  BY <1>3, RuntimeStep DEF Hermes, HermesAccepts, HermesDrops, HermesEnds
<1>4. ASSUME NEW m \in Messages, Api(m) PROVE Evidence'
  <2>1. CASE BeginPrompt(m) \/ CommitPrompt(m)
    BY <2>1 DEF BeginPrompt, CommitPrompt
  <2>2. ASSUME NEW kind \in ControlKinds, PostControl(kind, m) PROVE Evidence'
    BY <2>2 DEF PostControl
  <2>3. ASSUME NEW kind \in ControlKinds, RecordControl(kind, m)
        PROVE Evidence'
    BY <2>3 DEF RecordControl, WriteRun
  <2> QED
    BY <1>4, <2>1, <2>2, <2>3 DEF Api
<1>5. CASE Surroundings
  BY <1>5 DEF Surroundings, LifecycleChange, DrainChange, Crash
<1>6. CASE UNCHANGED vars
  BY <1>6 DEF vars
<1> QED
  BY <1>1, <1>2, <1>3, <1>4, <1>5, <1>6 DEF Next

\* What the follower and the row say of a run is what the runtime reported.
LEMMA EvidenceInvariant == Spec => []Evidence
<1>1. Init => Evidence
  BY DEF Init, Evidence, Reported, TerminalEvidence, TerminalStates
<1> QED
  BY <1>1, TypeCorrect, EvidenceStep, PTL DEF Spec

\* A run row claims completed, failed or cancelled only when the runtime
\* reached that very state.
THEOREM TerminalEvidenceHolds == Spec => []TerminalEvidence
BY EvidenceInvariant, PTL DEF Evidence

\* The transcript holds at most one answer, never before the runtime
\* completed, always when the run row says completed.
THEOREM AnswerOnceHolds == Spec => []AnswerOnce
<1>1. Evidence => AnswerOnce
  BY DEF Evidence, Reported, AnswerOnce
<1> QED
  BY <1>1, EvidenceInvariant, PTL

-----------------------------------------------------------------------------
(* Acceptance.                                                              *)

\* A prompt that is under way was sent; one that is recorded as accepted has
\* left the wire and keeps its run row.
LEMMA AcceptedStep ==
    TypeOK /\ Sending /\ Evidence /\ Accepted /\ [Next]_vars => Accepted'
<1> SUFFICES ASSUME TypeOK, Sending, Evidence, Accepted, [Next]_vars
             PROVE  Accepted'
  OBVIOUS
<1> USE DEF TypeOK, Sending, Working, Accepted, Live, RowExists
<1>1. CASE Dispatcher
  <2>1. ASSUME NEW m \in Messages, ClaimSnapshot(m) PROVE Accepted'
    BY <2>1 DEF ClaimSnapshot
  <2>2. CASE ClaimLocked
    BY <2>2 DEF ClaimLocked
  <2>3. CASE ClaimSkipped \/ ClaimUnread \/ FinishLost
    BY <2>3 DEF ClaimSkipped, ClaimUnread, FinishLost, NextRound
  <2>4. CASE TargetUnread \/ PrepareRefused \/ RunNotAccepted \/ RecordFails
    BY <2>4 DEF TargetUnread, PrepareRefused, RunNotAccepted, RecordFails
  <2>5. CASE PrepareRun
    BY <2>5 DEF PrepareRun
  <2>6. CASE SendRun
    BY <2>6 DEF SendRun
  <2>7. CASE RunAccepted
    BY <2>7 DEF RunAccepted
  <2>8. CASE RecordRun
    BY <2>8 DEF RecordRun
  <2>9. CASE RecordDelivery \/ MarkUndelivered
    BY <2>9 DEF RecordDelivery, MarkUndelivered
  <2>10. CASE FinishDispatch
    BY <2>10 DEF FinishDispatch, NextRound
  <2> QED
    BY <1>1, <2>1, <2>2, <2>3, <2>4, <2>5, <2>6, <2>7, <2>8, <2>9, <2>10
       DEF Dispatcher
<1>2. ASSUME NEW m \in Messages, Follower(m) PROVE Accepted'
  <2> USE DEF FollowerGoes, WriteRun
  <2>1. CASE SeeApproval(m) \/ SeeCancelled(m) \/ FailRun(m) \/ CompleteRun(m)
    BY <2>1 DEF SeeApproval, SeeCancelled, FailRun, CompleteRun
  <2>2. CASE SeeFailed(m) \/ MirrorReply(m) \/ CompleteDelivery(m)
    BY <2>2 DEF SeeFailed, MirrorReply, CompleteDelivery
  <2>3. CASE StreamEnds(m) \/ StreamBreaks(m) \/ BrokenDelivery(m)
    BY <2>3 DEF StreamEnds, StreamBreaks, BrokenDelivery
  <2>4. CASE BrokenRun(m)
    BY <2>4 DEF BrokenRun
  <2> QED
    BY <1>2, <2>1, <2>2, <2>3, <2>4 DEF Follower
<1>3. ASSUME NEW m \in Messages, Hermes(m) PROVE Accepted'
  BY <1>3 DEF Hermes, HermesAccepts, HermesDrops, HermesEnds, TerminalStates
<1>4. ASSUME NEW m \in Messages, Api(m) PROVE Accepted'
  <2>1. CASE BeginPrompt(m) \/ CommitPrompt(m)
    BY <2>1 DEF BeginPrompt, CommitPrompt
  <2>2. ASSUME NEW kind \in ControlKinds, PostControl(kind, m) PROVE Accepted'
    BY <2>2 DEF PostControl
  <2>3. ASSUME NEW kind \in ControlKinds, RecordControl(kind, m)
        PROVE Accepted'
    BY <2>3 DEF RecordControl, WriteRun
  <2> QED
    BY <1>4, <2>1, <2>2, <2>3 DEF Api
<1>5. CASE Surroundings
  BY <1>5 DEF Surroundings, LifecycleChange, DrainChange, Crash, NextRound
<1>6. CASE UNCHANGED vars
  BY <1>6 DEF vars
<1> QED
  BY <1>1, <1>2, <1>3, <1>4, <1>5, <1>6 DEF Next

\* What the outcome steps established of the outbox row lasts.
LEMMA AcceptedInvariant == Spec => []Accepted
<1>1. Init => Accepted
  BY DEF Init, Accepted, Live, RowExists
<1>2. Init => Sending
  BY DEF Init, Sending, Working
<1> QED
  BY <1>1, <1>2, TypeCorrect, SendingStep, EvidenceInvariant, AcceptedStep, PTL
     DEF Spec

\* An outbox row says 'dispatched' only for a prompt the runtime accepted and
\* whose run id Fleet recorded.
THEOREM DispatchedWasAcceptedHolds == Spec => []DispatchedWasAccepted
<1>1. Accepted => DispatchedWasAccepted
  BY DEF Accepted, DispatchedWasAccepted
<1> QED
  BY <1>1, AcceptedInvariant, PTL

-----------------------------------------------------------------------------
(* Capacity.                                                                *)

\* Whatever is on its way to the runtime, or runs there, is visible in the
\* tables: its outbox row is busy or its run row is active.
LEMMA LiveIsHeld ==
    ASSUME TypeOK, Sending, Evidence, Accepted,
           NEW m \in Messages, Live(m)
    PROVE  Busy(m) \/ ActiveRun(m)
<1>1. outbox[m] \notin {"absent", "pending", "failed"}
  BY DEF Sending, Accepted
<1>2. CASE outbox[m] = "dispatched"
  <2>1. hermes[m] = "active" /\ RowExists(m) /\ run[m] # "deleted"
    BY <1>2 DEF Accepted, Live
  <2>2. run[m] \notin TerminalStates
    BY <2>1 DEF Evidence, TerminalEvidence, TerminalStates
  <2> QED
    BY <2>1, <2>2 DEF TypeOK, RunStates, RowExists, ActiveRun
<1> QED
  BY <1>1, <1>2 DEF TypeOK, OutboxStates, Busy

\* Only sending a prompt makes it live.
LEMMA LiveStep ==
    ASSUME TypeOK, [Next]_vars, NEW m \in Messages, Live(m)', ~ Live(m)
    PROVE  SendRun /\ m = current
<1> USE DEF TypeOK, Live
<1>1. CASE SendRun
  BY <1>1 DEF SendRun
<1>2. CASE Dispatcher /\ ~ SendRun
  BY <1>2 DEF Dispatcher, ClaimSnapshot, ClaimLocked, ClaimSkipped, ClaimUnread,
     TargetUnread, PrepareRun, PrepareRefused, RunAccepted, RunNotAccepted,
     RecordRun, RecordDelivery, RecordFails, MarkUndelivered, FinishDispatch,
     FinishLost
<1>3. CASE \E n \in Messages : Follower(n)
  BY <1>3 DEF Follower, SeeApproval, SeeCancelled, SeeFailed, FailRun,
     MirrorReply, CompleteDelivery, CompleteRun, StreamEnds, StreamBreaks,
     BrokenDelivery, BrokenRun
<1>4. CASE \E n \in Messages : Hermes(n)
  BY <1>4 DEF Hermes, HermesAccepts, HermesDrops, HermesEnds, TerminalStates
<1>5. CASE \E n \in Messages : Api(n)
  BY <1>5 DEF Api, BeginPrompt, CommitPrompt, PostControl, RecordControl
<1>6. CASE Surroundings
  BY <1>6 DEF Surroundings, LifecycleChange, DrainChange, Crash
<1>7. CASE UNCHANGED vars
  BY <1>7 DEF vars
<1> QED
  BY <1>1, <1>2, <1>3, <1>4, <1>5, <1>6, <1>7 DEF Next

\* Only a claim makes a row busy, and only when no peer is.
LEMMA BusyStep ==
    ASSUME TypeOK, [Next]_vars, NEW m \in Messages, Busy(m)', ~ Busy(m)
    PROVE  /\ ClaimLocked /\ m = current
           /\ \A n \in Peers(m) : ~ Busy(n)
           /\ \A n \in Messages \ {m} : Busy(n)' <=> Busy(n)
<1> USE DEF TypeOK, Busy
<1>1. CASE ClaimLocked
  BY <1>1 DEF ClaimLocked
<1>2. CASE FinishDispatch
  BY <1>2 DEF FinishDispatch
<1>3. CASE Dispatcher /\ ~ ClaimLocked /\ ~ FinishDispatch
  BY <1>3 DEF Dispatcher, ClaimSnapshot, ClaimSkipped, ClaimUnread,
     TargetUnread, PrepareRun, PrepareRefused, SendRun, RunAccepted,
     RunNotAccepted, RecordRun, RecordDelivery, RecordFails, MarkUndelivered,
     FinishLost
<1>4. CASE \E n \in Messages : Follower(n)
  BY <1>4 DEF Follower, SeeApproval, SeeCancelled, SeeFailed, FailRun,
     MirrorReply, CompleteDelivery, CompleteRun, StreamEnds, StreamBreaks,
     BrokenDelivery, BrokenRun
<1>5. CASE \E n \in Messages : Hermes(n)
  BY <1>5 DEF Hermes, HermesAccepts, HermesDrops, HermesEnds
<1>6. CASE \E n \in Messages : Api(n)
  BY <1>6 DEF Api, BeginPrompt, CommitPrompt, PostControl, RecordControl
<1>7. CASE Surroundings
  BY <1>7 DEF Surroundings, LifecycleChange, DrainChange, Crash
<1>8. CASE UNCHANGED vars
  BY <1>8 DEF vars
<1> QED
  BY <1>1, <1>2, <1>3, <1>4, <1>5, <1>6, <1>7, <1>8 DEF Next

\* The dispatcher looks at a prompt only after it saw its agent released.
LEMMA ClaimBegins ==
    ASSUME TypeOK, [Next]_vars, pc' = "claiming"
    PROVE  \/ UNCHANGED <<pc, current>>
           \/ \E m \in Messages : ClaimSnapshot(m) /\ current' = m
<1> USE DEF TypeOK
<1>1. CASE Dispatcher
  BY <1>1 DEF Dispatcher, ClaimSnapshot, ClaimLocked, ClaimSkipped, ClaimUnread,
     TargetUnread, PrepareRun, PrepareRefused, SendRun, RunAccepted,
     RunNotAccepted, RecordRun, RecordDelivery, RecordFails, MarkUndelivered,
     FinishDispatch, FinishLost, NextRound
<1>2. CASE \E n \in Messages : Follower(n)
  BY <1>2 DEF Follower, SeeApproval, SeeCancelled, SeeFailed, FailRun,
     MirrorReply, CompleteDelivery, CompleteRun, StreamEnds, StreamBreaks,
     BrokenDelivery, BrokenRun
<1>3. CASE \E n \in Messages : Hermes(n) \/ Api(n)
  BY <1>3 DEF Hermes, HermesAccepts, HermesDrops, HermesEnds, Api, BeginPrompt,
     CommitPrompt, PostControl, RecordControl
<1>4. CASE Surroundings \/ UNCHANGED vars
  BY <1>4 DEF Surroundings, LifecycleChange, DrainChange, Crash, NextRound, vars
<1> QED
  BY <1>1, <1>2, <1>3, <1>4 DEF Next

\* A prompt gets its run row from the dispatcher that holds it, and from nobody
\* else.
LEMMA RowStep ==
    ASSUME TypeOK, [Next]_vars, NEW m \in Messages,
           run[m] = "absent", run'[m] = "pending"
    PROVE  PrepareRun /\ m = current
<1> USE DEF TypeOK
<1>1. CASE Dispatcher
  BY <1>1 DEF Dispatcher, ClaimSnapshot, ClaimLocked, ClaimSkipped, ClaimUnread,
     TargetUnread, PrepareRun, PrepareRefused, SendRun, RunAccepted,
     RunNotAccepted, RecordRun, RecordDelivery, RecordFails, MarkUndelivered,
     FinishDispatch, FinishLost
<1>2. CASE \E n \in Messages : Follower(n)
  BY <1>2 DEF Follower, SeeApproval, SeeCancelled, SeeFailed, FailRun,
     MirrorReply, CompleteDelivery, CompleteRun, StreamEnds, StreamBreaks,
     BrokenDelivery, BrokenRun, WriteRun, RowExists
<1>3. CASE \E n \in Messages : Hermes(n) \/ Api(n)
  BY <1>3 DEF Hermes, HermesAccepts, HermesDrops, HermesEnds, Api, BeginPrompt,
     CommitPrompt, PostControl, RecordControl, WriteRun, RowExists
<1>4. CASE Surroundings \/ UNCHANGED vars
  BY <1>4 DEF Surroundings, LifecycleChange, DrainChange, Crash, vars
<1> QED
  BY <1>1, <1>2, <1>3, <1>4 DEF Next

\* Only preparing a run takes the dispatcher to "prepared".
LEMMA PreparedStep ==
    ASSUME TypeOK, [Next]_vars, pc' = "prepared", pc # "prepared"
    PROVE  PrepareRun
<1>1. CASE Dispatcher
  BY <1>1 DEF Dispatcher, ClaimSnapshot, ClaimLocked, ClaimSkipped, ClaimUnread,
     TargetUnread, PrepareRefused, SendRun, RunAccepted, RunNotAccepted,
     RecordRun, RecordDelivery, RecordFails, MarkUndelivered, FinishDispatch,
     FinishLost, NextRound
<1>2. CASE \E n \in Messages : Follower(n)
  BY <1>2 DEF Follower, SeeApproval, SeeCancelled, SeeFailed, FailRun,
     MirrorReply, CompleteDelivery, CompleteRun, StreamEnds, StreamBreaks,
     BrokenDelivery, BrokenRun
<1>3. CASE \E n \in Messages : Hermes(n) \/ Api(n)
  BY <1>3 DEF Hermes, HermesAccepts, HermesDrops, HermesEnds,
     Api, BeginPrompt, CommitPrompt, PostControl, RecordControl
<1>4. CASE Surroundings \/ UNCHANGED vars
  BY <1>4 DEF Surroundings, LifecycleChange, DrainChange, Crash, NextRound, vars
<1> QED
  BY <1>1, <1>2, <1>3, <1>4 DEF Next

\* The dispatcher stays with its message while it is prepared.
LEMMA CurrentStep ==
    ASSUME TypeOK, [Next]_vars, pc = "prepared", pc' = "prepared"
    PROVE  current' = current
<1>1. CASE Dispatcher
  BY <1>1 DEF Dispatcher, ClaimSnapshot, ClaimLocked, ClaimSkipped, ClaimUnread,
     TargetUnread, PrepareRun, PrepareRefused, SendRun, RunAccepted,
     RunNotAccepted, RecordRun, RecordDelivery, RecordFails, MarkUndelivered,
     FinishDispatch, FinishLost, NextRound
<1>2. CASE \E n \in Messages : Follower(n)
  BY <1>2 DEF Follower, SeeApproval, SeeCancelled, SeeFailed, FailRun,
     MirrorReply, CompleteDelivery, CompleteRun, StreamEnds, StreamBreaks,
     BrokenDelivery, BrokenRun
<1>3. CASE \E n \in Messages : Hermes(n) \/ Api(n)
  BY <1>3 DEF Hermes, HermesAccepts, HermesDrops, HermesEnds,
     Api, BeginPrompt, CommitPrompt, PostControl, RecordControl
<1>4. CASE Surroundings \/ UNCHANGED vars
  BY <1>4 DEF Surroundings, LifecycleChange, DrainChange, Crash, NextRound, vars
<1> QED
  BY <1>1, <1>2, <1>3, <1>4 DEF Next

\* Nobody else of the agent becomes busy or live while a prompt is prepared.
LEMMA ReservedStep ==
    /\ TypeOK /\ Sending /\ Evidence /\ Accepted /\ Reserved /\ [Next]_vars
    /\ Sending'
    => Reserved'
<1> SUFFICES ASSUME TypeOK, Sending, Evidence, Accepted, Reserved,
                    [Next]_vars, Sending'
             PROVE  Reserved'
  OBVIOUS
<1>1. ASSUME NEW m \in Messages, NEW n \in Peers(m), Busy(m)', Busy(n)', m # n
      PROVE  FALSE
  <2>1. n \in Messages /\ m \in Peers(n)
    BY <1>1 DEF Peers
  <2>2. CASE Busy(m) /\ Busy(n)
    BY <1>1, <2>2 DEF Reserved
  <2>3. CASE ~ Busy(m)
    BY <1>1, <2>1, <2>3, BusyStep
  <2>4. CASE ~ Busy(n)
    BY <1>1, <2>1, <2>4, BusyStep
  <2> QED
    BY <2>2, <2>3, <2>4
<1>2. ASSUME pc' = "prepared", NEW n \in Peers(current'), n # current'
      PROVE  ~ Live(n)'
  <2>1. CASE pc = "prepared"
    <3>1. current' = current
      BY <1>2, <2>1, CurrentStep
    <3>2. ~ Live(n)
      BY <1>2, <2>1, <3>1 DEF Reserved
    <3>3. ~ SendRun
      BY <1>2 DEF SendRun
    <3> QED
      BY <1>2, <3>2, <3>3, LiveStep DEF Peers
  <2>2. CASE pc # "prepared"
    <3>1. PrepareRun
      BY <1>2, <2>2, PreparedStep
    <3>2. current' = current /\ current \in Messages /\ n \in Messages
      BY <1>2, <3>1 DEF PrepareRun, Peers, TypeOK
    <3>3. Busy(current) /\ ~ ActiveRun(n)
      BY <1>2, <3>1, <3>2 DEF PrepareRun, Sending, Working, Busy
    <3>4. ~ Busy(n)
      BY <1>2, <3>2, <3>3 DEF Reserved
    <3>5. ~ Live(n)
      BY <3>2, <3>3, <3>4, LiveIsHeld
    <3> QED
      BY <3>1, <3>5 DEF PrepareRun, Live
  <2> QED
    BY <2>1, <2>2
<1> QED
  BY <1>1, <1>2 DEF Reserved, Peers

\* A send is harmless because its prompt has no live rival.
LEMMA CapacityStep ==
    TypeOK /\ Reserved /\ CapacityOne /\ [Next]_vars => CapacityOne'
<1> SUFFICES ASSUME TypeOK, Reserved, CapacityOne, [Next]_vars,
                    NEW m \in Messages, NEW n \in Peers(m),
                    Live(m)', Live(n)', m # n
             PROVE  FALSE
  BY DEF CapacityOne, Peers
<1>1. n \in Messages /\ m \in Peers(n)
  BY DEF Peers
<1>2. CASE Live(m) /\ Live(n)
  BY <1>2 DEF CapacityOne
<1>3. CASE ~ Live(m)
  <2>1. SendRun /\ m = current
    BY <1>3, LiveStep
  <2>2. ~ Live(n)
    BY <2>1 DEF SendRun, Reserved
  <2> QED
    BY <1>1, <2>1, <2>2, LiveStep
<1>4. CASE ~ Live(n)
  <2>1. SendRun /\ n = current
    BY <1>1, <1>4, LiveStep
  <2>2. ~ Live(m)
    BY <1>1, <2>1 DEF SendRun, Reserved
  <2> QED
    BY <2>1, <2>2, LiveStep
<1> QED
  BY <1>2, <1>3, <1>4

\* No prompt has been stored yet.
LEMMA InitIInv == Init => IInv
<1>1. Init => TypeOK
  BY DispatchAssumption DEF Init, TypeOK, OutboxStates, DeliveryStates,
     RunStates, HermesStates, DispatcherSteps, FollowerSteps
<1>2. Init => Sending /\ Reported /\ TerminalEvidence /\ Accepted
  BY DEF Init, Sending, Working, Reported, TerminalEvidence, TerminalStates,
     Accepted, Live, RowExists
<1>3. Init => Reserved /\ CapacityOne
  BY DEF Init, Reserved, CapacityOne, Busy, Live, Peers
<1> QED
  BY <1>1, <1>2, <1>3 DEF IInv

\* Each conjunct is kept by the conjuncts before it.
LEMMA IInvStep == ASSUME IInv, [Next]_vars PROVE IInv'
<1>1. TypeOK /\ Sending /\ Evidence /\ Accepted /\ Reserved /\ CapacityOne
  BY DEF IInv, Evidence
<1>2. TypeOK' /\ Sending' /\ Evidence'
  BY <1>1, TypeStep, SendingStep, EvidenceStep
<1>3. Accepted' /\ Reserved' /\ CapacityOne'
  BY <1>1, <1>2, AcceptedStep, ReservedStep, CapacityStep
<1> QED
  BY <1>2, <1>3 DEF IInv, Evidence

\* The status and the drain of the agents may change freely.
LEMMA AgentsChange ==
    ASSUME IInv, agentUp' \in [Agents -> BOOLEAN], draining' \in [Agents -> BOOLEAN],
           UNCHANGED <<queueVars, dbVars, taskVars, follower, controls, runtimeVars>>
    PROVE  IInv'
BY DEF IInv, TypeOK, Sending, Working, Reported, TerminalEvidence, Accepted,
   Reserved, CapacityOne, Busy, Live, Peers, RowExists

\* The whole strengthening holds in every reachable state.
THEOREM Inductive == Spec => []IInv
BY InitIInv, IInvStep, PTL DEF Spec

\* An agent never executes, nor is about to receive, two runs at once.
THEOREM CapacityOneHolds == Spec => []CapacityOne
BY Inductive, PTL DEF IInv

\* A claim whose outcome is unknown holds its agent: no step releases it and
\* no step sends another prompt of that agent.
THEOREM UnknownHoldsAgentHolds == Spec => UnknownHoldsAgent
<1> DEFINE Holds ==
      \A m \in Messages :
          /\ outbox[m] = "uncertain" => outbox'[m] = "uncertain"
          /\ outbox[m] \in {"dispatching", "uncertain"} =>
                \A n \in Peers(m) \ {m} : posts'[n] = posts[n]
<1>1. IInv /\ [Next]_vars => [Holds]_vars
  <2> SUFFICES ASSUME IInv, [Next]_vars, NEW m \in Messages
               PROVE  /\ outbox[m] = "uncertain" => outbox'[m] = "uncertain"
                      /\ outbox[m] \in {"dispatching", "uncertain"} =>
                            \A n \in Peers(m) \ {m} : posts'[n] = posts[n]
    OBVIOUS
  <2> USE DEF IInv, TypeOK
  <2>1. CASE SendRun
    <3>1. current \in Messages /\ Busy(current) /\ outbox' = outbox
      BY <2>1 DEF SendRun, Sending, Working, Busy
    <3>2. \A n \in Peers(m) \ {m} : Busy(m) => n # current
      BY <3>1 DEF Reserved
    <3>3. \A n \in Peers(m) \ {m} : n # current => posts'[n] = posts[n]
      BY <2>1 DEF SendRun, Peers
    <3> QED
      BY <3>1, <3>2, <3>3 DEF Busy
  <2>2. CASE Dispatcher /\ ~ SendRun
    BY <2>2 DEF Dispatcher, ClaimSnapshot, ClaimLocked, ClaimSkipped,
       ClaimUnread, TargetUnread, PrepareRun, PrepareRefused, RunAccepted,
       RunNotAccepted, RecordRun, RecordDelivery, RecordFails, MarkUndelivered,
       FinishDispatch, FinishLost
  <2>3. CASE \E n \in Messages : Follower(n)
    BY <2>3 DEF Follower, SeeApproval, SeeCancelled, SeeFailed, FailRun,
       MirrorReply, CompleteDelivery, CompleteRun, StreamEnds, StreamBreaks,
       BrokenDelivery, BrokenRun
  <2>4. CASE \E n \in Messages : Hermes(n)
    BY <2>4 DEF Hermes, HermesAccepts, HermesDrops, HermesEnds
  <2>5. CASE \E n \in Messages : Api(n)
    BY <2>5 DEF Api, BeginPrompt, CommitPrompt, PostControl, RecordControl
  <2>6. CASE Surroundings \/ UNCHANGED vars
    BY <2>6 DEF Surroundings, LifecycleChange, DrainChange, Crash, vars
  <2> QED
    BY <2>1, <2>2, <2>3, <2>4, <2>5, <2>6 DEF Next
<1> QED
  BY <1>1, Inductive, PTL DEF Spec, UnknownHoldsAgent

-----------------------------------------------------------------------------
(* When a terminal state is final.                                          *)

\* No stream breaks, no database call fails and nobody controls a run: nothing
\* is left that writes a run row late.
NoLateWrites == Faults \cap {"network", "database", "control"} = {}

Opening == {"claimed", "prepared", "posting", "accepted", "recorded"}

\* The row of the prompt that the dispatcher opens is not terminal and nobody
\* follows it yet; no follower gives up; a followed or ended run was claimed.
Closing ==
    /\ controls = {}
    /\ pc \in Opening =>
          follower[current] = "none" /\ run[current] \notin TerminalStates
    /\ \A m \in Messages :
          /\ follower[m] \notin {"broken", "giving_up"}
          /\ follower[m] # "none" =>
                RowExists(m) /\ outbox[m] \notin {"absent", "pending"}
          /\ run[m] \in TerminalStates => outbox[m] \notin {"absent", "pending"}

\* The follower of a prompt moves on with the runtime's word, and a row that
\* follows it stays.
LEMMA ClosingStep ==
    ASSUME NoLateWrites, IInv, Closing, [Next]_vars
    PROVE  Closing'
<1> USE DEF IInv, TypeOK, Closing, Opening, RowExists, Happens, NoLateWrites
<1>1. CASE Dispatcher
  <2>1. ASSUME NEW m \in Messages, ClaimSnapshot(m) PROVE Closing'
    BY <2>1 DEF ClaimSnapshot
  <2>2. CASE ClaimLocked
    BY <2>2 DEF ClaimLocked
  <2>3. CASE ClaimSkipped \/ ClaimUnread \/ FinishLost
    BY <2>3 DEF ClaimSkipped, ClaimUnread, FinishLost, NextRound
  <2>4. CASE TargetUnread \/ PrepareRefused \/ RunNotAccepted \/ RecordFails
    BY <2>4 DEF TargetUnread, PrepareRefused, RunNotAccepted, RecordFails
  <2>5. CASE PrepareRun
    BY <2>5 DEF PrepareRun, TerminalStates
  <2>6. CASE SendRun \/ RunAccepted
    BY <2>6 DEF SendRun, RunAccepted
  <2>7. CASE RecordRun
    BY <2>7 DEF RecordRun, TerminalStates
  <2>8. CASE RecordDelivery
    BY <2>8 DEF RecordDelivery, Accepted, Sending, Working
  <2>9. CASE MarkUndelivered
    BY <2>9 DEF MarkUndelivered
  <2>10. CASE FinishDispatch
    BY <2>10 DEF FinishDispatch, NextRound
  <2> QED
    BY <1>1, <2>1, <2>2, <2>3, <2>4, <2>5, <2>6, <2>7, <2>8, <2>9, <2>10
       DEF Dispatcher
<1>2. ASSUME NEW m \in Messages, Follower(m) PROVE Closing'
  <2> USE DEF FollowerGoes, WriteRun, TerminalStates, FollowerSteps
  <2>1. CASE SeeApproval(m)
    BY <2>1 DEF SeeApproval
  <2>2. CASE SeeCancelled(m) \/ FailRun(m) \/ CompleteRun(m)
    BY <2>2 DEF SeeCancelled, FailRun, CompleteRun
  <2>3. CASE SeeFailed(m) \/ MirrorReply(m) \/ CompleteDelivery(m)
    BY <2>3 DEF SeeFailed, MirrorReply, CompleteDelivery
  <2>4. CASE StreamEnds(m) \/ StreamBreaks(m)
    BY <2>4 DEF StreamEnds, StreamBreaks
  <2>5. CASE BrokenDelivery(m) \/ BrokenRun(m)
    BY <2>5 DEF BrokenDelivery, BrokenRun
  <2> QED
    BY <1>2, <2>1, <2>2, <2>3, <2>4, <2>5 DEF Follower
<1>3. ASSUME NEW m \in Messages, Hermes(m) PROVE Closing'
  BY <1>3 DEF Hermes, HermesAccepts, HermesDrops, HermesEnds
<1>4. ASSUME NEW m \in Messages, Api(m) PROVE Closing'
  BY <1>4 DEF Api, BeginPrompt, CommitPrompt, PostControl, RecordControl
<1>5. CASE Surroundings \/ UNCHANGED vars
  BY <1>5 DEF Surroundings, LifecycleChange, DrainChange, Crash, NextRound, vars
<1> QED
  BY <1>1, <1>2, <1>3, <1>4, <1>5 DEF Next

\* A write of a run row that is terminal repeats what it says.
LEMMA FinalStep ==
    ASSUME NoLateWrites, IInv, Closing, [Next]_vars,
           NEW m \in Messages, run[m] \in TerminalStates
    PROVE  run'[m] = run[m]
<1> USE DEF IInv, TypeOK, Closing, Opening
<1>1. hermes[m] = run[m]
  BY DEF TerminalEvidence
<1>2. CASE Dispatcher
  BY <1>2 DEF Dispatcher, ClaimSnapshot, ClaimLocked, ClaimSkipped, ClaimUnread,
     TargetUnread, PrepareRun, PrepareRefused, SendRun, RunAccepted,
     RunNotAccepted, RecordRun, RecordDelivery, RecordFails, MarkUndelivered,
     FinishDispatch, FinishLost
<1>3. ASSUME NEW n \in Messages, Follower(n) PROVE run'[m] = run[m]
  <2> USE DEF WriteRun, Reported, TerminalStates
  <2>1. CASE SeeApproval(n) \/ SeeCancelled(n)
    BY <1>1, <2>1 DEF SeeApproval, SeeCancelled
  <2>2. CASE FailRun(n) \/ CompleteRun(n)
    BY <1>1, <2>2 DEF FailRun, CompleteRun
  <2>3. CASE SeeFailed(n) \/ MirrorReply(n) \/ CompleteDelivery(n) \/ StreamEnds(n)
    BY <2>3 DEF SeeFailed, MirrorReply, CompleteDelivery, StreamEnds
  <2>4. CASE StreamBreaks(n) \/ BrokenDelivery(n) \/ BrokenRun(n)
    BY <2>4 DEF StreamBreaks, BrokenDelivery, BrokenRun
  <2> QED
    BY <1>3, <2>1, <2>2, <2>3, <2>4 DEF Follower
<1>4. CASE \E n \in Messages : Hermes(n) \/ Api(n)
  BY <1>4 DEF Hermes, HermesAccepts, HermesDrops, HermesEnds, Api, BeginPrompt,
     CommitPrompt, PostControl, RecordControl
<1>5. CASE Surroundings \/ UNCHANGED vars
  BY <1>5 DEF Surroundings, LifecycleChange, DrainChange, Crash, vars
<1> QED
  BY <1>2, <1>3, <1>4, <1>5 DEF Next

\* No prompt is under way at first.
LEMMA ClosingInit == Init => Closing
BY DEF Init, Closing, Opening, TerminalStates

\* Whatever crashes, drains or restarts: only a late control answer, a broken
\* stream or a failing database call can reopen a run that ended.
THEOREM TerminalIsFinalHolds ==
    ASSUME NoLateWrites
    PROVE  Spec => TerminalIsFinal
<1>1. Init => Closing
  BY ClosingInit
<1>2. IInv /\ Closing /\ [Next]_vars => Closing'
  BY ClosingStep
<1>3. IInv /\ Closing /\ [Next]_vars =>
         [\A m \in Messages : run[m] \in TerminalStates => run'[m] = run[m]]_vars
  BY FinalStep
<1> QED
  BY <1>1, <1>2, <1>3, Inductive, PTL DEF Spec, TerminalIsFinal

-----------------------------------------------------------------------------
(* Dispatch implements the abstract slots.                                  *)

\* Only sending a prompt and the runtime's own steps move a phase.
LEMMA FrameStep ==
    ASSUME [Next]_vars
    PROVE  \/ UNCHANGED <<hermes, inflight, posts>>
           \/ SendRun
           \/ \E m \in Messages : Hermes(m)
<1>1. CASE Dispatcher
  BY <1>1 DEF Dispatcher, ClaimSnapshot, ClaimLocked, ClaimSkipped, ClaimUnread,
     TargetUnread, PrepareRun, PrepareRefused, RunAccepted, RunNotAccepted,
     RecordRun, RecordDelivery, RecordFails, MarkUndelivered, FinishDispatch,
     FinishLost
<1>2. CASE \E n \in Messages : Follower(n)
  BY <1>2 DEF Follower, SeeApproval, SeeCancelled, SeeFailed, FailRun,
     MirrorReply, CompleteDelivery, CompleteRun, StreamEnds, StreamBreaks,
     BrokenDelivery, BrokenRun
<1>3. CASE \E n \in Messages : Api(n)
  BY <1>3 DEF Api, BeginPrompt, CommitPrompt, PostControl, RecordControl
<1>4. CASE Surroundings \/ UNCHANGED vars
  BY <1>4 DEF Surroundings, LifecycleChange, DrainChange, Crash, vars
<1> QED
  BY <1>1, <1>2, <1>3, <1>4 DEF Next

\* A send occupies the slot of an agent none of whose prompts is live.
LEMMA SendOccupies == IInv /\ SendRun => Slots!Next
<1> SUFFICES ASSUME IInv, SendRun, NEW m \in Messages, m = current
             PROVE  Slots!Occupy(m)
  BY DEF Slots!Next, SendRun, IInv, TypeOK
<1> USE DEF IInv, TypeOK
<1>1. posts[m] = 0
  BY DEF SendRun, Sending
<1>2. \A n \in Peers(m) : n # m => ~ Live(n)
  BY DEF SendRun, Reserved
<1>3. \A n \in Messages : AgentOf[n] = AgentOf[m] => Phase(n) # "occupying"
  BY <1>1, <1>2 DEF Phase, Peers
<1>4. Phase(m) = "stored" /\ Phase(m)' = "occupying"
  BY <1>1 DEF SendRun, Phase, Live
<1>5. \A n \in Messages \ {m} : Phase(n)' = Phase(n)
  BY DEF SendRun, Phase, Live
<1> QED
  BY <1>3, <1>4, <1>5 DEF Slots!Occupy

\* A step of the runtime ends at most the occupation it belongs to.
LEMMA HermesLeaves ==
    ASSUME IInv, NEW m \in Messages, Hermes(m)
    PROVE  Slots!Next \/ UNCHANGED [n \in Messages |-> Phase(n)]
<1> USE DEF IInv, TypeOK
<1>1. Live(m) /\ posts' = posts
  BY DEF Hermes, HermesAccepts, HermesDrops, HermesEnds, Live
<1>2. posts[m] # 0
  BY <1>1 DEF Accepted
<1>3. \A n \in Messages \ {m} : Phase(n)' = Phase(n)
  BY DEF Hermes, HermesAccepts, HermesDrops, HermesEnds, Phase, Live
<1>4. CASE Live(m)'
  <2>1. \A n \in Messages : Phase(n)' = Phase(n)
    BY <1>1, <1>3, <1>4 DEF Phase
  <2> QED
    BY <2>1
<1>5. CASE ~ Live(m)'
  <2>1. Phase(m) = "occupying" /\ Phase(m)' = "over"
    BY <1>1, <1>2, <1>5 DEF Phase
  <2> QED
    BY <1>3, <2>1 DEF Slots!Next, Slots!Leave
<1> QED
  BY <1>4, <1>5

\* Every step is one of the abstract slots or leaves them as they are.
LEMMA SlotsStep ==
    ASSUME IInv, [Next]_vars
    PROVE  Slots!Next \/ UNCHANGED [m \in Messages |-> Phase(m)]
<1>1. CASE UNCHANGED <<hermes, inflight, posts>>
  BY <1>1 DEF Phase, Live
<1> QED
  BY <1>1, FrameStep, SendOccupies, HermesLeaves

\* No prompt occupies a slot at first.
LEMMA SlotsInit == Init => Slots!Init
BY DEF Init, Slots!Init, Phase

\* Seen from outside, dispatch is a set of slots each prompt occupies at most
\* once and never beside another prompt of its agent.
THEOREM Refinement == Spec => ImplementsSlots
<1>1. IInv /\ [Next]_vars => [Slots!Next]_([m \in Messages |-> Phase(m)])
  BY SlotsStep
<1> QED
  BY <1>1, SlotsInit, Inductive, PTL DEF Spec, ImplementsSlots, Slots!Spec
=============================================================================
