------------------------ MODULE SessionEventsProofs ------------------------
(* Machine-checked safety of SessionEvents, for every set of writers, page  *)
(* size and number of events.                                               *)
EXTENDS SessionEvents, FiniteSetTheorems, TLAPS

USE EventsAssumption DEF tableVars, writerVars, streamVars, clientVars, Numbers

-----------------------------------------------------------------------------
(* The inductive invariant, in named parts.                                *)

\* Only the holder of the cursor row has uncommitted events, and they are the
\* numbers that follow the committed ones.
Reserved ==
    /\ \A w \in Writers :
          IF holder = w THEN fresh[w] = (cursor + 1) .. value[w]
                        ELSE fresh[w] = {}
    /\ holder # Nobody => fresh[holder] # {}

\* The committed numbers have no hole.
Dense == log = 1 .. cursor

\* Between what the client received and where the handler reads next lies
\* exactly the queue.
Streamed ==
    /\ greeting => streaming /\ queue = {}
    /\ streaming => at <= cursor
    /\ streaming /\ greeting /\ last # Nobody => at = last
    /\ streaming /\ ~ greeting =>
          last # Nobody /\ last <= at /\ queue = (last + 1) .. at
    /\ ~ streaming => queue = {}

Received ==
    /\ from = Nobody <=> last = Nobody
    /\ from = Nobody => received = << >>
    /\ from # Nobody => last = from + Len(received) /\ last <= cursor
    /\ \A i \in 1 .. Len(received) : received[i] = from + i

IInv == TypeOK /\ Reserved /\ Dense /\ Streamed /\ Received

-----------------------------------------------------------------------------
\* A page is the stretch of the log that follows the handler's cursor.
LEMMA PageIsStretch ==
    ASSUME TypeOK, Dense, NEW n \in NextPage, \A k \in NextPage : k <= n
    PROVE  NextPage = (at + 1) .. n
<1> DEFINE Upto(j) == {k \in log : at < k /\ k <= j}
<1>1. NextPage = {j \in log : j > at /\ Cardinality(Upto(j)) <= Page}
  BY DEF NextPage
<1>2. cursor \in Nat /\ at \in Nat /\ n \in Nat
  BY DEF TypeOK, NextPage
<1>3. IsFiniteSet(log)
  BY <1>2, FS_Interval DEF Dense
<1>4. ASSUME NEW k \in (at + 1) .. n PROVE k \in NextPage
  <2>1. k \in log /\ k > at
    BY <1>2, <1>4 DEF NextPage, Dense
  <2>2. Upto(k) \subseteq Upto(n)
    BY <1>2, <1>4 DEF Dense
  <2>3. IsFiniteSet(Upto(n)) /\ IsFiniteSet(Upto(k))
    BY <1>3, FS_Subset
  <2>4. Cardinality(Upto(k)) <= Cardinality(Upto(n))
    BY <2>2, <2>3, FS_Subset
  <2>5. Cardinality(Upto(k)) \in Nat /\ Cardinality(Upto(n)) \in Nat
    BY <2>3, FS_CardinalityType
  <2> QED
    BY <1>1, <2>1, <2>4, <2>5
<1>5. ASSUME NEW k \in NextPage PROVE k \in (at + 1) .. n
  BY <1>2, <1>5 DEF NextPage, Dense
<1> QED
  BY <1>4, <1>5
-----------------------------------------------------------------------------
\* The log is empty and nobody reads it.
LEMMA InitIInv == Init => IInv
<1> SUFFICES ASSUME Init PROVE IInv
  OBVIOUS
<1>1. TypeOK
  <2>1. 0 \in 0 .. MaxEvents /\ << >> \in Seq(Numbers)
    OBVIOUS
  <2> QED
    BY <2>1 DEF Init, TypeOK
<1>2. Reserved
  BY DEF Init, Reserved
<1>3. Dense /\ Streamed
  BY DEF Init, Dense, Streamed
<1>4. Received
  BY DEF Init, Received
<1> QED
  BY <1>1, <1>2, <1>3, <1>4 DEF IInv

\* Writers keep the invariant: the lock makes the new numbers follow the
\* committed ones.
LEMMA WriterStep ==
    ASSUME IInv, NEW w \in Writers, Writer(w)
    PROVE  IInv'
<1> USE DEF IInv, TypeOK
<1>1. CASE Number(w)
  <2>1. TypeOK'
    BY <1>1 DEF Number
  <2>2. Reserved'
    <3>1. PICK n \in Numbers :
            /\ n = (IF holder = w THEN value[w] ELSE cursor) + 1
            /\ value' = [value EXCEPT ![w] = n]
            /\ fresh' = [fresh EXCEPT ![w] = @ \cup {n}]
      BY <1>1 DEF Number
    <3>2. holder' = w /\ cursor' = cursor /\ holder \in {Nobody, w}
      BY <1>1 DEF Number
    <3>3. fresh'[w] = (cursor + 1) .. n /\ value'[w] = n
      <4>1. CASE holder = w
        BY <3>1, <4>1 DEF Reserved
      <4>2. CASE holder = Nobody
        BY <3>1, <4>2 DEF Reserved
      <4> QED
        BY <3>2, <4>1, <4>2
    <3>4. \A v \in Writers : v # w => fresh'[v] = {}
      BY <3>1, <3>2 DEF Reserved
    <3>5. fresh'[w] # {}
      BY <3>1
    <3> QED
      BY <3>2, <3>3, <3>4, <3>5 DEF Reserved
  <2>3. Dense' /\ Streamed' /\ Received'
    BY <1>1 DEF Number, Dense, Streamed, Received
  <2> QED
    BY <2>1, <2>2, <2>3
<1>2. CASE Commit(w)
  <2>1. holder = w /\ fresh[w] = (cursor + 1) .. value[w] /\ value[w] > cursor
    BY <1>2 DEF Commit, Reserved
  <2>2. TypeOK'
    <3>1. log' \subseteq Numbers /\ cursor' \in 0 .. MaxEvents
      BY <1>2 DEF Commit
    <3>2. value' \in [Writers -> 0 .. MaxEvents]
      BY <1>2 DEF Commit
    <3>3. fresh' \in [Writers -> SUBSET Numbers]
      BY <1>2 DEF Commit
    <3> QED
      BY <1>2, <3>1, <3>2, <3>3 DEF Commit
  <2>3. Reserved'
    <3>1. holder' = Nobody /\ \A v \in Writers : fresh'[v] = {}
      BY <1>2, <2>1 DEF Commit, Reserved
    <3> QED
      BY <3>1 DEF Reserved
  <2>4. Dense'
    BY <1>2, <2>1 DEF Commit, Dense
  <2>5. Streamed' /\ Received'
    BY <1>2, <2>1 DEF Commit, Streamed, Received
  <2> QED
    BY <2>2, <2>3, <2>4, <2>5
<1>3. CASE Rollback(w)
  <2>1. TypeOK'
    BY <1>3 DEF Rollback
  <2>2. Reserved'
    BY <1>3 DEF Rollback, Reserved
  <2>3. Dense' /\ Streamed' /\ Received'
    BY <1>3 DEF Rollback, Dense, Streamed, Received
  <2> QED
    BY <2>1, <2>2, <2>3
<1> QED
  BY <1>1, <1>2, <1>3 DEF Writer

\* The handler and its client keep the invariant.
LEMMA StreamStep ==
    ASSUME IInv, Stream \/ Disconnect
    PROVE  IInv'
<1> USE DEF IInv, TypeOK
<1>1. CASE Open
  BY <1>1 DEF Open, Reserved, Dense, Streamed, Received
<1>2. CASE Greet
  <2>1. TypeOK' /\ Reserved' /\ Dense'
    BY <1>2 DEF Greet, Reserved, Dense
  <2>2. Streamed'
    <3>1. at \in Nat /\ (at + 1) .. at = {}
      OBVIOUS
    <3>2. at' = at /\ last' = at /\ queue' = {} /\ cursor' = cursor
      BY <1>2 DEF Greet, Streamed
    <3>3. at # Nobody /\ at <= cursor /\ streaming' /\ ~ greeting'
      BY <1>2 DEF Greet, Streamed
    <3> QED
      BY <3>1, <3>2, <3>3 DEF Streamed
  <2>3. Received'
    BY <1>2 DEF Greet, Streamed, Received
  <2> QED
    BY <2>1, <2>2, <2>3
<1>3. CASE Deliver
  <2>1. PICK n \in queue :
          /\ \A k \in queue : n <= k
          /\ queue' = queue \ {n}
          /\ last' = n
          /\ received' = Append(received, n)
    BY <1>3 DEF Deliver
  <2>2. n = last + 1 /\ last \in Nat /\ n \in Numbers /\ n <= at
    BY <1>3, <2>1 DEF Deliver, Streamed
  <2>3. TypeOK' /\ Reserved' /\ Dense'
    BY <1>3, <2>1, <2>2 DEF Deliver, Reserved, Dense
  <2>4. Streamed'
    BY <1>3, <2>1, <2>2 DEF Deliver, Streamed
  <2>5. Received'
    <3>1. from # Nobody /\ from \in Nat /\ last = from + Len(received)
      BY <1>3, <2>2 DEF Received
    <3>2. Len(received') = Len(received) + 1 /\ from' = from
      BY <1>3, <2>1, <2>2 DEF Deliver
    <3>3. ASSUME NEW i \in 1 .. Len(received') PROVE received'[i] = from + i
      <4>1. CASE i <= Len(received)
        BY <2>1, <2>2, <3>2, <3>3, <4>1 DEF Received
      <4>2. CASE i = Len(received) + 1
        BY <2>1, <2>2, <3>1, <4>2
      <4> QED
        BY <3>2, <3>3, <4>1, <4>2
    <3>4. n <= cursor /\ cursor' = cursor
      BY <1>3, <2>2 DEF Deliver, Streamed
    <3>5. last' = from + Len(received') /\ last' \in Nat
      BY <2>1, <2>2, <3>1, <3>2
    <3> HIDE DEF IInv, TypeOK
    <3> QED
      BY <2>1, <3>1, <3>2, <3>3, <3>4, <3>5 DEF Received
  <2> QED
    BY <2>3, <2>4, <2>5
<1>4. CASE Poll
  <2>1. PICK n \in NextPage : (\A k \in NextPage : k <= n) /\ at' = n
    BY <1>4 DEF Poll
  <2>2. NextPage = (at + 1) .. n
    BY <2>1, PageIsStretch
  <2>3. n \in log /\ n > at /\ queue' = NextPage
    BY <1>4, <2>1 DEF Poll, NextPage
  <2>4. TypeOK' /\ Reserved' /\ Dense' /\ Received'
    BY <1>4, <2>1, <2>2, <2>3 DEF Poll, Reserved, Dense, Received
  <2>5. last = at
    <3>0. last # Nobody /\ last <= at /\ (last + 1) .. at = {}
      BY <1>4 DEF Poll, Streamed
    <3>1. last \in Nat /\ at \in Nat
      <4>1. last \in 0 .. MaxEvents /\ at \in 0 .. MaxEvents
        BY <3>0
      <4> QED
        BY <4>1
    <3>2. ~ (last < at)
      <4>1. last < at => at \in (last + 1) .. at
        BY <3>1
      <4> QED
        BY <3>0, <4>1
    <3> HIDE DEF IInv, TypeOK
    <3> QED
      BY <3>0, <3>1, <3>2
  <2>6. Streamed'
    BY <1>4, <2>1, <2>2, <2>3, <2>5 DEF Poll, Streamed, Dense
  <2> QED
    BY <2>4, <2>6
<1>5. CASE Disconnect
  <2>1. TypeOK'
    <3>1. 0 \in 0 .. MaxEvents
      OBVIOUS
    <3> QED
      BY <1>5, <3>1 DEF Disconnect
  <2>2. Reserved' /\ Dense' /\ Received'
    BY <1>5 DEF Disconnect, Reserved, Dense, Received
  <2>3. Streamed'
    BY <1>5 DEF Disconnect, Streamed
  <2> QED
    BY <2>1, <2>2, <2>3
<1> QED
  BY <1>1, <1>2, <1>3, <1>4, <1>5 DEF Stream

\* Log, cursor row, queue and client always agree on the numbers.
THEOREM Inductive == Spec => []IInv
<1>1. IInv /\ [Next]_vars => IInv'
  <2> SUFFICES ASSUME IInv, [Next]_vars PROVE IInv'
    OBVIOUS
  <2>1. CASE UNCHANGED vars
    BY <2>1 DEF vars, IInv, TypeOK, Reserved, Dense, Streamed, Received
  <2> QED
    BY <2>1, WriterStep, StreamStep DEF Next
<1> QED
  BY <1>1, InitIInv, PTL DEF Spec
-----------------------------------------------------------------------------
(* The properties.                                                         *)

\* The tables, the handler and the client stay well typed.
THEOREM TypeCorrect == Spec => []TypeOK
BY Inductive, PTL DEF IInv

\* The client receives every event after its first cursor once and in order.
THEOREM NoGapHolds == Spec => []NoGap
<1>1. IInv => NoGap
  BY DEF IInv, Received, NoGap
<1> QED
  BY <1>1, Inductive, PTL

\* A reconnecting client's last id is always within range.
THEOREM ResumeAcceptedHolds == Spec => []ResumeAccepted
<1>1. IInv => ResumeAccepted
  BY DEF IInv, Received, ResumeAccepted
<1> QED
  BY <1>1, Inductive, PTL

\* The log only grows at its end, and only by a commit.
LEMMA LogStep ==
    ASSUME IInv, [Next]_vars, UNCHANGED tableVars => FALSE
    PROVE  \E w \in Writers : Commit(w)
BY DEF Next, Writer, Stream, Number, Rollback, Open, Greet, Deliver, Poll,
       Disconnect, vars

\* A commit adds the numbers that follow the last committed one.
LEMMA CommitGrows ==
    ASSUME IInv, NEW w \in Writers, Commit(w)
    PROVE  /\ cursor \in Nat /\ cursor' \in Nat /\ cursor' > cursor
           /\ log = 1 .. cursor /\ log' = 1 .. cursor'
           /\ UNCHANGED last
<1>1. holder = w /\ fresh[w] = (cursor + 1) .. value[w] /\ value[w] > cursor
  BY DEF Commit, IInv, TypeOK, Reserved
<1> QED
  BY <1>1 DEF Commit, IInv, TypeOK, Dense

\* No event commits at or below a number that was visible before.
THEOREM AppendOnlyHolds == Spec => AppendOnly
<1> DEFINE Appends == \A n \in log' \ log : \A k \in log : k < n
<1>1. IInv /\ [Next]_vars => Appends
  <2> SUFFICES ASSUME IInv, [Next]_vars PROVE Appends
    OBVIOUS
  <2>1. CASE UNCHANGED tableVars
    BY <2>1
  <2>2. CASE ~ UNCHANGED tableVars
    <3>1. PICK w \in Writers : Commit(w)
      BY <2>2, LogStep
    <3> QED
      BY <3>1, CommitGrows
  <2> QED
    BY <2>1, <2>2
<1> QED
  BY <1>1, Inductive, PTL DEF Spec, AppendOnly

\* The detailed specification implements the abstract log: a commit grows it,
\* the first snapshot subscribes, a delivery reads the next event.
THEOREM Refinement == Spec => ImplementsLog
<1>1. Init => Log!Init
  BY DEF Init, Log!Init
<1>2. IInv /\ [Next]_vars => [Log!Next]_(Log!vars)
  <2> SUFFICES ASSUME IInv, [Next]_vars
               PROVE  Log!Next \/ UNCHANGED Log!vars
    OBVIOUS
  <2> USE DEF IInv, TypeOK, Log!vars
  <2>1. ASSUME NEW w \in Writers, Commit(w) PROVE Log!Next
    BY <2>1, CommitGrows DEF Log!Next, Log!Grow
  <2>2. CASE Greet
    <3>1. last' = at /\ at \in Nat /\ at <= cursor /\ cursor' = cursor
      BY <2>2 DEF Greet, Streamed
    <3>2. CASE last = Nobody
      BY <3>1, <3>2 DEF Log!Next, Log!Subscribe
    <3>3. CASE last # Nobody
      BY <2>2, <3>1, <3>3 DEF Greet, Streamed
    <3> QED
      BY <3>2, <3>3
  <2>3. CASE Deliver
    <3>1. PICK n \in queue : (\A k \in queue : n <= k) /\ last' = n
      BY <2>3 DEF Deliver
    <3>2. last # Nobody /\ last <= at /\ queue = (last + 1) .. at /\ at <= cursor
      BY <2>3 DEF Deliver, Streamed
    <3>3. last \in Nat /\ at \in Nat /\ cursor \in Nat
      <4>1. last \in 0 .. MaxEvents
        BY <3>2
      <4> QED
        BY <4>1
    <3>4. n = last + 1 /\ n <= at
      BY <3>1, <3>2, <3>3, SMTT(30)
    <3> QED
      BY <2>3, <3>1, <3>2, <3>3, <3>4 DEF Deliver, Log!Next, Log!Read
  <2>4. ASSUME NEW w \in Writers, Number(w) \/ Rollback(w)
        PROVE  UNCHANGED Log!vars
    BY <2>4 DEF Number, Rollback
  <2>5. CASE Open \/ Poll \/ Disconnect \/ UNCHANGED vars
    BY <2>5 DEF Open, Poll, Disconnect, vars
  <2> QED
    BY <2>1, <2>2, <2>3, <2>4, <2>5 DEF Next, Writer, Stream
<1> QED
  BY <1>1, <1>2, Inductive, PTL DEF Spec, ImplementsLog, Log!Spec
=============================================================================
