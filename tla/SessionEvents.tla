--------------------------- MODULE SessionEvents ---------------------------
(***************************************************************************)
(* The durable events of one session and the stream a client reads.        *)
(*                                                                         *)
(* A trigger on the session's tables numbers one event per written row, in *)
(* the writing transaction: the increment of the session_event_cursors row *)
(* locks that row until commit.  A stream handler pages through the        *)
(* committed events from a cursor; a client that lost its connection asks  *)
(* again from the last event id it received.                               *)
(***************************************************************************)
EXTENDS Integers, FiniteSets, Sequences

CONSTANTS
    Writers,    \* transactions that write the session's tables
    Page,       \* LIMIT of list_session_events
    MaxEvents,  \* bound: event numbers that are handed out
    Nobody,     \* no transaction holds the cursor row; no subscription
    Faults      \* which adversities occur in this instance

FaultKinds == {"disconnect", "rollback"}

ASSUME EventsAssumption ==
    /\ Page \in Nat \ {0}
    /\ MaxEvents \in Nat
    /\ Nobody \notin Writers /\ Nobody \notin Nat
    /\ Faults \subseteq FaultKinds

VARIABLES
    cursor,     \* session_event_cursors.sequence, committed; 0 without a row
    log,        \* session_events.sequence of the committed rows
    holder,     \* the transaction that holds the lock on the cursor row
    value,      \* that row, as each open transaction left it
    fresh,      \* the numbers of each open transaction's uncommitted events
    streaming,  \* is a stream open?
    at,         \* the cursor of the stream handler
    greeting,   \* has its queue the snapshot event?
    queue,      \* the events in its queue, which is in ascending order
    last,       \* the last event id the client received
    from,       \* history: the first one it received
    received    \* history: events the client received, in order

tableVars == <<cursor, log>>
writerVars == <<holder, value, fresh>>
streamVars == <<streaming, at, greeting, queue>>
clientVars == <<last, from, received>>
vars == <<tableVars, writerVars, streamVars, clientVars>>

Happens(fault) == fault \in Faults
Numbers == 1 .. MaxEvents

TypeOK ==
    /\ cursor \in 0 .. MaxEvents
    /\ log \subseteq Numbers
    /\ holder \in Writers \cup {Nobody}
    /\ value \in [Writers -> 0 .. MaxEvents]
    /\ fresh \in [Writers -> SUBSET Numbers]
    /\ streaming \in BOOLEAN
    /\ at \in 0 .. MaxEvents
    /\ greeting \in BOOLEAN
    /\ queue \subseteq Numbers
    /\ last \in (0 .. MaxEvents) \cup {Nobody}
    /\ from \in (0 .. MaxEvents) \cup {Nobody}
    /\ received \in Seq(Numbers)

Init ==
    /\ cursor = 0 /\ log = {}
    /\ holder = Nobody
    /\ value = [w \in Writers |-> 0]
    /\ fresh = [w \in Writers |-> {}]
    /\ streaming = FALSE /\ at = 0 /\ greeting = FALSE /\ queue = {}
    /\ last = Nobody /\ from = Nobody /\ received = << >>

-----------------------------------------------------------------------------
(* Writers.                                                                *)

\* Mutant: numbers come from a sequence of their own, without a row lock.
NumberUnlocked(w) ==
    /\ \E n \in Numbers :
          /\ n > cursor
          /\ \A v \in Writers : n > value[v]
          /\ \A k \in Numbers :
                k < n => k <= cursor \/ \E v \in Writers : k <= value[v]
          /\ value' = [value EXCEPT ![w] = n]
          /\ fresh' = [fresh EXCEPT ![w] = @ \cup {n}]
    /\ holder' = w
    /\ UNCHANGED <<tableVars, streamVars, clientVars>>

\* The trigger fires for one written row (and for append_session_event): the
\* cursor row is inserted or incremented, and the event gets that number.
\* Another transaction's increment waits for the lock.
Number(w) ==
    /\ holder \in {Nobody, w}
    /\ \E n \in Numbers :
          /\ n = (IF holder = w THEN value[w] ELSE cursor) + 1
          /\ value' = [value EXCEPT ![w] = n]
          /\ fresh' = [fresh EXCEPT ![w] = @ \cup {n}]
    /\ holder' = w
    /\ UNCHANGED <<tableVars, streamVars, clientVars>>

\* Mutant: the events commit, the cursor row does not.
CommitWithoutCursor(w) ==
    /\ fresh[w] # {}
    /\ log' = log \cup fresh[w]
    /\ fresh' = [fresh EXCEPT ![w] = {}]
    /\ value' = [value EXCEPT ![w] = 0]
    /\ holder' = Nobody
    /\ UNCHANGED <<cursor, streamVars, clientVars>>

\* The transaction commits its rows, its events and the cursor together.
Commit(w) ==
    /\ fresh[w] # {}
    /\ log' = log \cup fresh[w]
    /\ cursor' = value[w]
    /\ fresh' = [fresh EXCEPT ![w] = {}]
    /\ value' = [value EXCEPT ![w] = 0]
    /\ holder' = Nobody
    /\ UNCHANGED <<streamVars, clientVars>>

\* A later statement of the transaction fails, or Fleet dies.
Rollback(w) ==
    /\ Happens("rollback")
    /\ fresh[w] # {}
    /\ fresh' = [fresh EXCEPT ![w] = {}]
    /\ value' = [value EXCEPT ![w] = 0]
    /\ holder' = Nobody
    /\ UNCHANGED <<tableVars, streamVars, clientVars>>

-----------------------------------------------------------------------------
(* The stream handler and its client.                                      *)

\* Mutant: a client without a cursor is not told the current one.
OpenAtLast ==
    /\ ~ streaming
    /\ last # Nobody => last <= cursor
    /\ streaming' = TRUE
    /\ greeting' = TRUE
    /\ at' = last
    /\ UNCHANGED <<tableVars, writerVars, queue, clientVars>>

\* A client without an event id asks for any committed cursor or gets the
\* current one; a reconnecting one asks for its last id.  The cursor is checked
\* against the current one and heads the queue as a snapshot event.
Open ==
    /\ ~ streaming
    /\ last # Nobody => last <= cursor
    /\ streaming' = TRUE
    /\ greeting' = TRUE
    /\ at' \in IF last = Nobody THEN 0 .. cursor ELSE {last}
    /\ UNCHANGED <<tableVars, writerVars, queue, clientVars>>

\* The snapshot event reaches the client, which notes its id.
Greet ==
    /\ streaming
    /\ greeting
    /\ greeting' = FALSE
    /\ last' = at
    /\ from' = IF from = Nobody THEN at ELSE from
    /\ UNCHANGED <<tableVars, writerVars, streaming, at, queue, received>>

\* Mutant: the queue is not in order.
DeliverAny ==
    /\ streaming
    /\ ~ greeting
    /\ \E n \in queue :
          /\ queue' = queue \ {n}
          /\ last' = n
          /\ received' = Append(received, n)
    /\ UNCHANGED <<tableVars, writerVars, streaming, at, greeting, from>>

\* The head of the queue reaches the client, which notes its id.
Deliver ==
    /\ streaming
    /\ ~ greeting
    /\ \E n \in queue :
          /\ \A k \in queue : n <= k
          /\ queue' = queue \ {n}
          /\ last' = n
          /\ received' = Append(received, n)
    /\ UNCHANGED <<tableVars, writerVars, streaming, at, greeting, from>>

\* Mutant: the page is taken from the newest events.
NewestPage ==
    {n \in log : n > at /\ Cardinality({k \in log : k >= n}) <= Page}

\* list_session_events(session, at): ordered by number, limited to a page.
NextPage ==
    {n \in log :
        n > at /\ Cardinality({k \in log : at < k /\ k <= n}) <= Page}

\* Mutant: the cursor goes to the newest event, whatever the page held.
PollToEnd ==
    /\ streaming
    /\ ~ greeting
    /\ queue = {}
    /\ NextPage # {}
    /\ at' = cursor
    /\ queue' = NextPage
    /\ UNCHANGED <<tableVars, writerVars, streaming, greeting, clientVars>>

\* With an empty queue the handler reads a page; the cursor follows it.
Poll ==
    /\ streaming
    /\ ~ greeting
    /\ queue = {}
    /\ \E n \in NextPage :
          /\ \A k \in NextPage : k <= n
          /\ at' = n
    /\ queue' = NextPage
    /\ UNCHANGED <<tableVars, writerVars, streaming, greeting, clientVars>>

\* The connection breaks, Fleet restarts, the token expires or a read fails:
\* what the client did not receive is gone with the queue.
Disconnect ==
    /\ Happens("disconnect")
    /\ streaming
    /\ streaming' = FALSE
    /\ at' = 0
    /\ greeting' = FALSE
    /\ queue' = {}
    /\ UNCHANGED <<tableVars, writerVars, clientVars>>

-----------------------------------------------------------------------------
Writer(w) == Number(w) \/ Commit(w) \/ Rollback(w)
Stream == Open \/ Greet \/ Deliver \/ Poll

Next ==
    \/ \E w \in Writers : Writer(w)
    \/ Stream
    \/ Disconnect

Spec == Init /\ [][Next]_vars

\* The client reconnects, and a connection lasts for one step of the handler
\* now and then.
FairSpec ==
    /\ Spec
    /\ WF_vars(Open) /\ SF_vars(Greet) /\ SF_vars(Poll) /\ SF_vars(Deliver)

-----------------------------------------------------------------------------
\* The client receives every event after its first cursor once, in order and
\* without a gap, across pages, reconnects and transactions that commit in
\* another order than they began.
NoGap == \A i \in 1 .. Len(received) : received[i] = from + i

\* Events are appended: none commits below a number that was visible before,
\* where a cursor has passed already.
AppendOnly ==
    [][\A n \in log' \ log : \A k \in log : k < n]_vars

\* A client that reconnects is never refused: its last id is within range.
ResumeAccepted == last # Nobody => last <= cursor

\* Seen from outside, the stream is the abstract log.
Log == INSTANCE EventLog WITH
    length <- cursor, position <- last
ImplementsLog == Log!Spec

\* Every committed event after the first cursor reaches the client.
EventsArrive ==
    \A n \in Numbers :
        from # Nobody /\ n > from /\ n \in log
            ~> \E i \in 1 .. Len(received) : received[i] = n
=============================================================================
