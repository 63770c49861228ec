-------------------------- MODULE SessionRequests --------------------------
(***************************************************************************)
(* Requests that open a session: create_session, and the delegation that   *)
(* opens a session for an executor and then stores its first message.      *)
(*                                                                         *)
(* A delegation is two transactions, and the connection or the process may *)
(* be lost before, between and after them.  A client that has a key sends  *)
(* the same request again until it has an answer; the keys of session and  *)
(* message (derived from the same one) make the repetition harmless.  A    *)
(* plain create_session is a delegation without a message.  All requests   *)
(* are of one user; roles and titles are part of the payload.              *)
(***************************************************************************)
EXTENDS Integers, Sequences

CONSTANTS
    Requests,       \* the session a request opens has its name
    KeyOf,          \* [Requests -> keys], NULL for a request without one
    PayloadOf,      \* [Requests -> what is hashed into the session's key]
    BodyOf,         \* [Requests -> first messages], NULL without one
    NULL,
    MaxFaults       \* bound: crashes, failing transactions, lost connections

VARIABLES
    sessions,       \* the sessions there are
    messages,       \* the prompts stored in each, in order
    archived,       \* is the agent archived?
    step,           \* where the handler of each request is
    child,          \* the session it is about
    holder,         \* who holds the advisory lock of a key, NULL if nobody
    answer,         \* what the client has been told
    faults          \* faults so far

tableVars == <<sessions, messages, archived>>
vars == <<tableVars, step, child, holder, answer, faults>>

Keys == {KeyOf[r] : r \in Requests} \ {NULL}
Keyed(r) == KeyOf[r] # NULL
Bodies == {BodyOf[r] : r \in Requests} \ {NULL}

\* What the theorems assume of the constants.
RequestsAssumption ==
    /\ MaxFaults \in Nat
    /\ NULL \notin Requests \cup {"ok", "conflict", "lost"}

TypeOK ==
    /\ sessions \subseteq Requests
    /\ messages \in [Requests -> Seq(Bodies)]
    /\ \A s \in Requests \ sessions : messages[s] = << >>
    /\ archived \in BOOLEAN
    /\ step \in [Requests -> {"idle", "lock", "find", "insert", "message", "reply"}]
    /\ child \in [Requests -> sessions \cup {NULL}]
    /\ holder \in [Keys -> Requests \cup {NULL}]
    /\ answer \in [Requests -> {NULL, "ok", "conflict", "lost"}]
    /\ faults \in 0 .. MaxFaults

Init ==
    /\ sessions = {} /\ messages = [s \in Requests |-> << >>]
    /\ archived = FALSE
    /\ step = [r \in Requests |-> "idle"]
    /\ child = [r \in Requests |-> NULL]
    /\ holder = [k \in Keys |-> NULL]
    /\ answer = [r \in Requests |-> NULL]
    /\ faults = 0

-----------------------------------------------------------------------------
Goto(r, s) == step' = [step EXCEPT ![r] = s]
Tell(r, what) == answer' = [answer EXCEPT ![r] = what]
Release(r) == holder' = [k \in Keys |-> IF holder[k] = r THEN NULL ELSE holder[k]]

\* The client sends its request, and sends it again until it has an answer.
Send(r) ==
    /\ step[r] = "idle" /\ answer[r] = NULL
    /\ Goto(r, IF Keyed(r) THEN "lock" ELSE "find")
    /\ UNCHANGED <<tableVars, child, holder, answer, faults>>

\* The transaction takes the advisory lock of its key, until it ends.
Lock(r) ==
    /\ step[r] = "lock"
    /\ holder[KeyOf[r]] = NULL
    /\ holder' = [holder EXCEPT ![KeyOf[r]] = r]
    /\ Goto(r, "find")
    /\ UNCHANGED <<tableVars, child, answer, faults>>

\* A session with that key is the result, if it was asked for with the same
\* payload; a different payload is a conflict.  Without one the agent is read,
\* without a lock on it, and an archived one is refused.  (The advisory lock
\* keeps the answer of the first query true until the second.)
Find(r) ==
    /\ step[r] = "find"
    /\ LET Same == {s \in sessions : Keyed(r) /\ KeyOf[s] = KeyOf[r]} IN
       \/ /\ Same = {} /\ ~ archived
          /\ Goto(r, "insert")
          /\ UNCHANGED <<child, holder, answer>>
       \/ /\ Same = {} /\ archived
          /\ Release(r)
          /\ Tell(r, "conflict") /\ Goto(r, "idle")
          /\ UNCHANGED child
       \/ \E s \in Same :
             /\ Release(r)
             /\ \/ /\ PayloadOf[s] = PayloadOf[r]
                   /\ child' = [child EXCEPT ![r] = s]
                   /\ Goto(r, "message")
                   /\ UNCHANGED answer
                \/ /\ PayloadOf[s] # PayloadOf[r]
                   /\ Tell(r, "conflict") /\ Goto(r, "idle")
                   /\ UNCHANGED child
    /\ UNCHANGED <<tableVars, faults>>

\* Then session, participants, pending run and system message are inserted and
\* committed, also when the agent has been archived meanwhile.
Insert(r) ==
    /\ step[r] = "insert"
    /\ sessions' = sessions \cup {r}
    /\ child' = [child EXCEPT ![r] = r]
    /\ Goto(r, "message")
    /\ Release(r)
    /\ UNCHANGED <<messages, archived, answer, faults>>

\* The keyed requests that stored a message in s: the first of them did.
Stored(r) == Keyed(r) /\ messages[child[r]] # << >>

\* Mutant: the message of a delegation gets no key of its own.
StoreMessageUnkeyed(r) ==
    /\ step[r] = "message"
    /\ messages' = IF BodyOf[r] = NULL THEN messages
                   ELSE [messages EXCEPT ![child[r]] = Append(@, BodyOf[r])]
    /\ Goto(r, "reply")
    /\ UNCHANGED <<sessions, archived, child, holder, answer, faults>>

\* The second transaction locks the session and looks for the key of the first
\* message there: the same body is a repetition, another one a conflict.
StoreMessage(r) ==
    /\ step[r] = "message"
    /\ LET s == child[r] IN
       \/ /\ BodyOf[r] = NULL \/ (Stored(r) /\ messages[s][1] = BodyOf[r])
          /\ Goto(r, "reply")
          /\ UNCHANGED <<messages, child, answer>>
       \/ /\ BodyOf[r] # NULL /\ ~ Stored(r)
          /\ messages' = [messages EXCEPT ![s] = Append(@, BodyOf[r])]
          /\ Goto(r, "reply")
          /\ UNCHANGED <<child, answer>>
       \/ /\ BodyOf[r] # NULL /\ Stored(r) /\ messages[s][1] # BodyOf[r]
          /\ Tell(r, "conflict") /\ Goto(r, "idle")
          /\ UNCHANGED <<messages, child>>
    /\ UNCHANGED <<sessions, archived, holder, faults>>

Reply(r) ==
    /\ step[r] = "reply"
    /\ Tell(r, "ok") /\ Goto(r, "idle")
    /\ UNCHANGED <<tableVars, child, holder, faults>>

-----------------------------------------------------------------------------
Fault == faults < MaxFaults /\ faults' = faults + 1

\* What the clients of requests R know when their handlers are gone: one with a
\* key will ask again.
Forgotten(R) ==
    /\ step' = [r \in Requests |-> IF r \in R THEN "idle" ELSE step[r]]
    /\ child' = [r \in Requests |-> IF r \in R THEN NULL ELSE child[r]]
    /\ holder' = [k \in Keys |-> IF holder[k] \in R THEN NULL ELSE holder[k]]
    /\ answer' = [r \in Requests |->
                     IF r \in R /\ ~ Keyed(r) THEN "lost" ELSE answer[r]]

Running == {r \in Requests : step[r] # "idle"}

\* A transaction fails, the connection breaks or the answer is lost.
Fail(r) ==
    /\ Fault
    /\ r \in Running
    /\ Forgotten({r})
    /\ UNCHANGED tableVars

Crash ==
    /\ Fault
    /\ Running # {}
    /\ Forgotten(Running)
    /\ UNCHANGED tableVars

\* The agent is archived.
Archive ==
    /\ ~ archived /\ archived' = TRUE
    /\ UNCHANGED <<sessions, messages, step, child, holder, answer, faults>>

Handler(r) ==
    Lock(r) \/ Find(r) \/ Insert(r) \/ StoreMessage(r) \/ Reply(r)

Next ==
    \/ \E r \in Requests : Send(r) \/ Handler(r) \/ Fail(r)
    \/ Crash \/ Archive

Spec == Init /\ [][Next]_vars

-----------------------------------------------------------------------------
\* A key opens one session, and who was told that a keyed request succeeded
\* finds in it exactly the first message it asked for, once, however often the
\* request was lost and repeated, and whoever else used the key
\* (docs/RESILIENCE.md:6).
AnsweredIsComplete ==
    /\ \A r, s \in sessions : KeyOf[r] = KeyOf[s] /\ Keyed(r) => r = s
    /\ \A r \in Requests :
          answer[r] = "ok" =>
             /\ child[r] \in sessions
             /\ PayloadOf[child[r]] = PayloadOf[r] /\ KeyOf[child[r]] = KeyOf[r]
             /\ BodyOf[r] # NULL => messages[child[r]] = <<BodyOf[r]>>
=============================================================================
