--------------------------- MODULE RequestsProofs ---------------------------
(* Machine-checked safety of SessionRequests, for any requests, keys and   *)
(* faults.                                                                 *)
EXTENDS SessionRequests, TLAPS

\* A keyed request between its lock and the end of its transaction holds the
\* lock, and one about to insert has seen that its key is new.
Locked ==
    \A r \in Requests :
        /\ step[r] \in {"find", "insert"} /\ Keyed(r) => holder[KeyOf[r]] = r
        /\ step[r] = "insert" => \A s \in sessions : Keyed(r) => KeyOf[s] # KeyOf[r]
        /\ step[r] = "lock" => Keyed(r)

\* A key opened at most one session.
OneSession ==
    \A r, s \in sessions : KeyOf[r] = KeyOf[s] /\ Keyed(r) => r = s

\* What a request that has its session knows of it.
Has(r) == step[r] \in {"message", "reply"} \/ answer[r] = "ok"

Known ==
    \A r \in Requests :
        Has(r) => /\ child[r] \in sessions
                  /\ PayloadOf[child[r]] = PayloadOf[r] /\ KeyOf[child[r]] = KeyOf[r]
                  /\ ~ Keyed(r) => child[r] = r

\* A request is answered once, and one without a key runs once.
Once ==
    \A r \in Requests :
        /\ step[r] # "idle" => answer[r] = NULL
        /\ ~ Keyed(r) /\ r \in sessions => Has(r) \/ answer[r] # NULL
        /\ ~ Keyed(r) /\ step[r] \in {"find", "insert"} => r \notin sessions
        /\ ~ Keyed(r) /\ step[r] = "message" => messages[r] = << >>

\* The first message is there from the second transaction on, and no other.
Told ==
    /\ \A r \in Requests :
          (step[r] = "reply" \/ answer[r] = "ok") /\ BodyOf[r] # NULL =>
              messages[child[r]] = <<BodyOf[r]>>
    /\ \A s \in Requests : messages[s] = << >> \/ \E b \in Bodies : messages[s] = <<b>>

IInv == TypeOK /\ Locked /\ OneSession /\ Known /\ Once /\ Told

USE DEF RequestsAssumption, tableVars

\* Nobody has sent anything.
LEMMA InitIInv ==
    ASSUME RequestsAssumption, Init
    PROVE  IInv
<1>1. TypeOK
  <2>1. << >> \in Seq(Bodies)
    OBVIOUS
  <2>2. messages \in [Requests -> Seq(Bodies)] /\ 0 \in 0 .. MaxFaults
    BY <2>1 DEF Init
  <2>3. /\ step \in [Requests -> {"idle", "lock", "find", "insert", "message", "reply"}]
        /\ child \in [Requests -> sessions \cup {NULL}]
        /\ holder \in [Keys -> Requests \cup {NULL}]
        /\ answer \in [Requests -> {NULL, "ok", "conflict", "lost"}]
    BY DEF Init
  <2> QED
    BY <2>2, <2>3 DEF Init, TypeOK
<1>2. Locked /\ OneSession /\ Known /\ Once /\ Told
  BY DEF Init, Locked, OneSession, Known, Once, Told, Has
<1> QED
  BY <1>1, <1>2 DEF IInv

\* A request that is sent again knows nothing of the first attempt.
LEMMA SendKeeps ==
    ASSUME RequestsAssumption, IInv, NEW r \in Requests, Send(r)
    PROVE  IInv'
<1> USE DEF IInv
<1>1. step' \in [Requests -> {"idle", "lock", "find", "insert", "message", "reply"}]
  BY DEF Send, Goto, TypeOK
<1>2. \A q \in Requests \ {r} : step'[q] = step[q]
  BY DEF Send, Goto, TypeOK
<1>3. /\ step[r] = "idle" /\ answer[r] = NULL
      /\ step'[r] = IF Keyed(r) THEN "lock" ELSE "find"
  BY DEF Send, Goto, TypeOK
<1>4. UNCHANGED <<sessions, messages, archived, child, holder, answer, faults>>
  BY DEF Send
<1>5. \A q \in Requests : Has(q)' = Has(q)
  BY <1>2, <1>3, <1>4 DEF Has
<1>6. TypeOK'
  BY <1>1, <1>4 DEF TypeOK
<1>7. Locked'
  BY <1>2, <1>3, <1>4 DEF Locked, Keyed
<1>8. OneSession' /\ Known'
  BY <1>4, <1>5 DEF OneSession, Known, Keyed
<1>9. Once'
  <2> SUFFICES ASSUME NEW q \in Requests
               PROVE  (/\ step[q] # "idle" => answer[q] = NULL
                       /\ ~ Keyed(q) /\ q \in sessions => Has(q) \/ answer[q] # NULL
                       /\ ~ Keyed(q) /\ step[q] \in {"find", "insert"} => q \notin sessions
                       /\ ~ Keyed(q) /\ step[q] = "message" => messages[q] = << >>)'
    BY DEF Once
  <2>1. CASE q = r
    <3>1. ~ Has(r)
      BY <1>3 DEF Has, TypeOK
    <3>2. ~ Keyed(r) => r \notin sessions
      BY <1>3, <3>1 DEF Once
    <3> QED
      BY <2>1, <1>3, <1>4, <1>5, <3>2 DEF Keyed
  <2>2. CASE q # r
    BY <2>2, <1>2, <1>4, <1>5 DEF Once, Keyed
  <2> QED
    BY <2>1, <2>2
<1>10. Told'
  BY <1>2, <1>3, <1>4 DEF Told
<1> QED
  BY <1>6, <1>7, <1>8, <1>9, <1>10

\* The advisory lock of a key is held by one request.
LEMMA LockKeeps ==
    ASSUME RequestsAssumption, IInv, NEW r \in Requests, Lock(r)
    PROVE  IInv'
<1> USE DEF IInv
<1>1. /\ step' \in [Requests -> {"idle", "lock", "find", "insert", "message", "reply"}]
      /\ \A q \in Requests \ {r} : step'[q] = step[q]
      /\ step[r] = "lock" /\ step'[r] = "find"
  BY DEF Lock, Goto, TypeOK
<1>2. UNCHANGED <<sessions, messages, archived, child, answer, faults>>
  BY DEF Lock
<1>3. Keyed(r)
  BY <1>1 DEF Locked
<1>4. KeyOf[r] \in Keys
  BY <1>3 DEF Keys, Keyed
<1>5. /\ holder' \in [Keys -> Requests \cup {NULL}]
      /\ holder'[KeyOf[r]] = r /\ holder[KeyOf[r]] = NULL
      /\ \A k \in Keys \ {KeyOf[r]} : holder'[k] = holder[k]
  BY <1>4 DEF Lock, TypeOK
<1>6. \A q \in Requests : Has(q)' = Has(q)
  BY <1>1, <1>2 DEF Has
<1>7. TypeOK'
  BY <1>1, <1>2, <1>5 DEF TypeOK
<1>8. Locked'
  <2> SUFFICES ASSUME NEW q \in Requests
               PROVE  (/\ step[q] \in {"find", "insert"} /\ Keyed(q) => holder[KeyOf[q]] = q
                       /\ step[q] = "insert" =>
                             \A s \in sessions : Keyed(q) => KeyOf[s] # KeyOf[q]
                       /\ step[q] = "lock" => Keyed(q))'
    BY DEF Locked
  <2>1. CASE q = r
    BY <2>1, <1>1, <1>3, <1>5 DEF Keyed
  <2>2. CASE q # r
    <3>1. step'[q] \in {"find", "insert"} /\ Keyed(q) => KeyOf[q] # KeyOf[r] /\ KeyOf[q] \in Keys
      BY <2>2, <1>1, <1>5 DEF Locked, Keyed, Keys
    <3> QED
      BY <2>2, <3>1, <1>1, <1>2, <1>5 DEF Locked, Keyed
  <2> QED
    BY <2>1, <2>2
<1>9. OneSession' /\ Known'
  BY <1>2, <1>6 DEF OneSession, Known, Keyed
<1>10. Once'
  BY <1>1, <1>2, <1>3, <1>6 DEF Once, Keyed
<1>11. Told'
  BY <1>1, <1>2 DEF Told
<1> QED
  BY <1>7, <1>8, <1>9, <1>10, <1>11

\* What a transaction that ends leaves locked.
LEMMA ReleaseKeeps ==
    ASSUME RequestsAssumption, IInv, NEW r \in Requests, Release(r)
    PROVE  /\ holder' \in [Keys -> Requests \cup {NULL}]
           /\ \A q \in Requests \ {r}, k \in Keys : holder[k] = q => holder'[k] = q
  BY DEF Release, IInv, TypeOK

\* A request finds the one session of its key, or that there is none.
LEMMA FindKeeps ==
    ASSUME RequestsAssumption, IInv, NEW r \in Requests, Find(r)
    PROVE  IInv'
<1> USE DEF IInv
<1> DEFINE Same == {s \in sessions : Keyed(r) /\ KeyOf[s] = KeyOf[r]}
<1>1. /\ step[r] = "find" /\ answer[r] = NULL
      /\ UNCHANGED <<sessions, messages, archived, faults>>
  BY DEF Find, Once
<1>2. CASE Same = {} /\ Goto(r, "insert") /\ UNCHANGED <<child, holder, answer>>
  <2>1. /\ step' \in [Requests -> {"idle", "lock", "find", "insert", "message", "reply"}]
        /\ \A q \in Requests \ {r} : step'[q] = step[q]
        /\ step'[r] = "insert"
    BY <1>2 DEF Goto, TypeOK
  <2>2. \A q \in Requests : Has(q)' = Has(q)
    BY <1>1, <1>2, <2>1 DEF Has
  <2>3. TypeOK'
    BY <1>1, <1>2, <2>1 DEF TypeOK
  <2>4. Locked'
    BY <1>1, <1>2, <2>1 DEF Locked, Keyed
  <2>5. OneSession' /\ Known'
    BY <1>1, <1>2, <2>2 DEF OneSession, Known, Keyed
  <2>6. Once'
    BY <1>1, <1>2, <2>1, <2>2 DEF Once, Keyed
  <2>7. Told'
    BY <1>1, <1>2, <2>1 DEF Told
  <2> QED
    BY <2>3, <2>4, <2>5, <2>6, <2>7
<1>3. ASSUME NEW s \in Same, Release(r), PayloadOf[s] = PayloadOf[r],
             child' = [child EXCEPT ![r] = s], Goto(r, "message"), UNCHANGED answer
      PROVE  IInv'
  <2>1. /\ step' \in [Requests -> {"idle", "lock", "find", "insert", "message", "reply"}]
        /\ \A q \in Requests \ {r} : step'[q] = step[q] /\ child'[q] = child[q]
        /\ step'[r] = "message" /\ child'[r] = s
        /\ child' \in [Requests -> sessions \cup {NULL}]
    BY <1>3 DEF Goto, TypeOK
  <2>2. \A q \in Requests \ {r} : Has(q)' = Has(q)
    BY <1>3, <2>1 DEF Has
  <2>3. TypeOK'
    BY <1>1, <1>3, <2>1, ReleaseKeeps DEF TypeOK
  <2>4. Locked'
    <3>1. \A q \in Requests \ {r} : step[q] \in {"find", "insert"} /\ Keyed(q) =>
                                      holder'[KeyOf[q]] = q
      BY <1>3, ReleaseKeeps, ZenonT(40) DEF Locked, Keyed, Keys
    <3> QED
      BY <1>1, <2>1, <3>1 DEF Locked, Keyed
  <2>5. OneSession'
    BY <1>1 DEF OneSession, Keyed
  <2>6. Known'
    BY <1>1, <1>3, <2>1, <2>2 DEF Known, Keyed
  <2>7. Once'
    BY <1>1, <1>3, <2>1, <2>2 DEF Once, Keyed
  <2>8. Told'
    BY <1>1, <1>3, <2>1 DEF Told
  <2> QED
    BY <2>3, <2>4, <2>5, <2>6, <2>7, <2>8
<1>4. CASE Release(r) /\ Tell(r, "conflict") /\ Goto(r, "idle") /\ UNCHANGED child
  <2>1. /\ step' \in [Requests -> {"idle", "lock", "find", "insert", "message", "reply"}]
        /\ answer' \in [Requests -> {NULL, "ok", "conflict", "lost"}]
        /\ \A q \in Requests \ {r} : step'[q] = step[q] /\ answer'[q] = answer[q]
        /\ step'[r] = "idle" /\ answer'[r] = "conflict"
    BY <1>4 DEF Goto, Tell, TypeOK
  <2>2. \A q \in Requests \ {r} : Has(q)' = Has(q)
    BY <2>1 DEF Has
  <2>3. ~ Has(r)'
    BY <2>1 DEF Has
  <2>4. TypeOK'
    BY <1>1, <1>4, <2>1, ReleaseKeeps DEF TypeOK
  <2>5. Locked'
    <3>1. \A q \in Requests \ {r} : step[q] \in {"find", "insert"} /\ Keyed(q) =>
                                      holder'[KeyOf[q]] = q
      BY <1>4, ReleaseKeeps, ZenonT(40) DEF Locked, Keyed, Keys
    <3> QED
      BY <1>1, <2>1, <3>1 DEF Locked, Keyed
  <2>6. OneSession'
    BY <1>1 DEF OneSession, Keyed
  <2>7. Known'
    BY <1>1, <1>4, <2>2, <2>3 DEF Known, Keyed
  <2>8. Once'
    BY <1>1, <2>1, <2>2 DEF Once, Keyed
  <2>9. Told'
    BY <1>1, <1>4, <2>1 DEF Told
  <2> QED
    BY <2>4, <2>5, <2>6, <2>7, <2>8, <2>9
<1> QED
  BY <1>2, <1>3, <1>4 DEF Find

\* The session inserted under the lock is the first of its key.
LEMMA InsertKeeps ==
    ASSUME RequestsAssumption, IInv, NEW r \in Requests, Insert(r)
    PROVE  IInv'
<1> USE DEF IInv
<1>1. /\ step[r] = "insert" /\ answer[r] = NULL /\ Release(r)
      /\ UNCHANGED <<messages, archived, faults>>
  BY DEF Insert, Once
<1>2. \A q \in Requests \ {r} : step[q] \in {"find", "insert"} /\ Keyed(q) =>
                                  holder'[KeyOf[q]] = q
  <2>1. \A q \in Requests : Keyed(q) => KeyOf[q] \in Keys
    BY DEF Keyed, Keys
  <2>2. \A q \in Requests \ {r}, k \in Keys : holder[k] = q => holder'[k] = q
    BY <1>1, ReleaseKeeps
  <2> QED
    BY <2>1, <2>2 DEF Locked
<1>3. r \notin sessions
  <2>1. Keyed(r) => \A s \in sessions : KeyOf[s] # KeyOf[r]
    BY <1>1 DEF Locked
  <2> QED
    BY <1>1, <2>1 DEF Once
<1>4. /\ sessions' = sessions \cup {r} /\ child' = [child EXCEPT ![r] = r]
      /\ Goto(r, "message") /\ UNCHANGED answer
  BY DEF Insert
<1>5. /\ step' \in [Requests -> {"idle", "lock", "find", "insert", "message", "reply"}]
      /\ \A q \in Requests \ {r} : step'[q] = step[q] /\ child'[q] = child[q]
      /\ step'[r] = "message" /\ child'[r] = r
      /\ child' \in [Requests -> sessions' \cup {NULL}]
  BY <1>4 DEF Goto, TypeOK
<1>6. \A q \in Requests \ {r} : Has(q)' = Has(q)
  BY <1>4, <1>5 DEF Has
<1>7. messages[r] = << >>
  BY <1>3 DEF TypeOK
<1>8. TypeOK'
  BY <1>1, <1>4, <1>5, ReleaseKeeps DEF TypeOK
<1>9. Locked'
  <2>1. ASSUME NEW q \in Requests \ {r}, step[q] = "insert", Keyed(q)
        PROVE  KeyOf[q] # KeyOf[r]
    BY <1>1, <2>1 DEF Locked, Keyed
  <2> QED
    BY <1>1, <1>2, <1>4, <1>5, <2>1 DEF Locked, Keyed
<1>10. OneSession'
  <2>1. \A s \in sessions : Keyed(r) => KeyOf[s] # KeyOf[r]
    BY <1>1 DEF Locked
  <2> QED
    BY <1>4, <2>1 DEF OneSession, Keyed
<1>11. Known'
  BY <1>1, <1>4, <1>5, <1>6 DEF Known, Keyed
<1>12. Once'
  <2> SUFFICES ASSUME NEW q \in Requests
               PROVE  (/\ step[q] # "idle" => answer[q] = NULL
                       /\ ~ Keyed(q) /\ q \in sessions => Has(q) \/ answer[q] # NULL
                       /\ ~ Keyed(q) /\ step[q] \in {"find", "insert"} => q \notin sessions
                       /\ ~ Keyed(q) /\ step[q] = "message" => messages[q] = << >>)'
    BY DEF Once
  <2>1. CASE q = r
    BY <2>1, <1>1, <1>4, <1>5, <1>7 DEF Has
  <2>2. CASE q # r
    BY <2>2, <1>1, <1>4, <1>5, <1>6 DEF Once, Keyed
  <2> QED
    BY <2>1, <2>2
<1>13. Told'
  BY <1>1, <1>4, <1>5 DEF Told
<1> QED
  BY <1>8, <1>9, <1>10, <1>11, <1>12, <1>13

\* The message of a delegation is stored where no message was.
LEMMA StoreKeeps ==
    ASSUME RequestsAssumption, IInv, NEW r \in Requests, StoreMessage(r)
    PROVE  IInv'
<1> USE DEF IInv
<1>1. /\ step[r] = "message" /\ answer[r] = NULL /\ Has(r) /\ child[r] \in sessions
      /\ UNCHANGED <<sessions, archived, holder, faults>>
      /\ sessions \subseteq Requests
  BY DEF StoreMessage, Once, Known, Has, TypeOK
<1>2. child[r] \in Requests
  BY <1>1
<1>3. CASE /\ BodyOf[r] = NULL \/ (Stored(r) /\ messages[child[r]][1] = BodyOf[r])
           /\ Goto(r, "reply") /\ UNCHANGED <<messages, child, answer>>
  <2>1. /\ step' \in [Requests -> {"idle", "lock", "find", "insert", "message", "reply"}]
        /\ \A q \in Requests \ {r} : step'[q] = step[q]
        /\ step'[r] = "reply"
    BY <1>3 DEF Goto, TypeOK
  <2>2. \A q \in Requests : Has(q)' = Has(q)
    BY <1>1, <1>3, <2>1 DEF Has
  <2>3. BodyOf[r] # NULL => messages[child[r]] = <<BodyOf[r]>>
    <3>1. ASSUME NEW b \in Bodies, messages[child[r]] = <<b>>, messages[child[r]][1] = BodyOf[r]
          PROVE  messages[child[r]] = <<BodyOf[r]>>
      BY <3>1
    <3> QED
      BY <1>2, <1>3, <3>1 DEF Told, Stored
  <2>4. TypeOK'
    BY <1>1, <1>3, <2>1 DEF TypeOK
  <2>5. Locked' /\ OneSession' /\ Known'
    BY <1>1, <1>3, <2>1, <2>2 DEF Locked, OneSession, Known, Keyed
  <2>6. Once'
    BY <1>1, <1>3, <2>1, <2>2 DEF Once, Keyed
  <2>7. Told'
    BY <1>1, <1>3, <2>1, <2>3 DEF Told
  <2> QED
    BY <2>4, <2>5, <2>6, <2>7
<1>4. CASE /\ BodyOf[r] # NULL /\ ~ Stored(r)
           /\ messages' = [messages EXCEPT ![child[r]] = Append(@, BodyOf[r])]
           /\ Goto(r, "reply") /\ UNCHANGED <<child, answer>>
  <2>1. /\ step' \in [Requests -> {"idle", "lock", "find", "insert", "message", "reply"}]
        /\ \A q \in Requests \ {r} : step'[q] = step[q]
        /\ step'[r] = "reply"
    BY <1>4 DEF Goto, TypeOK
  <2>2. \A q \in Requests : Has(q)' = Has(q)
    BY <1>1, <1>4, <2>1 DEF Has
  <2>3. messages[child[r]] = << >>
    BY <1>1, <1>4 DEF Stored, Once, Known
  <2>4. BodyOf[r] \in Bodies
    BY <1>4 DEF Bodies
  <2>5. /\ messages' = [messages EXCEPT ![child[r]] = <<BodyOf[r]>>]
        /\ <<BodyOf[r]>> \in Seq(Bodies)
    <3>1. Append(<< >>, BodyOf[r]) = <<BodyOf[r]>>
      OBVIOUS
    <3>2. <<BodyOf[r]>> \in Seq(Bodies)
      BY <2>4
    <3> QED
      BY <1>4, <2>3, <3>1, <3>2
  <2>6. messages' \in [Requests -> Seq(Bodies)]
    BY <1>2, <2>5 DEF TypeOK
  <2>7. /\ messages'[child[r]] = <<BodyOf[r]>>
        /\ \A s \in Requests \ {child[r]} : messages'[s] = messages[s]
    BY <1>2, <2>5 DEF TypeOK
  <2>8. TypeOK'
    BY <1>1, <1>4, <2>1, <2>6, <2>7 DEF TypeOK
  <2>9. Locked' /\ OneSession' /\ Known'
    BY <1>1, <1>4, <2>1, <2>2 DEF Locked, OneSession, Known, Keyed
  <2>10. Once'
    <3>1. ASSUME NEW q \in Requests \ {r}, ~ Keyed(q), step[q] = "message"
          PROVE  q # child[r]
      BY <1>1, <3>1 DEF Known, Keyed, Has
    <3> QED
      BY <1>1, <1>4, <2>1, <2>2, <2>7, <3>1 DEF Once, Keyed
  <2>11. Told'
    <3>1. ASSUME NEW q \in Requests \ {r}, step[q] = "reply" \/ answer[q] = "ok",
                 BodyOf[q] # NULL
          PROVE  messages'[child[q]] = <<BodyOf[q]>>
      <4>1. messages[child[q]] = <<BodyOf[q]>> /\ child[q] \in Requests
        BY <1>1, <3>1 DEF Told, Known, Has
      <4>2. Len(<<BodyOf[q]>>) = 1 /\ Len(<< >>) = 0
        OBVIOUS
      <4>3. Len(messages[child[q]]) = 1
        BY <4>1, <4>2
      <4>4. Len(messages[child[r]]) = 0
        BY <2>3, <4>2
      <4>5. child[q] # child[r]
        BY <4>3, <4>4
      <4> QED
        BY <2>7, <4>1, <4>5
    <3>2. \A s \in Requests : messages'[s] = << >> \/ \E b \in Bodies : messages'[s] = <<b>>
      BY <2>4, <2>7 DEF Told
    <3> QED
      BY <1>4, <2>1, <2>7, <3>1, <3>2 DEF Told
  <2> QED
    BY <2>8, <2>9, <2>10, <2>11
<1>5. CASE Tell(r, "conflict") /\ Goto(r, "idle") /\ UNCHANGED <<messages, child>>
  <2>1. /\ step' \in [Requests -> {"idle", "lock", "find", "insert", "message", "reply"}]
        /\ answer' \in [Requests -> {NULL, "ok", "conflict", "lost"}]
        /\ \A q \in Requests \ {r} : step'[q] = step[q] /\ answer'[q] = answer[q]
        /\ step'[r] = "idle" /\ answer'[r] = "conflict"
    BY <1>5 DEF Goto, Tell, TypeOK
  <2>2. \A q \in Requests \ {r} : Has(q)' = Has(q)
    BY <2>1 DEF Has
  <2>3. ~ Has(r)'
    BY <2>1 DEF Has
  <2>4. TypeOK'
    BY <1>1, <1>5, <2>1 DEF TypeOK
  <2>5. Locked' /\ OneSession' /\ Known'
    BY <1>1, <1>5, <2>1, <2>2, <2>3 DEF Locked, OneSession, Known, Keyed
  <2>6. Once'
    BY <1>1, <1>5, <2>1, <2>2 DEF Once, Keyed
  <2>7. Told'
    BY <1>1, <1>5, <2>1 DEF Told
  <2> QED
    BY <2>4, <2>5, <2>6, <2>7
<1> QED
  BY <1>3, <1>4, <1>5 DEF StoreMessage

\* An answer names the session whose message was stored before.
LEMMA ReplyKeeps ==
    ASSUME RequestsAssumption, IInv, NEW r \in Requests, Reply(r)
    PROVE  IInv'
<1> USE DEF IInv
<1>1. /\ step' \in [Requests -> {"idle", "lock", "find", "insert", "message", "reply"}]
      /\ answer' \in [Requests -> {NULL, "ok", "conflict", "lost"}]
      /\ \A q \in Requests \ {r} : step'[q] = step[q] /\ answer'[q] = answer[q]
      /\ step[r] = "reply" /\ step'[r] = "idle" /\ answer'[r] = "ok"
  BY DEF Reply, Goto, Tell, TypeOK
<1>2. UNCHANGED <<sessions, messages, archived, child, holder, faults>>
  BY DEF Reply
<1>3. \A q \in Requests : Has(q)' = Has(q)
  BY <1>1 DEF Has
<1>4. TypeOK'
  BY <1>1, <1>2 DEF TypeOK
<1>5. Locked' /\ OneSession' /\ Known'
  BY <1>1, <1>2, <1>3 DEF Locked, OneSession, Known, Keyed
<1>6. Once'
  BY <1>1, <1>2, <1>3 DEF Once, Keyed
<1>7. Told'
  BY <1>1, <1>2 DEF Told
<1> QED
  BY <1>4, <1>5, <1>6, <1>7

\* Requests whose handlers are gone know nothing, and hold nothing.
LEMMA ForgottenKeeps ==
    ASSUME RequestsAssumption, IInv, NEW R \in SUBSET Running, Fault, Forgotten(R),
           UNCHANGED tableVars
    PROVE  IInv'
<1> USE DEF IInv
<1>1. /\ \A q \in R : q \in Requests /\ answer[q] = NULL
      /\ \A q \in R : step'[q] = "idle" /\ child'[q] = NULL
      /\ \A q \in R : answer'[q] = IF Keyed(q) THEN NULL ELSE "lost"
      /\ \A q \in Requests \ R : step'[q] = step[q] /\ child'[q] = child[q] /\ answer'[q] = answer[q]
  BY DEF Forgotten, Running, Once, TypeOK
<1>2. /\ step' \in [Requests -> {"idle", "lock", "find", "insert", "message", "reply"}]
      /\ child' \in [Requests -> sessions \cup {NULL}]
      /\ answer' \in [Requests -> {NULL, "ok", "conflict", "lost"}]
      /\ faults' \in 0 .. MaxFaults
  BY DEF Forgotten, Fault, TypeOK
<1>3. /\ holder' \in [Keys -> Requests \cup {NULL}]
      /\ \A q \in Requests \ R, k \in Keys : holder[k] = q => holder'[k] = q
  BY DEF Forgotten, TypeOK
<1>4. /\ \A q \in R : ~ Has(q)'
      /\ \A q \in Requests \ R : Has(q)' = Has(q)
  BY <1>1 DEF Has
<1>5. TypeOK'
  BY <1>2, <1>3 DEF TypeOK
<1>6. Locked'
  <2>1. \A q \in Requests \ R : step[q] \in {"find", "insert"} /\ Keyed(q) =>
                                 holder'[KeyOf[q]] = q
    BY <1>3 DEF Locked, Keyed, Keys
  <2> QED
    BY <1>1, <2>1 DEF Locked, Keyed
<1>7. OneSession' /\ Known'
  BY <1>1, <1>4 DEF OneSession, Known, Keyed
<1>8. Once'
  BY <1>1, <1>4 DEF Once, Keyed
<1>9. Told'
  BY <1>1, ZenonT(40) DEF Told
<1> QED
  BY <1>5, <1>6, <1>7, <1>8, <1>9

\* So do lost connections, the death of Fleet and archiving.
LEMMA NextKeeps ==
    ASSUME RequestsAssumption, IInv, [Next]_vars
    PROVE  IInv'
<1>1. ASSUME NEW r \in Requests, Fail(r)
      PROVE  IInv'
  BY <1>1, ForgottenKeeps DEF Fail
<1>2. CASE Crash
  BY <1>2, ForgottenKeeps DEF Crash
<1>3. CASE Archive
  BY <1>3 DEF Archive, IInv, TypeOK, Locked, OneSession, Known, Once, Told, Has, Keyed
<1>4. CASE UNCHANGED vars
  BY <1>4 DEF vars, IInv, TypeOK, Locked, OneSession, Known, Once, Told, Has, Keyed
<1> QED
  BY <1>1, <1>2, <1>3, <1>4, SendKeeps, LockKeeps, FindKeeps, InsertKeeps,
     StoreKeeps, ReplyKeeps DEF Next, Handler

\* An answered request has its session and its first message.
LEMMA IInvImplies == ASSUME IInv PROVE AnsweredIsComplete
  BY DEF IInv, OneSession, Known, Told, Has, AnsweredIsComplete

\* Locks, sessions, messages and answers agree in every reachable state.
THEOREM Inductive ==
    ASSUME RequestsAssumption
    PROVE  Spec => []IInv
<1>1. Init => IInv
  BY InitIInv
<1>2. IInv /\ [Next]_vars => IInv'
  BY NextKeeps
<1> QED
  BY <1>1, <1>2, PTL DEF Spec

\* Every reachable state is well typed; a request is only about a session that
\* there is.
THEOREM TypeCorrect ==
    ASSUME RequestsAssumption
    PROVE  Spec => []TypeOK
<1>1. IInv => TypeOK
  BY DEF IInv
<1> QED
  BY <1>1, Inductive, PTL

\* However often requests are lost and repeated, a key opens one session, and a
\* request that succeeded finds its first message there exactly once.
THEOREM AnsweredIsCompleteHolds ==
    ASSUME RequestsAssumption
    PROVE  Spec => []AnsweredIsComplete
<1>1. IInv => AnsweredIsComplete
  BY IInvImplies
<1> QED
  BY <1>1, Inductive, PTL
=============================================================================
