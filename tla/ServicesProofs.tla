--------------------------- MODULE ServicesProofs ---------------------------
(* Machine-checked safety of the composed services: what each keeps by     *)
(* itself it keeps here, for all values of the constants of all of them.   *)
EXTENDS Services, TLAPS

USE ServicesAssumption DEF jobVars, sessionVars, settingsVars, alertVars

-----------------------------------------------------------------------------
(* Alerts of one agent.                                                    *)

Scans == [age : Alert!Ages, active : {"unread", "yes", "no"}]

\* The type invariant of Alerts: what scans and tasks know, and the counts.
Watched ==
    /\ status \in {"up", "down", "other"}
    /\ beat \in {"fresh", "stale", "unknown"}
    /\ scan \in [Scanners -> Scans \cup {NULL}]
    /\ task \in [Tasks -> {NULL, "down", "recovered", "recovered2"}]

Counted ==
    /\ open \in [Alert!Kinds -> Nat]
    /\ acknowledged \in [Alert!Kinds -> Nat]

AlertsInv == Watched /\ Counted /\ OneHeartbeatAlert

USE DEF Alert!Kinds, Alert!Active

\* A scan or task raises an alert of a kind, for heartbeat_stale only when none
\* is active, or resolves all of a kind, or a user acknowledges one.
LEMMA AlertSteps ==
    ASSUME Alert!Next
    PROVE  \/ UNCHANGED <<open, acknowledged>>
           \/ Alert!Raise("agent_down")
           \/ Alert!Active("heartbeat_stale") = 0 /\ Alert!Raise("heartbeat_stale")
           \/ \E k \in Alert!Kinds : Alert!Resolve(k) \/ Alert!Acknowledge(k)
<1>1. ASSUME NEW s \in Scanners, Alert!Scan(s)
      PROVE  \/ UNCHANGED <<open, acknowledged>>
             \/ Alert!Active("heartbeat_stale") = 0 /\ Alert!Raise("heartbeat_stale")
             \/ Alert!Resolve("heartbeat_stale")
  BY <1>1 DEF Alert!Scan, Alert!ReadAgents, Alert!ReadAlerts, Alert!RaiseStale,
              Alert!ResolveFresh, Alert!EndScan, Alert!alertVars
<1>2. ASSUME NEW t \in Tasks, Alert!Task(t)
      PROVE  \/ UNCHANGED <<open, acknowledged>>
             \/ Alert!Raise("agent_down")
             \/ Alert!Resolve("agent_down") \/ Alert!Resolve("heartbeat_stale")
  BY <1>2 DEF Alert!Task, Alert!RecordDown, Alert!RecordRecovered, Alert!TaskFails,
              Alert!alertVars
<1>3. CASE Alert!StatusWritten \/ Alert!TimePasses
  BY <1>3 DEF Alert!StatusWritten, Alert!TimePasses, Alert!alertVars
<1> QED
  BY <1>1, <1>2, <1>3 DEF Alert!Next

\* What scanners and tasks remember are states of the agent.
LEMMA WatchedKeeps ==
    ASSUME Watched, Alert!Next
    PROVE  Watched'
<1> USE DEF Watched, Scans, Alert!Ages, Alert!alertVars
<1>1. CASE Alert!StatusWritten
  <2>1. status' \in {"up", "down", "other"} /\ beat' \in {"fresh", "stale", "unknown"}
    BY <1>1 DEF Alert!StatusWritten
  <2>2. task' \in [Tasks -> {NULL, "down", "recovered", "recovered2"}]
    BY <1>1 DEF Alert!StatusWritten
  <2> QED
    BY <1>1, <2>1, <2>2 DEF Alert!StatusWritten
<1>2. CASE Alert!TimePasses
  <2> DEFINE old(s) == IF scan[s] # NULL /\ scan[s].age = "fresh"
                       THEN [scan[s] EXCEPT !.age = "stale"] ELSE scan[s]
  <2>1. \A s \in Scanners : old(s) \in Scans \cup {NULL}
    OBVIOUS
  <2>2. scan' = [s \in Scanners |-> old(s)]
    BY <1>2 DEF Alert!TimePasses
  <2> HIDE DEF old
  <2>3. scan' \in [Scanners -> Scans \cup {NULL}]
    BY <2>1, <2>2
  <2> QED
    BY <1>2, <2>3 DEF Alert!TimePasses
<1>3. ASSUME NEW s \in Scanners, Alert!Scan(s)
      PROVE  Watched'
  <2>1. CASE Alert!ReadAgents(s)
    <3>1. [age |-> Alert!Age, active |-> "unread"] \in Scans
      BY DEF Alert!Age
    <3> QED
      BY <2>1, <3>1 DEF Alert!ReadAgents
  <2>2. CASE Alert!ReadAlerts(s)
    <3> DEFINE a == IF Alert!Active("heartbeat_stale") > 0 THEN "yes" ELSE "no"
               h == [scan[s] EXCEPT !.active = a]
    <3>1. scan[s] \in Scans
      BY <2>2 DEF Alert!ReadAlerts
    <3>2. h \in Scans
      BY <3>1
    <3>3. scan' = [scan EXCEPT ![s] = h]
      BY <2>2 DEF Alert!ReadAlerts
    <3> QED
      BY <2>2, <3>2, <3>3 DEF Alert!ReadAlerts
  <2>3. CASE Alert!RaiseStale(s) \/ Alert!ResolveFresh(s) \/ Alert!EndScan(s)
    BY <2>3 DEF Alert!RaiseStale, Alert!ResolveFresh, Alert!EndScan
  <2> QED
    BY <1>3, <2>1, <2>2, <2>3 DEF Alert!Scan
<1>4. ASSUME NEW t \in Tasks, Alert!Task(t)
      PROVE  Watched'
  BY <1>4 DEF Alert!Task, Alert!RecordDown, Alert!RecordRecovered, Alert!TaskFails
<1>5. ASSUME NEW k \in Alert!Kinds, Alert!Acknowledge(k)
      PROVE  Watched'
  BY <1>5 DEF Alert!Acknowledge
<1> QED
  BY <1>1, <1>2, <1>3, <1>4, <1>5 DEF Alert!Next

\* An acknowledged alert stays active.
LEMMA AcknowledgeKeeps ==
    ASSUME Counted, OneHeartbeatAlert, NEW k \in Alert!Kinds, Alert!Acknowledge(k)
    PROVE  Counted' /\ OneHeartbeatAlert'
<1>1. open[k] - 1 \in Nat /\ acknowledged[k] + 1 \in Nat
  BY DEF Counted, Alert!Acknowledge
<1>2. Counted'
  BY <1>1 DEF Counted, Alert!Acknowledge
<1>3. Alert!Active("heartbeat_stale")' = Alert!Active("heartbeat_stale")
  BY <1>1 DEF Counted, Alert!Acknowledge
<1> QED
  BY <1>2, <1>3 DEF OneHeartbeatAlert, Alert!OneHeartbeatAlert

\* Counts move by the steps of AlertSteps only.
LEMMA AlertsKeep ==
    ASSUME AlertsInv, Alert!Next
    PROVE  AlertsInv'
<1>1. Counted' /\ OneHeartbeatAlert'
  <2> USE DEF AlertsInv, Counted, OneHeartbeatAlert, Alert!OneHeartbeatAlert
  <2>1. CASE UNCHANGED <<open, acknowledged>>
    BY <2>1
  <2>2. CASE Alert!Raise("agent_down")
    BY <2>2 DEF Alert!Raise
  <2>3. CASE Alert!Active("heartbeat_stale") = 0 /\ Alert!Raise("heartbeat_stale")
    BY <2>3 DEF Alert!Raise
  <2>4. ASSUME NEW k \in Alert!Kinds, Alert!Resolve(k)
        PROVE  Counted' /\ OneHeartbeatAlert'
    BY <2>4 DEF Alert!Resolve
  <2> QED
    BY <2>1, <2>2, <2>3, <2>4, AlertSteps, AcknowledgeKeeps
<1> QED
  BY <1>1, WatchedKeeps DEF AlertsInv

-----------------------------------------------------------------------------
(* Managed settings, for any number of operators, versions and faults.     *)

\* A request about to be activated was validated, one about to be scheduled
\* stands for a version that is there.
PendingFits ==
    \A o \in Operators :
        /\ Settings!At(o, "activate") => Settings!Valid(request[o].snapshot)
        /\ Settings!At(o, "schedule") => request[o].version \in Settings!Activated

\* Each version replaced an earlier one, and no version lies between the two.
OneChain ==
    /\ \A v \in Settings!Activated : replaced[v] < v
    /\ \A v, w \in Settings!Activated : v < w => v <= replaced[w]

\* What a step that leaves the process alone may disturb.
RequestsFit ==
    request \in [Operators -> Settings!Asked \cup {NULL}] /\ PendingFits /\ OneChain

SettingsInv == Settings!TypeOK /\ PendingFits /\ OneChain

USE DEF Settings!SettingsAssumption, Settings!versionVars, Settings!processVars,
        Settings!Numbers, Settings!Versions, Settings!Activated, Settings!At,
        Settings!Asked, Settings!Valid, RequestsFit

\* No version has been activated yet.
LEMMA InitSettingsInv ==
    ASSUME Settings!Init
    PROVE  SettingsInv
<1>1. Settings!Activated = {}
  BY DEF Settings!Init
<1>2. 0 \in Settings!Numbers /\ 0 \in 0 .. SettingsFaults /\ SettingsFaults \in Nat
  OBVIOUS
<1>3. /\ content \in [Settings!Versions -> (Snapshots \ Invalid) \cup {NULL}]
      /\ replaced \in [Settings!Versions -> Settings!Numbers]
      /\ request \in [Operators -> Settings!Asked \cup {NULL}]
  BY <1>2 DEF Settings!Init
<1>4. /\ promised \subseteq Settings!Activated
      /\ loaded \in Settings!Activated \cup {0} /\ active \in Settings!Activated \cup {0}
      /\ \A v \in Settings!Activated : v <= active
  BY <1>1 DEF Settings!Init
<1>5. active <= issued /\ loaded <= active
  BY DEF Settings!Init
<1>6. Settings!TypeOK
  BY <1>2, <1>3, <1>4, <1>5 DEF Settings!Init, Settings!TypeOK
<1>7. PendingFits /\ OneChain
  BY <1>1 DEF Settings!Init, PendingFits, OneChain
<1> QED
  BY <1>6, <1>7 DEF SettingsInv

\* A step that leaves the versions alone and moves the request of one operator.
LEMMA MoveTyped ==
    ASSUME SettingsInv, NEW o \in Operators,
           NEW q \in Settings!Asked \cup {NULL},
           request' = [request EXCEPT ![o] = q],
           UNCHANGED Settings!versionVars,
           q # NULL /\ q.step = "activate" => Settings!Valid(q.snapshot),
           q # NULL => q.step # "schedule"
    PROVE  RequestsFit'
  BY DEF SettingsInv, Settings!TypeOK, PendingFits, OneChain

\* A request that ends stands for nothing.
LEMMA DoneMoves ==
    ASSUME SettingsInv, NEW o \in Operators, Settings!Done(o),
           UNCHANGED Settings!versionVars
    PROVE  RequestsFit'
  BY MoveTyped DEF Settings!Done

\* A request names the version its operator saw.
LEMMA AskKeeps ==
    ASSUME SettingsInv, NEW o \in Operators, NEW s \in Snapshots,
           Settings!Ask(o, s)
    PROVE  SettingsInv'
<1> DEFINE q == [step |-> "check", version |-> active, snapshot |-> s]
<1>1. q \in Settings!Asked
  BY DEF SettingsInv, Settings!TypeOK
<1>2. RequestsFit'
  BY <1>1, MoveTyped DEF Settings!Ask
<1> QED
  BY <1>2 DEF Settings!Ask, SettingsInv, Settings!TypeOK

\* What passes the check is valid, whatever is active by now.
LEMMA CheckKeeps ==
    ASSUME SettingsInv, NEW o \in Operators, Settings!Check(o)
    PROVE  SettingsInv'
<1>1. request[o] \in Settings!Asked
  BY DEF Settings!Check, SettingsInv, Settings!TypeOK
<1>2. CASE Settings!Done(o)
  BY <1>2, DoneMoves DEF Settings!Check, SettingsInv, Settings!TypeOK
<1>3. CASE ~ Settings!Done(o)
  <2> DEFINE q == [request[o] EXCEPT !.step = "activate"]
  <2>1. Settings!Goto(o, "activate") /\ Settings!Valid(request[o].snapshot)
    BY <1>3 DEF Settings!Check
  <2>2. /\ q \in Settings!Asked /\ q.step = "activate"
        /\ q.snapshot = request[o].snapshot
    BY <1>1
  <2>3. request' = [request EXCEPT ![o] = q]
    BY <2>1, <1>1 DEF Settings!Goto, SettingsInv, Settings!TypeOK
  <2>4. RequestsFit'
    BY <2>1, <2>2, <2>3, MoveTyped DEF Settings!Check
  <2> QED
    BY <2>4 DEF Settings!Check, SettingsInv, Settings!TypeOK
<1> QED
  BY <1>2, <1>3

\* The new version follows all others and replaces the active one.
LEMMA InsertKeeps ==
    ASSUME SettingsInv, NEW o \in Operators, Settings!At(o, "activate"),
           request[o].version = active, Settings!Insert(o),
           UNCHANGED <<promised, Settings!processVars, faults>>
    PROVE  SettingsInv'
<1> DEFINE n == issued + 1
           q == [request[o] EXCEPT !.step = "schedule", !.version = n]
<1>1. /\ request[o] \in Settings!Asked /\ request[o] # NULL
      /\ Settings!Valid(request[o].snapshot)
      /\ request[o].snapshot \in Snapshots \ Invalid /\ request[o].snapshot # NULL
  BY DEF SettingsInv, Settings!TypeOK, PendingFits
<1>2. /\ n \in Settings!Versions /\ n \in Settings!Numbers /\ n \notin Settings!Activated
      /\ active < n /\ active \in Settings!Numbers
  BY DEF Settings!Insert, SettingsInv, Settings!TypeOK
<1>3. q \in Settings!Asked /\ q.version = n /\ q.step = "schedule"
  BY <1>1, <1>2
<1>4. request' = [request EXCEPT ![o] = q]
  BY <1>1 DEF Settings!Insert, SettingsInv, Settings!TypeOK
<1>5. Settings!Activated' = Settings!Activated \cup {n}
  BY <1>1, <1>2 DEF Settings!Insert, SettingsInv, Settings!TypeOK
<1>6. \A v \in Settings!Activated : v <= active /\ v \in Settings!Versions
  BY DEF SettingsInv, Settings!TypeOK
<1>7. Settings!TypeOK'
  <2>1. content' \in [Settings!Versions -> (Snapshots \ Invalid) \cup {NULL}]
    BY <1>1, <1>2 DEF Settings!Insert, SettingsInv, Settings!TypeOK
  <2>2. replaced' \in [Settings!Versions -> Settings!Numbers]
    BY <1>2 DEF Settings!Insert, SettingsInv, Settings!TypeOK
  <2>3. request' \in [Operators -> Settings!Asked \cup {NULL}]
    BY <1>3, <1>4 DEF SettingsInv, Settings!TypeOK
  <2>4. active' = n /\ issued' = n
    BY DEF Settings!Insert
  <2>5. \A v \in Settings!Activated' : v <= active'
    BY <1>2, <1>5, <1>6, <2>4
  <2>6. loaded' <= active' /\ loaded' \in Settings!Activated' \cup {0}
    BY <1>2, <1>5, <2>4 DEF SettingsInv, Settings!TypeOK
  <2>7. /\ promised' \subseteq Settings!Activated'
        /\ active' \in Settings!Activated' \cup {0}
    BY <1>5, <2>4 DEF SettingsInv, Settings!TypeOK
  <2> QED
    BY <1>2, <2>1, <2>2, <2>3, <2>4, <2>5, <2>6, <2>7
       DEF SettingsInv, Settings!TypeOK
<1>8. PendingFits'
  <2> SUFFICES ASSUME NEW p \in Operators
               PROVE  /\ Settings!At(p, "activate")' =>
                            Settings!Valid(request[p].snapshot)'
                      /\ Settings!At(p, "schedule")' =>
                            request'[p].version \in Settings!Activated'
    BY DEF PendingFits
  <2>1. CASE p = o
    BY <2>1, <1>3, <1>4, <1>5 DEF SettingsInv, Settings!TypeOK
  <2>2. CASE p # o
    BY <2>2, <1>4, <1>5 DEF SettingsInv, Settings!TypeOK, PendingFits
  <2> QED
    BY <2>1, <2>2
<1>9. OneChain'
  <2>1. replaced' = [replaced EXCEPT ![n] = active]
    BY DEF Settings!Insert
  <2>2. \A v \in Settings!Activated : v # n /\ replaced'[v] = replaced[v]
    BY <1>2, <2>1 DEF SettingsInv, Settings!TypeOK
  <2>3. replaced'[n] = active
    BY <1>2, <2>1 DEF SettingsInv, Settings!TypeOK
  <2>4. \A v \in Settings!Activated' : replaced'[v] < v
    BY <1>2, <1>5, <2>2, <2>3 DEF SettingsInv, OneChain
  <2>5. \A v, w \in Settings!Activated' : v < w => v <= replaced'[w]
    <3> SUFFICES ASSUME NEW v \in Settings!Activated',
                        NEW w \in Settings!Activated', v < w
                 PROVE  v <= replaced'[w]
      OBVIOUS
    <3>1. CASE w = n
      BY <3>1, <1>2, <1>5, <1>6, <2>3
    <3>2. CASE w # n
      BY <3>2, <1>2, <1>5, <1>6, <2>2 DEF SettingsInv, OneChain
    <3> QED
      BY <3>1, <3>2
  <2> QED
    BY <2>4, <2>5 DEF OneChain
<1> QED
  BY <1>7, <1>8, <1>9 DEF SettingsInv

\* An activation extends the chain, or finds that it is no longer the last.
LEMMA ActivateKeeps ==
    ASSUME SettingsInv, NEW o \in Operators, Settings!Activate(o)
    PROVE  SettingsInv'
<1>1. CASE request[o].version = active
  BY <1>1, InsertKeeps DEF Settings!Activate
<1>2. CASE request[o].version # active
  BY <1>2, DoneMoves DEF Settings!Activate, SettingsInv, Settings!TypeOK
<1> QED
  BY <1>1, <1>2

\* A restart is promised for an activated version.
LEMMA ScheduleKeeps ==
    ASSUME SettingsInv, NEW o \in Operators, Settings!Schedule(o)
    PROVE  SettingsInv'
<1>1. request[o].version \in Settings!Activated
  BY DEF Settings!Schedule, SettingsInv, PendingFits
<1> QED
  BY <1>1, DoneMoves DEF Settings!Schedule, SettingsInv, Settings!TypeOK

\* A handler that ends early, with its number used up or not.
LEMMA EndKeeps ==
    ASSUME SettingsInv, NEW o \in Operators,
           Settings!ActivateFails(o) \/ Settings!Disconnect(o)
    PROVE  SettingsInv'
<1>1. /\ request' \in [Operators -> Settings!Asked \cup {NULL}]
      /\ \A p \in Operators : request'[p] = request[p] \/ request'[p] = NULL
  BY DEF Settings!ActivateFails, Settings!Disconnect, Settings!Done,
         SettingsInv, Settings!TypeOK
<1>2. issued' \in Settings!Numbers /\ active' <= issued'
  BY DEF Settings!ActivateFails, Settings!Disconnect, SettingsInv,
         Settings!TypeOK
<1>3. faults' \in 0 .. SettingsFaults
  BY DEF Settings!ActivateFails, Settings!Disconnect, Settings!Fault,
         SettingsInv, Settings!TypeOK
<1>4. UNCHANGED <<active, content, replaced, promised, Settings!processVars>>
  BY DEF Settings!ActivateFails, Settings!Disconnect
<1>5. Settings!Activated' = Settings!Activated
  BY <1>4
<1>6. Settings!TypeOK'
  BY <1>1, <1>2, <1>3, <1>4, <1>5 DEF SettingsInv, Settings!TypeOK
<1>7. PendingFits'
  BY <1>1, <1>5 DEF SettingsInv, PendingFits
<1>8. OneChain'
  BY <1>4, <1>5 DEF SettingsInv, OneChain
<1> QED
  BY <1>6, <1>7, <1>8 DEF SettingsInv

\* Fleet loads the active version when it starts; the chain stays.
LEMMA ProcessKeeps ==
    ASSUME SettingsInv, Settings!Process \/ Settings!Crash
    PROVE  SettingsInv'
<1>1. /\ UNCHANGED <<active, issued, content, replaced, promised>>
      /\ Settings!Activated' = Settings!Activated
  BY DEF Settings!Process, Settings!Crash, Settings!BeginRestart, Settings!Exit,
         Settings!Start, Settings!GoDown
<1>2. \/ request' = request
      \/ request' = [o \in Operators |-> NULL]
  BY DEF Settings!Process, Settings!Crash, Settings!BeginRestart, Settings!Exit,
         Settings!Start, Settings!GoDown
<1>3. faults' \in 0 .. SettingsFaults
  BY DEF Settings!Process, Settings!Crash, Settings!BeginRestart, Settings!Exit,
         Settings!Start, Settings!GoDown, Settings!Fault, SettingsInv,
         Settings!TypeOK
<1>4. /\ process' \in {"up", "draining", "down"} /\ restarting' \in BOOLEAN
      /\ loaded' \in {loaded, active}
  BY DEF Settings!Process, Settings!Crash, Settings!BeginRestart, Settings!Exit,
         Settings!Start, Settings!GoDown, SettingsInv, Settings!TypeOK
<1>5. loaded' \in Settings!Activated \cup {0} /\ loaded' <= active
  BY <1>4 DEF SettingsInv, Settings!TypeOK
<1>6. Settings!TypeOK'
  BY <1>1, <1>2, <1>3, <1>4, <1>5 DEF SettingsInv, Settings!TypeOK
<1>7. PendingFits'
  BY <1>1, <1>2 DEF SettingsInv, PendingFits
<1>8. OneChain'
  BY <1>1 DEF SettingsInv, OneChain
<1> QED
  BY <1>6, <1>7, <1>8 DEF SettingsInv

\* No step breaks the chain of versions.
LEMMA SettingsKeep ==
    ASSUME SettingsInv, [Settings!Next]_Settings!vars
    PROVE  SettingsInv'
<1>1. ASSUME NEW o \in Operators, Settings!Apply(o)
      PROVE  SettingsInv'
  BY <1>1, AskKeeps DEF Settings!Apply
<1>2. ASSUME NEW o \in Operators, Settings!Rollback(o)
      PROVE  SettingsInv'
  <2>1. PICK v \in Settings!Activated : Settings!Ask(o, content[v])
    BY <1>2 DEF Settings!Rollback
  <2>2. content[v] \in Snapshots
    BY DEF SettingsInv, Settings!TypeOK
  <2> QED
    BY <2>1, <2>2, AskKeeps
<1>3. CASE UNCHANGED Settings!vars
  BY <1>3 DEF Settings!vars, SettingsInv, Settings!TypeOK, PendingFits, OneChain
<1> QED
  BY <1>1, <1>2, <1>3, CheckKeeps, ActivateKeeps, ScheduleKeeps, EndKeeps,
     ProcessKeeps DEF Settings!Next, Settings!Api

\* In one chain no two versions replace the same.
LEMMA SettingsInvImplies == ASSUME SettingsInv PROVE Settings!NoLostUpdate
<1> SUFFICES ASSUME SettingsInv, NEW v \in Settings!Activated,
                    NEW w \in Settings!Activated, v # w
             PROVE  replaced[v] # replaced[w]
  BY DEF Settings!NoLostUpdate
<1>1. v \in Int /\ w \in Int /\ replaced[v] \in Int /\ replaced[w] \in Int
  BY DEF SettingsInv, Settings!TypeOK
<1>2. CASE v < w
  BY <1>1, <1>2 DEF SettingsInv, OneChain
<1>3. CASE w < v
  BY <1>1, <1>3 DEF SettingsInv, OneChain
<1> QED
  BY <1>1, <1>2, <1>3

\* The settings by themselves: every reachable state is well typed, so that no
\* version holds settings the validation refuses and no process runs a later one
\* than the active, and no change is lost unseen.
THEOREM SettingsAlone ==
    Settings!Spec => [](Settings!TypeOK /\ Settings!NoLostUpdate)
<1>1. SettingsInv => Settings!TypeOK /\ Settings!NoLostUpdate
  BY SettingsInvImplies DEF SettingsInv
<1> QED
  BY <1>1, InitSettingsInv, SettingsKeep, PTL DEF Settings!Spec

HIDE DEF Settings!SettingsAssumption, Settings!versionVars, Settings!processVars,
         Settings!Numbers, Settings!Versions, Settings!Activated, Settings!At,
         Settings!Asked, Settings!Valid, RequestsFit

-----------------------------------------------------------------------------
(* The service that acts keeps its own invariant; the others keep what the *)
(* invariant says of the rows they left.                                   *)

SInv ==
    /\ CompletedVerified /\ OncePerKey
    /\ service = "jobs" => Jobs!IInv
    /\ AnsweredIsComplete
    /\ service = "sessions" => Sessions!IInv
    /\ NoLostUpdate
    /\ service = "settings" => SettingsInv
    /\ AlertsInv

\* Whichever service acts, each begins with its own initial state.
LEMMA InitSInv == Init => SInv
<1> SUFFICES ASSUME Init PROVE SInv
  OBVIOUS
<1>1. Jobs!IInv /\ Sessions!IInv /\ SettingsInv
  BY Jobs!InitIInv, Sessions!InitIInv, InitSettingsInv DEF Init
<1>2. CompletedVerified /\ OncePerKey
  BY <1>1, Jobs!IInvImplies DEF CompletedVerified, OncePerKey
<1>3. AnsweredIsComplete /\ NoLostUpdate
  BY <1>1, Sessions!IInvImplies, SettingsInvImplies
     DEF AnsweredIsComplete, NoLostUpdate
<1>4. AlertsInv
  BY DEF Init, Alert!Init, AlertsInv, Watched, Counted, OneHeartbeatAlert,
         Alert!OneHeartbeatAlert
<1> QED
  BY <1>1, <1>2, <1>3, <1>4 DEF SInv

\* What a service keeps as long as its own rows stay.
LEMMA OthersKeep ==
    ASSUME SInv
    PROVE  /\ UNCHANGED jobVars => CompletedVerified' /\ OncePerKey'
           /\ UNCHANGED sessionVars => AnsweredIsComplete'
           /\ UNCHANGED settingsVars => NoLostUpdate'
           /\ UNCHANGED alertVars => AlertsInv'
<1>1. ASSUME UNCHANGED jobVars PROVE CompletedVerified' /\ OncePerKey'
  BY <1>1 DEF SInv, CompletedVerified, Jobs!CompletedVerified, OncePerKey,
              Jobs!OncePerKey, Jobs!Keys
<1>2. ASSUME UNCHANGED sessionVars PROVE AnsweredIsComplete'
  BY <1>2 DEF SInv, AnsweredIsComplete, Sessions!AnsweredIsComplete, Sessions!Keyed
<1>3. ASSUME UNCHANGED settingsVars PROVE NoLostUpdate'
  BY <1>3 DEF SInv, NoLostUpdate, Settings!NoLostUpdate, Settings!Activated
<1>4. ASSUME UNCHANGED alertVars PROVE AlertsInv'
  BY <1>4 DEF SInv, AlertsInv, Watched, Counted, OneHeartbeatAlert,
              Alert!OneHeartbeatAlert
<1> QED
  BY <1>1, <1>2, <1>3, <1>4

\* While jobs act the others keep what holds of their rows.
LEMMA JobsStep ==
    ASSUME SInv, InJobs(Jobs!Next)
    PROVE  SInv'
<1>1. Jobs!IInv'
  BY Jobs!NextKeeps DEF SInv, InJobs
<1>2. CompletedVerified' /\ OncePerKey'
  BY <1>1, Jobs!IInvImplies, PTL DEF CompletedVerified, OncePerKey
<1> QED
  BY <1>1, <1>2, OthersKeep DEF SInv, InJobs

\* The same for sessions.
LEMMA SessionsStep ==
    ASSUME SInv, InSessions(Sessions!Next)
    PROVE  SInv'
<1>1. Sessions!IInv'
  BY Sessions!NextKeeps DEF SInv, InSessions
<1>2. AnsweredIsComplete'
  BY <1>1, Sessions!IInvImplies, PTL DEF AnsweredIsComplete
<1> QED
  BY <1>1, <1>2, OthersKeep DEF SInv, InSessions

\* The same for settings.
LEMMA SettingsStep ==
    ASSUME SInv, InSettings(Settings!Next)
    PROVE  SInv'
<1>1. SettingsInv'
  BY SettingsKeep DEF SInv, InSettings
<1>2. NoLostUpdate'
  BY <1>1, SettingsInvImplies, PTL DEF NoLostUpdate
<1> QED
  BY <1>1, <1>2, OthersKeep DEF SInv, InSettings

\* The same for alerts.
LEMMA AlertsStep ==
    ASSUME SInv, InAlerts(Alert!Next)
    PROVE  SInv'
<1>1. AlertsInv'
  BY AlertsKeep DEF SInv, InAlerts
<1> QED
  BY <1>1, OthersKeep DEF SInv, InAlerts

\* Every variable of the acting service stays in a stuttering step.
LEMMA StutterKeeps ==
    ASSUME SInv, UNCHANGED vars
    PROVE  SInv'
<1>1. service = "jobs" => Jobs!IInv'
  BY Jobs!NextKeeps DEF SInv, vars, Jobs!vars, Jobs!tableVars, Jobs!apiVars,
                        Jobs!workerVars, Jobs!forgeVars, Jobs!outside
<1>2. service = "sessions" => Sessions!IInv'
  BY Sessions!NextKeeps DEF SInv, vars, Sessions!vars, Sessions!tableVars
<1>3. service = "settings" => SettingsInv'
  BY SettingsKeep DEF SInv, vars, Settings!vars, Settings!versionVars,
                            Settings!processVars
<1> QED
  BY <1>1, <1>2, <1>3, OthersKeep DEF SInv, vars

\* Each service keeps its invariant while it acts, in every reachable state.
THEOREM Inductive == Spec => []SInv
<1>1. SInv /\ [Next]_vars => SInv'
  BY JobsStep, SessionsStep, SettingsStep, AlertsStep, StutterKeeps DEF Next
<1> QED
  BY <1>1, InitSInv, PTL DEF Spec

-----------------------------------------------------------------------------
\* Every completed job of the composed system was released and was healthy.
THEOREM CompletedVerifiedHolds == Spec => []CompletedVerified
<1>1. SInv => CompletedVerified
  BY DEF SInv
<1> QED
  BY <1>1, Inductive, PTL

\* For any number of requests and keys, a key stands for one job and one
\* release, and an agent job for one pipeline.
THEOREM OncePerKeyHolds == Spec => []OncePerKey
<1>1. SInv => OncePerKey
  BY DEF SInv
<1> QED
  BY <1>1, Inductive, PTL

\* The composed system implements the ledger of keys: one job and one release
\* for a key, completed only with it, and over for good once it failed.
THEOREM RefinesLedger == Spec => ImplementsLedger
<1>1. Init => Jobs!Ledger!Init
  BY Jobs!LedgerInit DEF Init
<1>2. SInv /\ [Next]_vars => [Jobs!Ledger!Next]_(Jobs!Ledger!vars)
  <2> SUFFICES ASSUME SInv, [Next]_vars
               PROVE  Jobs!Ledger!Next \/ UNCHANGED Jobs!Ledger!vars
    OBVIOUS
  <2>1. CASE InJobs(Jobs!Next)
    BY <2>1, Jobs!LedgerStep DEF SInv, InJobs
  <2>2. CASE UNCHANGED jobVars
    BY <2>2 DEF Jobs!Ledger!vars, Jobs!KeysIn
  <2> QED
    BY <2>1, <2>2 DEF Next, InSessions, InSettings, InAlerts, vars
<1> QED
  BY <1>1, <1>2, Inductive, PTL
     DEF Spec, ImplementsLedger, Jobs!ImplementsLedger, Jobs!Ledger!Spec

\* However often requests are lost and repeated, a key opens one session, and a
\* request that succeeded finds its first message there exactly once.
THEOREM AnsweredIsCompleteHolds == Spec => []AnsweredIsComplete
<1>1. SInv => AnsweredIsComplete
  BY DEF SInv
<1> QED
  BY <1>1, Inductive, PTL

\* No two versions of the settings replaced the same one.
THEOREM NoLostUpdateHolds == Spec => []NoLostUpdate
<1>1. SInv => NoLostUpdate
  BY DEF SInv
<1> QED
  BY <1>1, Inductive, PTL

\* The variables of each service that acts, and those of Alerts always, are well
\* typed.
THEOREM TypeCorrect ==
    Spec => [](/\ service = "jobs" => Jobs!TypeOK
               /\ service = "sessions" => Sessions!TypeOK
               /\ service = "settings" => Settings!TypeOK
               /\ Alert!TypeOK)
<1>1. SInv => /\ service = "jobs" => Jobs!TypeOK
              /\ service = "sessions" => Sessions!TypeOK
              /\ service = "settings" => Settings!TypeOK
              /\ Alert!TypeOK
  BY DEF SInv, Jobs!IInv, Sessions!IInv, SettingsInv, AlertsInv, Watched, Counted,
         Scans, Alert!TypeOK
<1> QED
  BY <1>1, Inductive, PTL

\* However many Fleet processes scan, and whatever they have read before, the
\* agent has at most one active heartbeat_stale alert.
THEOREM OneHeartbeatAlertHolds == Spec => []OneHeartbeatAlert
<1>1. SInv => OneHeartbeatAlert
  BY DEF SInv, AlertsInv
<1> QED
  BY <1>1, Inductive, PTL
=============================================================================
