-------------------------- MODULE ManagedSettings --------------------------
(***************************************************************************)
(* Managed settings: numbered snapshots, one of them active, applied by a  *)
(* restart of the Fleet process.                                           *)
(*                                                                         *)
(* Operators look at the active version and ask for other settings, or for *)
(* those of an earlier version, naming the version they saw.  The handler  *)
(* compares it, activates a new version in one transaction and schedules a *)
(* restart; the process that starts next lays the active snapshot over its *)
(* own configuration.  A snapshot is one value, valid or not.              *)
(***************************************************************************)
EXTENDS Integers

CONSTANTS
    Operators,      \* each has one request at a time
    Snapshots,
    Invalid,        \* those that validate_managed_settings refuses
    Baseline,       \* the snapshot of the deployment's own configuration
    NULL,
    MaxVersion,     \* bound: version numbers handed out
    MaxFaults       \* bound: crashes, failing transactions, lost connections

VARIABLES
    active,         \* the active version, 0 without one
    issued,         \* the last version number handed out
    content,        \* the snapshot of each version, NULL without a row
    replaced,       \* the version its operator had seen (previous_version of its audit)
    request,        \* the request of each operator and where its handler is
    promised,       \* history: versions of which an operator was told
                    \* that a restart follows
    process,        \* "up", "draining" (graceful shutdown) or "down"
    loaded,         \* the version the process has laid over its configuration
    restarting,     \* was schedule_restart called in this process?
    faults          \* faults so far

versionVars == <<active, issued, content, replaced>>
processVars == <<process, loaded, restarting>>
vars == <<versionVars, request, promised, processVars, faults>>

Versions == 1 .. MaxVersion
Numbers == 0 .. MaxVersion

\* The versions there are.
Activated == {v \in Versions : content[v] # NULL}

\* A request: at its last step the version is the one it activated.
Asked == [step : {"check", "activate", "schedule"}, version : Numbers,
          snapshot : Snapshots]

\* What the theorems assume of the constants.
SettingsAssumption ==
    /\ MaxVersion \in Nat /\ MaxFaults \in Nat
    /\ NULL \notin Snapshots \cup Asked

TypeOK ==
    /\ active \in Numbers /\ issued \in Numbers
    /\ content \in [Versions -> (Snapshots \ Invalid) \cup {NULL}]
    /\ replaced \in [Versions -> Numbers]
    /\ request \in [Operators -> Asked \cup {NULL}]
    /\ promised \subseteq Activated
    /\ process \in {"up", "draining", "down"}
    /\ loaded \in Activated \cup {0}
    /\ restarting \in BOOLEAN
    /\ faults \in 0 .. MaxFaults
    /\ active \in Activated \cup {0}
    /\ active <= issued /\ loaded <= active
    /\ \A v \in Activated : v <= active

\* The snapshot a process that loaded version v runs with.
Config(v) == IF v = 0 THEN Baseline ELSE content[v]

Init ==
    /\ active = 0 /\ issued = 0
    /\ content = [v \in Versions |-> NULL]
    /\ replaced = [v \in Versions |-> 0]
    /\ request = [o \in Operators |-> NULL]
    /\ promised = {}
    /\ process = "up" /\ loaded = 0 /\ restarting = FALSE
    /\ faults = 0

-----------------------------------------------------------------------------
(* The handlers of apply and rollback.                                     *)

\* The handler of o is at step s of its request.
At(o, s) == request[o] # NULL /\ request[o].step = s

Goto(o, s) == request' = [request EXCEPT ![o].step = s]
Done(o) == request' = [request EXCEPT ![o] = NULL]

\* The operator has seen the active version and asks for snapshot s.
Ask(o, s) ==
    /\ process = "up" /\ request[o] = NULL
    /\ request' = [request EXCEPT ![o] =
                      [step |-> "check", version |-> active, snapshot |-> s]]
    /\ UNCHANGED <<versionVars, promised, processVars, faults>>

Apply(o) == \E s \in Snapshots : Ask(o, s)

\* The snapshot of a version never changes, whenever the handler reads it.
Rollback(o) == \E v \in Activated : Ask(o, content[v])

Valid(s) == s \notin Invalid

\* Are settings s other than what this process runs?  (Not: than the active
\* version, which a restart may still be about to load.)
Changed(s) == s # Config(loaded)

\* The handler validates the settings, compares the version with the active one,
\* and the settings with the running ones: without a change there is no version.
Check(o) ==
    /\ At(o, "check")
    /\ IF /\ Valid(request[o].snapshot)
          /\ request[o].version = active
          /\ Changed(request[o].snapshot)
       THEN Goto(o, "activate") ELSE Done(o)
    /\ UNCHANGED <<versionVars, promised, processVars, faults>>

\* The new version of o replaces the active one, which the audit takes to be the
\* expected one; the request now stands for it.
Insert(o) ==
    /\ issued < MaxVersion
    /\ issued' = issued + 1
    /\ active' = issued + 1
    /\ content' = [content EXCEPT ![issued + 1] = request[o].snapshot]
    /\ replaced' = [replaced EXCEPT ![issued + 1] = request[o].version]
    /\ request' = [request EXCEPT ![o].step = "schedule", ![o].version = issued + 1]

\* Mutant: the transaction trusts the comparison the handler made.
ActivateUncompared(o) ==
    /\ At(o, "activate")
    /\ Insert(o)
    /\ UNCHANGED <<promised, processVars, faults>>

\* One transaction at a time (an advisory lock) compares again, deactivates
\* the active version and inserts the new one with the next number.
Activate(o) ==
    /\ At(o, "activate")
    /\ \/ request[o].version = active /\ Insert(o)
       \/ /\ request[o].version # active
          /\ Done(o)
          /\ UNCHANGED versionVars
    /\ UNCHANGED <<promised, processVars, faults>>

\* Mutant: a restart is scheduled only by the first version.
ScheduleFirst(o) ==
    /\ At(o, "schedule")
    /\ restarting' = (replaced[request[o].version] = 0)
    /\ promised' = promised \cup {request[o].version}
    /\ Done(o)
    /\ UNCHANGED <<versionVars, process, loaded, faults>>

\* schedule_restart, and the answer that a restart follows.
Schedule(o) ==
    /\ At(o, "schedule")
    /\ restarting' = TRUE
    /\ promised' = promised \cup {request[o].version}
    /\ Done(o)
    /\ UNCHANGED <<versionVars, process, loaded, faults>>

-----------------------------------------------------------------------------
(* Faults and the process.                                                 *)

Fault == faults < MaxFaults /\ faults' = faults + 1

\* A transaction fails after it took its number, which is not used again.
ActivateFails(o) ==
    /\ Fault
    /\ At(o, "activate") /\ request[o].version = active /\ issued < MaxVersion
    /\ issued' = issued + 1
    /\ Done(o)
    /\ UNCHANGED <<active, content, replaced, promised, processVars>>

\* The connection of o breaks and its handler is dropped where it waits.
Disconnect(o) ==
    /\ Fault
    /\ request[o] # NULL
    /\ Done(o)
    /\ UNCHANGED <<versionVars, promised, processVars>>

\* 350 ms later the server stops listening and lets its requests finish ...
BeginRestart ==
    /\ process = "up" /\ restarting
    /\ process' = "draining"
    /\ UNCHANGED <<versionVars, request, promised, loaded, restarting, faults>>

GoDown ==
    /\ process' = "down" /\ restarting' = FALSE
    /\ request' = [o \in Operators |-> NULL]
    /\ UNCHANGED <<versionVars, promised, loaded>>

\* ... or drops them when that takes too long, and exits with code 75.
Exit ==
    /\ process = "draining"
    /\ GoDown
    /\ UNCHANGED faults

Crash ==
    /\ Fault
    /\ process # "down"
    /\ GoDown

\* The supervisor starts the process, which loads the active version.
Start ==
    /\ process = "down"
    /\ process' = "up" /\ loaded' = active
    /\ UNCHANGED <<versionVars, request, promised, restarting, faults>>

Api(o) ==
    \/ Apply(o) \/ Rollback(o) \/ Check(o) \/ Activate(o) \/ Schedule(o)
    \/ ActivateFails(o) \/ Disconnect(o)

Process == BeginRestart \/ Exit \/ Start

Next == (\E o \in Operators : Api(o)) \/ Process \/ Crash

Spec == Init /\ [][Next]_vars

\* The restart task runs, the graceful shutdown is limited in time, and the
\* supervisor starts what has exited.
FairSpec == Spec /\ WF_vars(Process)

-----------------------------------------------------------------------------
\* Nobody's change is lost unseen: no two versions were asked for by operators
\* who had seen the same active version, so that the history is one chain
\* (docs/API.md:203 and 210).
NoLostUpdate ==
    \A v, w \in Activated : v # w => replaced[v] # replaced[w]

\* A version of which an operator was told that a restart follows is loaded by
\* a process, or one that replaced it is, whatever crashes in between.
PromisedIsLoaded ==
    (promised # {}) ~> (process = "up" /\ \A v \in promised : loaded >= v)
=============================================================================
