----------------------------- MODULE JobLedger -----------------------------
(***************************************************************************)
(* What product deployments promise, seen from outside: an idempotency key *)
(* opens one job, of which Forge makes one release; the job is completed   *)
(* only with that release, and one that failed is over.                    *)
(***************************************************************************)

CONSTANT Keys

VARIABLES
    opened,     \* keys that have a job
    made,       \* keys that have a release
    completed,  \* keys whose job is completed
    failed      \* keys whose job failed or was cancelled

vars == <<opened, made, completed, failed>>

Init == opened = {} /\ made = {} /\ completed = {} /\ failed = {}

Open(k) ==
    /\ k \notin opened
    /\ opened' = opened \cup {k}
    /\ UNCHANGED <<made, completed, failed>>

\* The release may be made although the job was just cancelled.
Make(k) ==
    /\ k \in opened \ made
    /\ made' = made \cup {k}
    /\ UNCHANGED <<opened, completed, failed>>

Complete(k) ==
    /\ k \in made \ (completed \cup failed)
    /\ completed' = completed \cup {k}
    /\ UNCHANGED <<opened, made, failed>>

\* A cancellation that read the job before it was completed still counts.
Fail(k) ==
    /\ k \in opened \ failed
    /\ failed' = failed \cup {k}
    /\ completed' = completed \ {k}
    /\ UNCHANGED <<opened, made>>

Next == \E k \in Keys : Open(k) \/ Make(k) \/ Complete(k) \/ Fail(k)

Spec == Init /\ [][Next]_vars
=============================================================================
