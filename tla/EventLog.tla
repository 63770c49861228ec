------------------------------ MODULE EventLog ------------------------------
(***************************************************************************)
(* What the event stream of a session promises: the events form one        *)
(* sequence that only grows at its end, and a subscriber sees that         *)
(* sequence, from where it subscribed, in order, without gap or repeat.    *)
(***************************************************************************)
EXTENDS Integers

CONSTANT Nobody     \* no subscription yet

VARIABLES
    length,     \* events 1 .. length have happened
    position    \* the subscriber has seen the log up to here

vars == <<length, position>>

Init == length = 0 /\ position = Nobody

Grow ==
    /\ length' \in Nat /\ length' > length
    /\ UNCHANGED position

Subscribe ==
    /\ position = Nobody
    /\ position' \in 0 .. length
    /\ UNCHANGED length

Read ==
    /\ position # Nobody
    /\ position < length
    /\ position' = position + 1
    /\ UNCHANGED length

Next == Grow \/ Subscribe \/ Read

Spec == Init /\ [][Next]_vars
=============================================================================
