---------------------------- MODULE StreamService ----------------------------
(***************************************************************************)
(* What the master promises to those who ask it for streams, without       *)
(* threads, snapshots and flags.  A request is pending until it is decided;*)
(* all decisions of a round are made at one moment, together with a plan   *)
(* that has slots for the streams that are granted, and the plan is in     *)
(* force before anything else is decided.                                  *)
(***************************************************************************)
EXTENDS Integers

CONSTANT Streams

VARIABLES
    request,    \* request[s]: "none", "pending" or "granted"
    plan,       \* the last plan: its number and the streams with slots
    held,       \* the plan is on its way to the nodes
    inForce,    \* the plan the nodes follow
    owed        \* some stream was released since the last round began: the
                \* plan, or the next one, may still have slots for it

vars == <<request, plan, held, inForce, owed>>

Phase == {"none", "pending", "granted"}

Granted == {s \in Streams : request[s] = "granted"}

Init ==
    /\ request = [s \in Streams |-> "none"]
    /\ plan = [id |-> 0, streams |-> {}]
    /\ inForce = plan
    /\ held = FALSE
    /\ owed = FALSE

Ask(s) ==
    /\ request[s] = "none"
    /\ request' = [request EXCEPT ![s] = "pending"]
    /\ UNCHANGED <<plan, held, inForce, owed>>

Release(s) ==
    /\ request[s] # "none"
    /\ request' = [request EXCEPT ![s] = "none"]
    /\ owed' = TRUE
    /\ UNCHANGED <<plan, held, inForce>>

\* Pending requests are granted, refused or left for later, granted streams stay
\* or are dropped, and the new plan has slots for the granted ones: for no other
\* stream, unless one was released meanwhile.
Decide ==
    /\ ~held /\ held' = TRUE
    /\ request' \in [Streams -> Phase]
    /\ \A s \in Streams :
        \/ request'[s] \in {request[s], "none"}
        \/ request[s] = "pending" /\ request'[s] = "granted"
    /\ \E slots \in SUBSET Streams :
        /\ plan' = [id |-> plan.id + 1, streams |-> slots]
        /\ Granted' \subseteq slots
        /\ ~owed' => slots \subseteq Granted'
    /\ owed' \in {owed, FALSE}
    /\ UNCHANGED inForce

Again ==
    /\ ~held /\ held' = TRUE
    /\ UNCHANGED <<request, plan, inForce, owed>>

Apply ==
    /\ held /\ held' = FALSE
    /\ inForce' = plan
    /\ UNCHANGED <<request, plan, owed>>

Next ==
    \/ \E s \in Streams : Ask(s) \/ Release(s)
    \/ Decide \/ Again \/ Apply

Spec == Init /\ [][Next]_vars
=============================================================================
