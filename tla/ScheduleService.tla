-------------------------- MODULE ScheduleService --------------------------
(***************************************************************************)
(* ScheduleComputation implements StreamService: a round of the scheduler  *)
(* thread, which looks at flags and copies, computes, and works between    *)
(* the SMEs the MAC thread delivers, is a single decision, made when it    *)
(* applies the changes to the collection.                                  *)
(***************************************************************************)
EXTENDS ScheduleComputation

PhaseOf(st) ==
    CASE st = "ACCEPTED" -> "pending"
      [] st = "ESTABLISHED" -> "granted"
      [] OTHER -> "none"

PlanOf(sched) == [id |-> sched.id, streams |-> ScheduledIds(sched)]

requestBar == [id \in Streams |-> PhaseOf(collection[id].status)]
heldBar == scheduleNotApplied \/ pc = "publish"

Service == INSTANCE StreamService WITH
    request <- requestBar,
    plan <- PlanOf(CurrentSchedule),
    held <- heldBar,
    inForce <- PlanOf(applied),
    owed <- RemovalPending

\* However requests, closes and topology changes fall between the steps of a
\* round, what clients and nodes see is a sequence of rounds decided at once,
\* each in force before the next (schedule_computation.cpp:138-219).
ImplementsService == Service!Spec

-----------------------------------------------------------------------------
(***************************************************************************)
(* What the refinement needs beside IInv.                                  *)
(***************************************************************************)
\* The snapshot never holds a server as a stream with slots.
SnapshotKinds ==
    \A id \in Ids : IsServer(id) => stream_snapshot.collection[id].status \notin Owners

\* The schedule being computed follows the one the nodes were given.
NumberFollows ==
    pc \in {"tellTopology", "applyChanges", "publish"} =>
        newSchedule.id = schedule.id + 1

ServiceInv == IInv /\ SnapshotKinds /\ NumberFollows
=============================================================================
