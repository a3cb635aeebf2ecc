------------------------- MODULE ScheduleExpansion -------------------------
(***************************************************************************)
(* ScheduleDownlinkPhase::expandSchedule, the part that does not depend on *)
(* the slots: what a node does in the transmissions of a schedule, and     *)
(* which of them have the buffer of the stream they relay.  A schedule is  *)
(* a sequence of elements with at least the fields stream, src, dst, tx    *)
(* and rx.                                                                 *)
(***************************************************************************)
EXTENDS Integers, Sequences

Role(n, e) ==
    CASE e.tx = n /\ e.src = n -> "SENDSTREAM"
      [] e.rx = n /\ e.dst = n -> "RECVSTREAM"
      [] e.tx = n /\ e.src # n -> "SENDBUFFER"
      [] e.rx = n /\ e.dst # n -> "RECVBUFFER"
      [] OTHER -> "SLEEP"

Sleep == [action |-> "SLEEP", stream |-> 0, hasBuffer |-> FALSE]

\* A buffer is made by the first element that receives to it: an element that
\* sends from it has it if that one comes before in the schedule.
HasBuffer(n, sched, i) ==
    \E j \in 1..i : sched[j].stream = sched[i].stream /\ Role(n, sched[j]) = "RECVBUFFER"
=============================================================================
