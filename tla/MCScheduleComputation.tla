----------------------- MODULE MCScheduleComputation -----------------------
(***************************************************************************)
(* Instances of ScheduleComputation for TLC: one server on node 1 and the  *)
(* streams that connect to it from nodes 0 and 2.                          *)
(***************************************************************************)
EXTENDS ScheduleService

Server1 == [src |-> 1, dst |-> 1, srcPort |-> 0, dstPort |-> 1]
Stream01 == [src |-> 0, dst |-> 1, srcPort |-> 0, dstPort |-> 1]
Stream21 == [src |-> 2, dst |-> 1, srcPort |-> 0, dstPort |-> 1]

OneStream == {Server1, Stream21}
TwoStreams == {Server1, Stream01, Stream21}

\* Period 2 is wider than period 1, so a negotiation changes one of the sides.
\* A single hop downgrades the spatial redundancies, as those of Slow and Wide.
Slow == [redundancy |-> DOUBLE_SPATIAL, period |-> 2, payloadSize |-> 1, direction |-> 0]
Fast == [redundancy |-> TRIPLE, period |-> 1, payloadSize |-> 1, direction |-> 0]
Wide == [redundancy |-> TRIPLE_SPATIAL, period |-> 1, payloadSize |-> 1, direction |-> 0]

OneDirection == {Slow, Fast}
OneParams == {Wide}
=============================================================================
