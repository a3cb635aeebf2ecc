---------------------------- MODULE MCMACContext ----------------------------
(***************************************************************************)
(* Networks of three and four nodes for TLC, with the disturbances that    *)
(* each may meet.                                                          *)
(***************************************************************************)
EXTENDS MACContext, TLC

\* Streams are listed in the order of their ids, which is that of their periods,
\* the highest first: the scheduler takes accepted streams in this order.
Stream(id, src, dst, period) ==
    [id |-> id, src |-> src, dst |-> dst, period |-> ToInt[period], redundancy |-> "NONE"]

Down == "downlink"
Up == "uplink"

\* A quiet network of n nodes.
Base(n, superframe, strong, streams) ==
    NetworkConfiguration([nodes |-> 0..(n - 1), maxNodes |-> n, maxHops |-> n - 1,
     superframe |-> superframe, clockSyncPeriod |-> 3 * Len(superframe), maxMissedTimesyncs |-> 2,
     rcvWindow |-> 150000, skew |-> [i \in 0..(n - 1) |-> 0], warming |-> 0,
     staticHop |-> [i \in 0..(n - 1) |-> 0],
     minNeighborRSSI |-> 5, minWeakNeighborRSSI |-> 2, rssiDelta |-> 1,
     weakTimeout |-> 2, strongTimeout |-> 2,
     useWeakTopologies |-> FALSE, channelSpatialReuse |-> FALSE,
     maxPktSize |-> 30, panId |-> 1, neighborBitmaskSize |-> 1,
     uplinkPackets |-> 2, guaranteedTopologies |-> 1,
     strong |-> strong, weak |-> {}, fading |-> {}, appearing |-> {},
     streams |-> streams, connect |-> {26},
     maxLosses |-> 0, lossTiles |-> {}, maxDrifts |-> 0, driftTiles |-> {},
     fadeTiles |-> {}, backTiles |-> {}])

Line3 == {<<0, 1>>, <<1, 2>>}
Line4 == Line3 \cup {<<2, 3>>}
Fork  == {<<0, 1>>, <<0, 2>>, <<1, 3>>, <<2, 3>>}

UpTo0 == <<Stream(1, 2, 0, "P2")>>

\* Packets lost while the nodes come to know each other, when it is too early for
\* the stream that is asked for, and while the first schedule with it is
\* distributed and applied.
LossyStart == [Base(3, <<Down, Up>>, Line3, UpTo0) EXCEPT
                !.maxLosses = 2, !.lossTiles = 0..35, !.connect = {12, 36}]
LossySchedule == [Base(3, <<Down, Up>>, Line3, UpTo0) EXCEPT
                !.maxLosses = 3, !.lossTiles = 27..44]

OneLine == {LossySchedule}

\* Clocks of different rates, which change around the activation of a schedule.
Drifting == [Base(3, <<Down, Down, Up>>, Line3, UpTo0) EXCEPT
                !.skew = [i \in 0..2 |-> <<0, 60000, -70000>>[i + 1]], !.warming = 45000,
                !.maxMissedTimesyncs = 3,
                !.maxDrifts = 2, !.driftTiles = {26, 35, 44}, !.maxLosses = 2, !.lossTiles = {9, 18, 27, 36, 45}]

\* Two of four nodes are cut off for some time: their streams end and are asked
\* for again.
CutOff == [Base(4, <<Down, Up, Up>>, Line4, <<Stream(1, 3, 0, "P2"), Stream(2, 0, 1, "P1")>>) EXCEPT
                !.fading = {<<1, 2>>}, !.fadeTiles = 27..46, !.backTiles = 48..76,
                !.connect = {26, 76}]

\* It is too early for one of two streams, which is asked for again.  A link of
\* the schedule vanishes and another route is left.
Reroute == [Base(4, <<Down, Up>>, Fork, <<Stream(1, 3, 0, "P2"), Stream(2, 0, 1, "P1")>>) EXCEPT
                !.connect = {12, 40},
                !.fading = {<<1, 3>>}, !.fadeTiles = 26..50, !.backTiles = 52..56]

\* A link appears between nodes that share slots; with weak links, too.
SharedSlots == [Base(4, <<Down, Up>>, Line4, <<Stream(1, 0, 1, "P5"), Stream(2, 3, 2, "P2")>>) EXCEPT
                !.channelSpatialReuse = TRUE,
                !.appearing = {<<0, 2>>}, !.fadeTiles = 30..50, !.backTiles = {80}]
WeakLinks == [Base(4, <<Down, Up>>, Line4, <<Stream(1, 0, 1, "P2"), Stream(2, 3, 2, "P1")>>) EXCEPT
                !.channelSpatialReuse = TRUE, !.useWeakTopologies = TRUE,
                !.weak = {<<0, 2>>, <<1, 3>>}, !.fading = {<<2, 3>>}, !.appearing = {<<1, 3>>},
                !.fadeTiles = 30..40, !.backTiles = {60, 61}]

\* Reports and requests of a deeper network in uplinks of several packets.
Deep == [Base(4, <<Down, Up>>, Line4, <<Stream(1, 3, 0, "P2")>>) EXCEPT
                !.neighborBitmaskSize = 8, !.maxPktSize = 34, !.maxLosses = 2, !.lossTiles = 36..46, !.connect = {34}]

\* A node misses a schedule that another one, which lacks a packet, asks for again.
SentTwice == [Base(3, <<Down, Up>>, Line3, <<Stream(1, 1, 0, "P2"), Stream(2, 2, 1, "P2")>>) EXCEPT
                !.connect = {12, 36}, !.maxLosses = 4, !.lossTiles = {38, 40, 44, 46, 50}]

MCNetworks == {LossyStart, LossySchedule, SentTwice, Drifting, CutOff, Reroute, SharedSlots, WeakLinks, Deep}
=============================================================================
