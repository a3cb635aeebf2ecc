---------------------------- MODULE MCDataPlane ----------------------------
(***************************************************************************)
(* Networks of four nodes for TLC: small topologies, tiles of a few slots, *)
(* and lists of streams that compete for them.                             *)
(***************************************************************************)
EXTENDS DataPlane, RuntimeBitset

MCNodes == 0..3

Undirected(edges) == edges \cup {<<e[2], e[1]>> : e \in edges}
Line    == Undirected({<<0, 1>>, <<1, 2>>, <<2, 3>>})
Ring    == Undirected({<<0, 1>>, <<0, 2>>, <<1, 3>>, <<2, 3>>})
Kite    == Undirected({<<0, 1>>, <<0, 2>>, <<1, 2>>, <<2, 3>>})
Pairs   == Undirected({<<0, 1>>, <<2, 3>>})

Stream(id, src, dst, period, redundancy, status) ==
    [id |-> id, src |-> src, dst |-> dst, period |-> ToInt[period],
     redundancy |-> redundancy, status |-> status]

Double   == <<Stream(1, 3, 0, "P2", "DOUBLE", "ESTABLISHED"), Stream(2, 0, 1, "P1", "NONE", "ACCEPTED")>>
Spread   == <<Stream(1, 3, 0, "P2", "TRIPLE_SPATIAL", "ACCEPTED")>>
Detour   == <<Stream(1, 3, 0, "P2", "DOUBLE_SPATIAL", "ACCEPTED"), Stream(2, 1, 2, "P2", "NONE", "ESTABLISHED")>>
Mixed    == <<Stream(1, 3, 2, "P2", "TRIPLE", "ESTABLISHED"), Stream(2, 0, 2, "P2", "DOUBLE", "ACCEPTED")>>
Periods  == <<Stream(1, 0, 1, "P10", "NONE", "ESTABLISHED"), Stream(2, 2, 3, "P2", "DOUBLE_SPATIAL", "ACCEPTED")>>
Slow     == <<Stream(1, 0, 2, "P2", "DOUBLE", "ESTABLISHED")>>
Both     == <<Stream(1, 2, 0, "P2", "DOUBLE_SPATIAL", "ACCEPTED"), Stream(2, 3, 2, "P10", "NONE", "ACCEPTED")>>
Crowded  == <<Stream(1, 3, 2, "P2", "NONE", "ESTABLISHED"), Stream(2, 2, 0, "P2", "DOUBLE", "ACCEPTED")>>
Thrice   == <<Stream(1, 2, 0, "P2", "TRIPLE", "ESTABLISHED")>>
Often    == <<Stream(1, 2, 0, "P1", "DOUBLE", "ESTABLISHED")>>
Opposite == <<Stream(1, 0, 1, "P1", "NONE", "ESTABLISHED"), Stream(2, 3, 2, "P1", "NONE", "ACCEPTED")>>

Network(topology, streams, slots, downlink, uplink, reuse, weak, loss, outage) ==
    [nodes |-> MCNodes, network_graph |-> topology[1], weak_graph |-> topology[2],
     streams |-> streams, maxNodes |-> 4, maxHops |-> 3, superframe |-> <<"downlink", "uplink">>,
     slotsPerTile |-> slots, reservedDownlink |-> downlink, reservedUplink |-> uplink,
     channelSpatialReuse |-> reuse, useWeakTopologies |-> weak,
     maxLosses |-> loss, maxOutages |-> outage]

\* Without weak topologies the interference the scheduler can know of is that
\* of the links it routes over.
MCNetworks ==
    {Routed(Network(t, s, 4, 2, 1, TRUE, TRUE, 1, 0)) :
        t \in {<<Line, Line>>, <<Line, Line \cup Undirected({<<1, 3>>})>>},
        s \in {Double, Opposite}}
    \cup {Routed(Network(<<g, g>>, s, 4, 2, 1, TRUE, TRUE, 2, 0)) :
        g \in {Ring, Kite}, s \in {Spread, Detour}}
    \cup {Routed(Network(<<Pairs, w>>, Opposite, 3, 1, 2, TRUE, TRUE, 1, 0)) :
        w \in {Pairs, Pairs \cup Undirected({<<0, 2>>})}}
    \cup {Routed(Network(<<Line, Line>>, Opposite, 4, 1, 2, reuse, FALSE, 1, 0)) :
        reuse \in BOOLEAN}
    \cup {Routed(Network(<<Pairs, Pairs>>, Double, 4, 1, 2, TRUE, FALSE, 0, 0)),
           Routed(Network(<<Line, Line>>, Periods, 4, 1, 2, FALSE, FALSE, 1, 0)),
           Routed(Network(<<Line, Line>>, Mixed, 5, 2, 1, TRUE, TRUE, 1, 0)),
           Routed(Network(<<Kite, Kite>>, Both, 3, 1, 2, TRUE, TRUE, 1, 0)),
           Routed(Network(<<Line, Line>>, Thrice, 7, 2, 6, TRUE, TRUE, 0, 0)),
           Routed(Network(<<Line, Line>>, Often, 6, 1, 2, TRUE, TRUE, 0, 0)),
           Routed(Network(<<Line, Line>>, Slow, 5, 2, 1, TRUE, TRUE, 1, 1)),
           Routed(Network(<<Line, Line>>, Crowded, 3, 1, 2, TRUE, TRUE, 1, 0))}
=============================================================================
