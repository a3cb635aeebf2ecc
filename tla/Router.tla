------------------------------- MODULE Router -------------------------------
(***************************************************************************)
(* class Router: the paths of the streams in a snapshot of the topology.   *)
(* A stream becomes one block of transmissions for each copy of a packet   *)
(* in a period: the primary path, found breadth first, and for redundancy  *)
(* the same path again or a different one, found depth first.              *)
(***************************************************************************)
EXTENDS Integers, Sequences, SequencesExt, NetworkGraph

\* Node ids, in the order in which getEdges lists the neighbors of a node.
NodeIds(c) == 0..(c.maxNodes - 1)

\* The loop of breadthFirstSearch over the neighbors of a node: a child enters
\* the open set once, with a parent that stays.  pathTo[n] is the path that
\* construct_path finds from the parents, back to the root.
Enter(g, top, s, child) ==
    IF HasEdge(g, top, child) /\ child \notin s.visited \cup ToSet(s.openSet)
    THEN [openSet |-> Append(s.openSet, child), visited |-> s.visited,
          pathTo |-> [s.pathTo EXCEPT ![child] = Append(s.pathTo[top], child)]]
    ELSE s
EnterAll(c, g, top, s) ==
    LET after[k \in 0..c.maxNodes] == IF k = 0 THEN s ELSE Enter(g, top, after[k - 1], k - 1)
    IN  after[c.maxNodes]

\* A round takes a node out of the open set.  No node enters twice, so maxNodes
\* rounds are enough: a search that ended stays as it is.
AtEnd(s, dst) == s.openSet = <<>> \/ Head(s.openSet) = dst
Round(c, g, s) ==
    LET top == Head(s.openSet)
        entered == EnterAll(c, g, top, [s EXCEPT !.openSet = Tail(@)])
    IN  [entered EXCEPT !.visited = @ \cup {top}]
Search(c, g, src, dst) ==
    LET after[k \in 0..c.maxNodes] ==
            IF k = 0 THEN [openSet |-> <<src>>, visited |-> {src}, pathTo |-> [n \in NodeIds(c) |-> <<src>>]]
            ELSE IF AtEnd(after[k - 1], dst) THEN after[k - 1]
            ELSE Round(c, g, after[k - 1])
    IN  after[c.maxNodes]

BreadthFirstSearch(c, g, src, dst) ==
    LET s == Search(c, g, src, dst)
    IN  IF HasNode(g, src) /\ HasNode(g, dst) /\ s.openSet # <<>> /\ AtEnd(s, dst)
        THEN s.pathTo[dst] ELSE <<>>

\* The loop of dfsRun over the neighbors of a node: each one looked at, visited
\* ones included, lowers the limit of those after it and of what lies below it,
\* which is below[<<path, limit>>].
LookAt(g, path, below, so, child) ==
    IF so.limit = 0 \/ ~HasEdge(g, Last(path), child) THEN so
    ELSE [limit |-> so.limit - 1,
          found |-> IF child \in ToSet(path) THEN so.found
                    ELSE so.found \o below[<<Append(path, child), so.limit - 1>>]]
LookAround(c, g, path, limit, below) ==
    LET after[k \in 0..c.maxNodes] ==
            IF k = 0 THEN [limit |-> limit, found |-> <<>>]
            ELSE LookAt(g, path, below, after[k - 1], k - 1)
    IN  after[c.maxNodes].found

\* No path has more than maxNodes nodes, so that the search ends at this depth.
DfsRun(c, g, target) ==
    LET run[depth \in 0..c.maxNodes] ==
            [s \in Seq(NodeIds(c)) \X Nat |->
                IF Last(s[1]) = target THEN <<s[1]>>
                ELSE IF depth = 0 THEN <<>>
                ELSE LookAround(c, g, s[1], s[2], run[depth - 1])]
    IN  run[c.maxNodes]

DepthFirstSearch(c, g, src, dst, limit) == DfsRun(c, g, dst)[<< <<src>>, limit + 1 >>]

\* The first of some of the paths that none of them is shorter than.
FindShortestPath(paths, some) ==
    paths[CHOOSE i \in some : \A j \in some :
            Len(paths[i]) < Len(paths[j]) \/ (Len(paths[i]) = Len(paths[j]) /\ i <= j)]

FindIndependentPaths(paths, some, primary) ==
    LET inner == ToSet(SubSeq(primary, 2, Len(primary) - 1))
    IN  {i \in some : ToSet(paths[i]) \cap inner = {}}

\* With more_hops = 1, as routeAndScheduleStreams builds the router.  The last
\* path is the primary one when there is no other (downgrading).
SecondaryPath(c, g, src, dst, primary) ==
    LET paths == DepthFirstSearch(c, g, src, dst, Len(primary) + 1)
        extra == {i \in DOMAIN paths : paths[i] # primary}
        independent == FindIndependentPaths(paths, extra, primary)
    IN  IF extra = {} THEN primary
        ELSE FindShortestPath(paths, IF independent # {} THEN independent ELSE extra)

Redundancies == {"NONE", "DOUBLE", "TRIPLE", "DOUBLE_SPATIAL", "TRIPLE_SPATIAL"}

\* How often the primary path is sent besides the first time, and whether a
\* secondary path is wanted as well.
ExtraCopies(redundancy) ==
    CASE redundancy = "NONE" -> 0
      [] redundancy = "DOUBLE" -> 1
      [] redundancy = "TRIPLE" -> 2
      [] redundancy = "DOUBLE_SPATIAL" -> 0
      [] redundancy = "TRIPLE_SPATIAL" -> 1
Spatial(redundancy) == redundancy \in {"DOUBLE_SPATIAL", "TRIPLE_SPATIAL"}

\* Mutant: nodes counted for hops.
PathsTooShort(c, g, s) ==
    LET hop == HasEdge(g, s.src, s.dst)
        primary == IF hop THEN <<s.src, s.dst>> ELSE BreadthFirstSearch(c, g, s.src, s.dst)
        copies == [i \in 1..(1 + ExtraCopies(s.redundancy)) |-> primary]
        last == IF hop THEN primary ELSE SecondaryPath(c, g, s.src, s.dst, primary)
    IN  IF primary = <<>> \/ (~hop /\ Len(primary) > c.maxHops) THEN <<>>
        ELSE IF Spatial(s.redundancy) THEN Append(copies, last) ELSE copies

\* The paths of one stream: none when the destination is not reached within
\* maxHops.  Spatial redundancy is downgraded to one more copy of the primary
\* path when the stream has a single hop or there is no other path.
Paths(c, g, s) ==
    LET hop == HasEdge(g, s.src, s.dst)
        primary == IF hop THEN <<s.src, s.dst>> ELSE BreadthFirstSearch(c, g, s.src, s.dst)
        copies == [i \in 1..(1 + ExtraCopies(s.redundancy)) |-> primary]
        last == IF hop THEN primary ELSE SecondaryPath(c, g, s.src, s.dst, primary)
    IN  IF primary = <<>> \/ (~hop /\ Len(primary) - 1 > c.maxHops) THEN <<>>
        ELSE IF Spatial(s.redundancy) THEN Append(copies, last) ELSE copies

\* pathToSchedule: 0 1 2 3 becomes 0->1 1->2 2->3, with the parameters of the
\* stream.  The offset is set by the allocation.
ScheduleElement(s, tx, rx) ==
    [stream |-> s.id, src |-> s.src, dst |-> s.dst, period |-> s.period, tx |-> tx, rx |-> rx]

PathToSchedule(path, s) ==
    [i \in 1..(Len(path) - 1) |-> ScheduleElement(s, path[i], path[i + 1])]

\* Router::run, on those of the streams that are to be routed.
RouteStream(c, g, s) ==
    LET paths == Paths(c, g, s)
    IN  [j \in DOMAIN paths |-> PathToSchedule(paths[j], s)]
Run(c, g, streams, ids) ==
    FlattenSeq([i \in DOMAIN streams |->
        IF streams[i].id \in ids THEN RouteStream(c, g, streams[i]) ELSE <<>>])
-----------------------------------------------------------------------------
\* Reference definitions: simple paths and the distance between two nodes.
IsPath(g, path) ==
    /\ \A i \in 1..(Len(path) - 1) : HasEdge(g, path[i], path[i + 1])
    /\ \A i, j \in DOMAIN path : path[i] = path[j] => i = j

Within(g, src, hops) ==
    LET near[h \in 0..hops] ==
            IF h = 0 THEN {src}
            ELSE near[h - 1] \cup UNION {Neighbors(g, n) : n \in near[h - 1]}
    IN  near[hops]
=============================================================================
