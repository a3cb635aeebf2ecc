-------------------------- MODULE NetworkTopology --------------------------
(***************************************************************************)
(* class NetworkTopology: the graph that the master builds from the        *)
(* topologies the nodes report, and the question whether the schedule in   *)
(* use survives a change of it.  The MAC thread brings reports, the        *)
(* scheduler thread takes snapshots and says what links its schedule uses; *)
(* each operation holds graph_mutex.                                       *)
(*                                                                         *)
(* The topology is a record: graph, weakGraph, maybeCut (the flag          *)
(* possiblyNotConnected_flag of graph), modified, inProgress               *)
(* (scheduleInProgress), usedLinks, newLinks (newLinksCausingReschedule),  *)
(* and removed and added (the links of removedWhileScheduling and          *)
(* addedWhileScheduling).                                                  *)
(***************************************************************************)
EXTENDS NetworkGraph, UpdatableQueue

EmptyTopology ==
    [graph |-> NoEdges, weakGraph |-> NoEdges, maybeCut |-> FALSE, modified |-> FALSE,
     inProgress |-> FALSE, usedLinks |-> {}, newLinks |-> {}, removed |-> {}, added |-> {}]

\* A graph with links added, or removed.
AddEdges(g, links) == g \cup UNION {AddEdge(g, l[1], l[2]) : l \in links}
RemoveEdges(g, links) == {e \in g : \A l \in links : e \in RemoveEdge(g, l[1], l[2])}

\* What a report of neighbors adds to a graph and removes from it.
Gained(g, src, neighbors) == {OrderLink(src, i) : i \in {j \in neighbors \ {src} : ~HasEdge(g, src, j)}}
Dropped(c, g, src, neighbors) ==
    {OrderLink(src, i) : i \in {j \in (0..(c.maxNodes - 1)) \ neighbors : HasEdge(g, src, j)}}

WasModified(t) == t.modified

\* doReceivedTopology.  The links that may cause interference are those of the
\* graph the scheduler checks interference with.
DoReceivedTopology(c, t, report) ==
    LET gained == Gained(t.graph, report.id, report.strong)
        dropped == Dropped(c, t.graph, report.id, report.strong)
        weakGained == Gained(t.weakGraph, report.id, report.weak)
        weakDropped == Dropped(c, t.weakGraph, report.id, report.weak)
        interfering == IF c.useWeakTopologies THEN weakGained
                       ELSE IF c.channelSpatialReuse THEN gained ELSE {}
    IN  [t EXCEPT
            !.graph = AddEdges(RemoveEdges(@, dropped), gained),
            !.maybeCut = @ \/ dropped # {},
            !.weakGraph = IF c.useWeakTopologies
                          THEN AddEdges(RemoveEdges(@, weakDropped), weakGained) ELSE @,
            !.modified = @ \/ /\ ~t.inProgress
                              /\ \/ dropped \cap t.usedLinks # {}
                                 \/ interfering \cap t.newLinks # {},
            !.removed = IF t.inProgress THEN @ \cup dropped ELSE @,
            !.added = IF t.inProgress THEN @ \cup interfering ELSE @]

HandleTopologies(c, t, queue) ==
    LET after[k \in 0..Len(queue)] ==
            IF k = 0 THEN t ELSE DoReceivedTopology(c, after[k - 1], queue[k].val)
    IN  after[Len(queue)]
-----------------------------------------------------------------------------
\* updateSchedulerNetworkGraph: graph and weakGraph are copied, and the caller
\* is told whether the topology was modified.
UpdateSchedulerNetworkGraph(t) == [t EXCEPT !.inProgress = TRUE, !.modified = FALSE]

\* writeBackNetworkGraph
WriteBackNetworkGraph(t, newGraph) ==
    IF t.modified THEN t ELSE [t EXCEPT !.graph = newGraph, !.maybeCut = FALSE]

\* Mutant: changes during scheduling are forgotten.
ForgetDelayedChanges(t) == [t EXCEPT !.inProgress = FALSE, !.removed = {}, !.added = {}]

PerformDelayedChangesChecks(t) ==
    [t EXCEPT !.inProgress = FALSE, !.removed = {}, !.added = {},
              !.modified = @ \/ t.removed \cap t.usedLinks # {}
                             \/ t.added \cap t.newLinks # {}]

ScheduleChanged(t, usedLinks, newLinks) ==
    PerformDelayedChangesChecks([t EXCEPT !.usedLinks = usedLinks, !.newLinks = newLinks])

ScheduleNotChanged(t) == PerformDelayedChangesChecks(t)
=============================================================================
