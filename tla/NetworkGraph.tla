---------------------------- MODULE NetworkGraph ----------------------------
(***************************************************************************)
(* class ImmediateRemovalNetworkGraph: an undirected graph of node ids, a  *)
(* map from a node to the bitset of its neighbors.  Both directions of an  *)
(* edge are kept, and a node whose bitset becomes empty leaves the map, so *)
(* the graph is its set of directed edges.  Node 0 is the master.          *)
(***************************************************************************)
EXTENDS Integers, FiniteSets

NoEdges == {}

HasEdge(g, a, b) == <<a, b>> \in g

HasNode(g, a) == \E e \in g : e[1] = a

NodesOf(g) == {e[1] : e \in g}

Neighbors(g, a) == {b \in NodesOf(g) : HasEdge(g, a, b)}

SetBit(g, a, b) == g \cup {<<a, b>>}
ClearBit(g, a, b) == g \ {<<a, b>>}

AddEdge(g, a, b) == SetBit(SetBit(g, a, b), b, a)

RemoveEdge(g, a, b) == ClearBit(ClearBit(g, a, b), b, a)

\* The nodes the master reaches: the closure that the open set of
\* removeUnreachableNodes computes.  The master is in it even when it has no
\* edge.
Reachable(g) ==
    LET Closed(S) == 0 \in S /\ \A e \in g : e[1] \in S => e[2] \in S
    IN  {n \in NodesOf(g) \cup {0} :
            \A S \in SUBSET (NodesOf(g) \cup {0}) : Closed(S) => n \in S}

RemoveUnreachableNodes(g) ==
    LET reachable == Reachable(g)
    IN  {e \in g : e[1] \in reachable /\ e[2] \in reachable}

\* orderLink: a link without its direction, as the scheduler and the topology
\* exchange them.
OrderLink(a, b) == IF a < b THEN <<a, b>> ELSE <<b, a>>
=============================================================================
