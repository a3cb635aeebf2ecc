--------------------------- MODULE NeighborTable ---------------------------
(***************************************************************************)
(* class NeighborTable: what a node knows of its neighbors from the uplink *)
(* messages it hears or misses.  A neighbor is unknown, weak or strong;    *)
(* neighbors closer to the master are predecessors, to one of which the    *)
(* node sends its uplink messages.                                         *)
(*                                                                         *)
(* The strength of a link does not change while it lasts, so the filtered  *)
(* strength of a neighbor is that of its last message.  A table is a       *)
(* record: neighbors (status and freqTimeoutCtr of each), strong and weak  *)
(* (myTopologyElement), predecessors, myHop and badAssignee.               *)
(***************************************************************************)
EXTENDS Integers, FiniteSets

UnknownNeighbor == [status |-> "UNKNOWN", freqTimeoutCtr |-> 0]

UnknownThreshold == 11
UnknownIncrement == 5
UnknownDecrement == 1
MinMid(c) == (c.minNeighborRSSI + c.minWeakNeighborRSSI) \div 2

EmptyTable(c, hop) ==
    [neighbors |-> [n \in 0..(c.maxNodes - 1) |-> UnknownNeighbor],
     strong |-> {}, weak |-> {}, predecessors |-> {}, myHop |-> hop, badAssignee |-> TRUE]

\* NeighborTable::clear, after a resynchronization.  Its loop resets copies: the
\* neighbors stay as they are.
ClearTable(t, hop) ==
    [t EXCEPT !.strong = {}, !.weak = {}, !.predecessors = {}, !.myHop = hop,
              !.badAssignee = TRUE]
-----------------------------------------------------------------------------
LessDecrement(x) == IF x > UnknownDecrement THEN x - UnknownDecrement ELSE 0

\* Neighbor::updateReceived; strongRec and weakRec tell whether the sender has
\* this node among its strong and its weak neighbors.
UpdateReceived(c, neighbor, rssi, strongRec, weakRec) ==
    LET count == neighbor.freqTimeoutCtr + UnknownIncrement
        Is(status) == [status |-> status, freqTimeoutCtr |-> 0]
        Counts(ctr) == [status |-> "UNKNOWN", freqTimeoutCtr |-> ctr]
    IN  CASE neighbor.status = "UNKNOWN" ->
                IF rssi >= c.minNeighborRSSI \/ strongRec THEN Is("STRONG")
                ELSE IF rssi >= c.minWeakNeighborRSSI \/ weakRec
                     THEN IF count >= UnknownThreshold \/ weakRec THEN Is("WEAK") ELSE Counts(count)
                     ELSE Counts(LessDecrement(neighbor.freqTimeoutCtr))
          [] neighbor.status = "WEAK" ->
                Is(IF rssi >= c.minNeighborRSSI \/ strongRec THEN "STRONG" ELSE "WEAK")
          [] neighbor.status = "STRONG" ->
                Is(IF rssi <= MinMid(c) \/ ~strongRec THEN "WEAK" ELSE "STRONG")

\* Mutant: a neighbor that falls silent stays.
UpdateMissedKeeps(c, neighbor) ==
    IF neighbor.status = "UNKNOWN"
    THEN [neighbor EXCEPT !.freqTimeoutCtr = LessDecrement(@)]
    ELSE neighbor

\* Neighbor::updateMissed
UpdateMissed(c, neighbor) ==
    LET timeout == IF neighbor.status = "WEAK" THEN c.weakTimeout ELSE c.strongTimeout
    IN  IF neighbor.status = "UNKNOWN"
        THEN [neighbor EXCEPT !.freqTimeoutCtr = LessDecrement(@)]
        ELSE IF neighbor.freqTimeoutCtr + 1 >= timeout THEN UnknownNeighbor
        ELSE [neighbor EXCEPT !.freqTimeoutCtr = @ + 1]

\* updateTopologyElement: the weak neighbors include the strong ones.
UpdateTopologyElement(c, t, node) ==
    LET status == t.neighbors[node].status
        In(set, yes) == IF yes THEN set \cup {node} ELSE set \ {node}
    IN  [t EXCEPT !.strong = In(@, status = "STRONG"),
                  !.weak = IF c.useWeakTopologies THEN In(@, status # "UNKNOWN") ELSE @]
-----------------------------------------------------------------------------
(* The heap of predecessors is a set of [node, rssi, timeoutCtr] records.  *)

HasPredecessor(t) == t.predecessors # {}

\* The front of the heap.  (Which one of two with the same strength it is
\* depends on the history of the heap: here the lower id.)
BestPredecessor(t) ==
    CHOOSE p \in t.predecessors :
        \A q \in t.predecessors : p.rssi > q.rssi \/ (p.rssi = q.rssi /\ p.node <= q.node)

Others(t, node) == {p \in t.predecessors : p.node # node}

AddPredecessor(t, node, rssi, timeout) ==
    [t EXCEPT !.predecessors =
        Others(t, node) \cup {[node |-> node, rssi |-> rssi, timeoutCtr |-> timeout]}]

ForcePredecessorOut(t, node) == [t EXCEPT !.predecessors = Others(t, node)]

\* removePredecessor without force: after as many misses as its timeout.
MissPredecessor(t, node) ==
    [t EXCEPT !.predecessors =
        Others(t, node) \cup {[p EXCEPT !.timeoutCtr = @ - 1] :
                                p \in {q \in t.predecessors : q.node = node /\ q.timeoutCtr > 1}}]

ComputeBadAssignee(c, me, t) ==
    [t EXCEPT !.badAssignee =
        me # 0 /\ (HasPredecessor(t) => BestPredecessor(t).rssi < c.minNeighborRSSI)]
-----------------------------------------------------------------------------
\* receivedMessage: sender is the topology element of the message.
ReceivedMessage(c, me, t, hop, rssi, bad, sender) ==
    LET node == sender.id
        known == UpdateTopologyElement(c,
                    [t EXCEPT !.neighbors[node] =
                        UpdateReceived(c, @, rssi, me \in sender.strong,
                                       c.useWeakTopologies /\ me \in sender.weak)], node)
        placed == CASE known.neighbors[node].status = "UNKNOWN" -> known
                    [] OTHER ->
                        IF hop < t.myHop
                        THEN AddPredecessor(known, node, IF bad THEN rssi - 128 ELSE rssi,
                                            c.strongTimeout)
                        ELSE ForcePredecessorOut(known, node)
    IN  ComputeBadAssignee(c, me, placed)

MissedMessage(c, me, t, node) ==
    ComputeBadAssignee(c, me,
        MissPredecessor(
            UpdateTopologyElement(c, [t EXCEPT !.neighbors[node] = UpdateMissed(c, @)], node), node))

MyTopologyElement(me, t) == [id |-> me, strong |-> t.strong, weak |-> t.weak]
=============================================================================
