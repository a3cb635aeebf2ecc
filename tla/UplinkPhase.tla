----------------------------- MODULE UplinkPhase -----------------------------
(***************************************************************************)
(* The uplink phase of a node: in each uplink one node speaks, by turns.   *)
(* The others learn from it who their neighbors are, and the one it chose  *)
(* as its predecessor takes over the topologies and SMEs it brings.        *)
(*                                                                         *)
(* The phase is a record: next (nextNode), topologyQueue, smeQueue and     *)
(* table (myNeighborTable).                                                *)
(***************************************************************************)
EXTENDS NeighborTable, UplinkMessage, UpdatableQueue, TileCalendar

EmptyUplink(c, hop) ==
    [next |-> c.maxNodes - 1, topologyQueue |-> EmptyQueue, smeQueue |-> EmptyQueue,
     table |-> EmptyTable(c, hop)]

\* resync, and the alignment to the tile the timesync tells.
Resync(c, u, hop, tile) ==
    [u EXCEPT !.next = AlignToNetworkTime(c, tile), !.topologyQueue = EmptyQueue,
              !.smeQueue = EmptyQueue, !.table = ClearTable(@, hop)]

\* getAndUpdateCurrentNode, which is all that advance does.
Advance(c, u) == [u EXCEPT !.next = NodeAfter(c, @)]

MyTurn(u, me) == u.next = me

\* sendMyUplink: the message of a node, and the queues it leaves behind.  The
\* master, and a node that has no predecessor, send one packet with their own
\* topology only and their own id as assignee.
SendsAlone(u, me) == me = 0 \/ ~HasPredecessor(u.table)

Nothing == [topologies |-> 0, smes |-> 0, packets |-> 1]

Allocation(c, u, me) ==
    IF SendsAlone(u, me) THEN Nothing
    ELSE ComputePacketAllocation(c, Len(u.topologyQueue), Len(u.smeQueue))

MyHeader(u, me, allocation) ==
    UplinkHeader(u.table.myHop, u.table.badAssignee /\ me # 0,
                 IF SendsAlone(u, me) THEN me ELSE BestPredecessor(u.table).node, allocation)

MyUplink(c, u, me, allocation) ==
    SentPackets(c, SendUplinkMessage(c, MyHeader(u, me, allocation),
                                     MyTopologyElement(me, u.table), u.topologyQueue, u.smeQueue),
                allocation.packets)
MyMessage(c, u, me) == MyUplink(c, u, me, Allocation(c, u, me))

PacketsOf(message) == [i \in DOMAIN message |-> message[i].pkt]

\* What the message has taken leaves the queues before it is known to arrive.
AfterMyUplink(c, u, me, message) ==
    LET last == message[Len(message)]
    IN  Advance(c, IF me = 0
                   THEN [u EXCEPT !.topologyQueue = Enqueue(@, 0, MyTopologyElement(0, u.table))]
                   ELSE [u EXCEPT !.topologyQueue = last.topologyQueue, !.smeQueue = last.smeQueue])

\* deserializeTopologiesAndSMEs
TakeOver(u, contents) ==
    LET topologies == contents.topologies
        smes == contents.smes
    IN  [u EXCEPT
            !.topologyQueue = EnqueueAll(@, [i \in DOMAIN topologies |-> [key |-> topologies[i].id, val |-> topologies[i]]]),
            !.smeQueue = EnqueueAll(@, [i \in DOMAIN smes |-> [key |-> GetKey(smes[i]), val |-> smes[i]]])]

\* The packets that an assignee takes of those that reach it: it stops at the
\* first one that is not in order, or after the number it works out.
TakeOverAll(c, u, header, packets) ==
    LET f[i \in 1..Len(packets)] ==
            IF i = 1 THEN TakeOver(u, Contents(c, header, 0, FirstBody(c, packets[1])))
            ELSE IF /\ i <= GetNumPackets(c, header)
                    /\ \A j \in 2..i : CheckOtherPacket(c, header, j - 1, packets[j])
            THEN TakeOver(f[i - 1], Contents(c, header, i - 1, RemovePanHeader(packets[i])))
            ELSE f[i - 1]
        last == f[Len(packets)]
    IN  [u EXCEPT !.topologyQueue = last.topologyQueue, !.smeQueue = last.smeQueue]

\* receiveUplink, with the first packets of a message; the sender is who the node
\* believes to have the turn.
Heard(c, u, me, packets, rssi) ==
    LET header == HeaderIn(packets[1])
        sender == [SenderIn(packets[1]) EXCEPT !.id = u.next]
        known == [u EXCEPT !.table =
                    ReceivedMessage(c, me, @, GetHop(header), rssi, GetBadAssignee(header), sender)]
    IN  Advance(c, IF header.assignee = me
                   THEN TakeOverAll(c, [known EXCEPT !.topologyQueue = Enqueue(@, u.next, sender)],
                                    header, packets)
                   ELSE known)

MissUplink(c, u, me) == Advance(c, [u EXCEPT !.table = MissedMessage(c, me, @, u.next)])

ReceiveUplink(c, u, me, packets, rssi) ==
    IF CheckFirstPacket(c, packets[1]) THEN Heard(c, u, me, packets, rssi) ELSE MissUplink(c, u, me)
=============================================================================
