------------------------------ MODULE DataPlane ------------------------------
(***************************************************************************)
(* From a topology and a list of streams to packets: the scheduler routes  *)
(* the streams (Router) and gives their transmissions slots                *)
(* (SlotAllocation), every node expands the schedule into what it does in  *)
(* each slot (ScheduleDownlinkPhase::expandSchedule), and the data phases  *)
(* of all nodes play it, slot by slot, between the buffers of the streams  *)
(* (StreamBuffers), which the applications write and read.                 *)
(*                                                                         *)
(* The nodes apply the schedule together, as a schedule that was           *)
(* distributed to all promises.  Receptions may fail, and a node may be    *)
(* unable to operate for some time.                                        *)
(***************************************************************************)
EXTENDS Router, SlotAllocation, ScheduleExpansion, StreamBuffers, TLC

CONSTANT MaxPackets     \* bound on the packets an application writes

\* The blocks of a network are routes of its streams, as many for each as its
\* redundancy asks for, or none.  All links on which a transmission can disturb
\* another one are known to the scheduler: what it does not know of, it cannot
\* keep apart.  A strong link is a weak one too.
BlocksOf(n, id) == {b \in DOMAIN (n.established \o n.accepted) : (n.established \o n.accepted)[b][1].stream = id}

RouteOf(n, s, block) ==
    /\ block # <<>> /\ block[1].tx = s.src /\ block[Len(block)].rx = s.dst
    /\ \A i \in DOMAIN block : /\ block[i] = ScheduleElement(s, block[i].tx, block[i].rx)
                               /\ {block[i].tx, block[i].rx} \subseteq n.nodes
    /\ \A i \in 1..(Len(block) - 1) : block[i].rx = block[i + 1].tx
    /\ \A i, j \in DOMAIN block : (block[i].tx = block[j].tx \/ block[i].rx = block[j].rx) => i = j

ASSUME RoutesAssumption ==
    \A n \in Networks :
        /\ n.weak_graph = n.network_graph \/ n.useWeakTopologies
        /\ n.network_graph \subseteq n.weak_graph
        /\ \A s, t \in ToSet(n.streams) : s.id = t.id => s = t
        /\ \A b \in ToSet(n.established \o n.accepted) : \E s \in ToSet(n.streams) : RouteOf(n, s, b)
        /\ \A s \in ToSet(n.streams) :
            /\ {s.src, s.dst} \subseteq n.nodes /\ s.redundancy \in Redundancies
            /\ Cardinality(BlocksOf(n, s.id)) \in {0, RedundancyCount(s.redundancy)}

VARIABLES
    explicit,   \* explicit[n][k]: the entry of currentSchedule of node n
    slot,       \* slotIndex, the same on all nodes
    buffer,     \* buffer[n][s]: the packet node n holds of a stream it relays
    bufCtr,     \* bufCtr[n][s]: transmissions of it done in this period
    tx, rx,     \* buffers of the streams at the source and the destination
    written,    \* written[s]: number of packets written
    read,       \* read[s]: the packets read, in order
    lost,       \* lost[s]: receptions of the stream that failed in this period
    losses,     \* receptions that failed so far, at most net.maxLosses
    out,        \* nodes whose MAC cannot operate
    interrupted \* nodes that were out before, at most net.maxOutages

appVars == <<written, read>>
airVars == <<lost, losses, out, interrupted>>
playVars == <<explicit, slot, buffer, bufCtr, tx, rx, appVars, airVars>>
vars == <<net, allocVars, playVars>>

Streams == net.streams
Ids == {Streams[i].id : i \in DOMAIN Streams}
StreamOf(id) == CHOOSE s \in ToSet(Streams) : s.id = id
Count(id) == RedundancyCount(StreamOf(id).redundancy)

\* An instance with the blocks that the router makes for it: accepted streams
\* in the order of their periods, longest first.
Routed(n) ==
    LET With(status) == {s.id : s \in {t \in ToSet(n.streams) : t.status = status}}
        ordered == SortSeq(n.streams, LAMBDA s, t : s.period > t.period)
    IN  n @@ [established |-> Run(n, n.network_graph, n.streams, With("ESTABLISHED")),
              accepted |-> Run(n, n.network_graph, ordered, With("ACCEPTED"))]
-----------------------------------------------------------------------------
(* expandSchedule *)

\* Elements are expanded in order, and a later one overwrites.
ExpandSchedule(n, sched, slots) ==
    LET Acting(k) == {i \in DOMAIN sched : Role(n, sched[i]) # "SLEEP" /\ Uses(sched[i], k)}
        Entry(i) == [action |-> Role(n, sched[i]), stream |-> sched[i].stream,
                     hasBuffer |-> HasBuffer(n, sched, i)]
    IN  [k \in 0..(slots - 1) |->
            IF Acting(k) = {} THEN Sleep
            ELSE Entry(CHOOSE i \in Acting(k) : \A j \in Acting(k) : j <= i)]

\* forwardedStreamCtr: the transmissions of a stream a node relays.
Forwarded(n, id) ==
    Cardinality({i \in DOMAIN current_schedule :
        current_schedule[i].stream = id /\ Role(n, current_schedule[i]) = "SENDBUFFER"})

ScheduleSlots == newSize * net.slotsPerTile
-----------------------------------------------------------------------------
Empty == [stream |-> 0, packet |-> NoPacket]

Init ==
    /\ AllocInit
    /\ explicit = <<>> /\ slot = 0
    /\ buffer = [n \in net.nodes |-> [id \in Ids |-> Empty]]
    /\ bufCtr = [n \in net.nodes |-> [id \in Ids |-> 0]]
    /\ tx = [id \in Ids |-> TxBuffers] /\ rx = [id \in Ids |-> RxBuffers]
    /\ written = [id \in Ids |-> 0] /\ read = [id \in Ids |-> <<>>]
    /\ lost = [id \in Ids |-> 0] /\ losses = 0
    /\ out = {} /\ interrupted = {}

Schedule == AllocNext /\ UNCHANGED playVars

\* DataPhase::applySchedule on every node, at the activation tile.
ApplySchedule ==
    /\ stage = "done" /\ explicit = <<>>
    /\ explicit' = [n \in net.nodes |-> ExpandSchedule(n, current_schedule, ScheduleSlots)]
    /\ UNCHANGED <<net, allocVars, slot, buffer, bufCtr, tx, rx, appVars, airVars>>

Playing == explicit # <<>>

\* Stream::write and Stream::read, by application threads that call them at any
\* time.  Packets are numbered in the order they are written.
AppWrite(id) ==
    /\ Playing /\ written[id] < MaxPackets
    /\ CanWrite(tx[id])
    /\ written' = [written EXCEPT ![id] = @ + 1]
    /\ tx' = [tx EXCEPT ![id] = Write(@, written'[id])]
    /\ UNCHANGED <<net, allocVars, explicit, slot, buffer, bufCtr, rx, read, airVars>>

AppRead(id) ==
    /\ Playing
    /\ CanRead(rx[id])
    /\ rx' = [rx EXCEPT ![id] = Read(@)]
    /\ read' = IF rx[id].rxPacketShared = NoPacket THEN read
               ELSE [read EXCEPT ![id] = Append(@, rx[id].rxPacketShared)]
    /\ UNCHANGED <<net, allocVars, explicit, slot, buffer, bufCtr, tx, written, airVars>>

Entry(n) == explicit[n][slot]
Does(action) == {n \in net.nodes \ out : Entry(n).action = action}
NextSlot == slot' = (slot + 1) % ScheduleSlots

\* MACContext::run uses the first slots of a tile for the control phases.
AdvanceBy ==
    /\ Playing /\ ~DataSlot(net, slot)
    /\ NextSlot
    /\ UNCHANGED <<net, allocVars, explicit, buffer, bufCtr, tx, rx, appVars, airVars>>

\* What a node puts on the air in this slot: sendFromStream, sendFromBuffer.
Sent(n) ==
    LET id == Entry(n).stream
    IN  IF n \in out THEN Empty
        ELSE CASE Entry(n).action = "SENDSTREAM" ->
                    [stream |-> id, packet |-> SendPacket(tx[id], Count(id)).txPacket]
               [] Entry(n).action = "SENDBUFFER" /\ Entry(n).hasBuffer -> buffer[n][id]
               [] OTHER -> Empty

\* A receiver gets a packet when exactly one of the nodes it can hear sends.
Senders(r) == {n \in net.nodes : Sent(n).packet # NoPacket /\ HasEdge(net.weak_graph, n, r)}
Audible == {r \in Does("RECVSTREAM") \cup Does("RECVBUFFER") : Cardinality(Senders(r)) = 1}
Heard(r, failed) ==
    IF r \in Audible \ failed THEN Sent(CHOOSE n \in net.nodes : n \in Senders(r)) ELSE Empty

\* receiveToStream takes a packet of its own stream only.
CheckStreamId(pkt, id) == pkt.stream = id
Received(r, failed) ==
    IF r \notin out /\ CheckStreamId(Heard(r, failed), Entry(r).stream) THEN Heard(r, failed).packet ELSE NoPacket

BufferAfter(n, id, failed) ==
    IF n \in Does("RECVBUFFER") /\ Entry(n).stream = id THEN Heard(n, failed)
    ELSE IF /\ n \in Does("SENDBUFFER") /\ Entry(n).stream = id /\ Entry(n).hasBuffer
            /\ bufCtr[n][id] + 1 >= Forwarded(n, id)
         THEN Empty ELSE buffer[n][id]

CtrAfter(n, id) ==
    IF n \in Does("SENDBUFFER") /\ Entry(n).stream = id /\ Entry(n).hasBuffer
    THEN NextCount(bufCtr[n][id], Forwarded(n, id)) ELSE bufCtr[n][id]

\* The slots of a stream at its source and its destination, where execute and
\* advance both call sendPacket, and receivePacket or missPacket.
Sending(id) ==
    LET e == Entry(StreamOf(id).src) IN e.action = "SENDSTREAM" /\ e.stream = id
Receiving(id, r) == Entry(r).action = "RECVSTREAM" /\ Entry(r).stream = id

\* DataPhase::execute on the nodes that operate, with the receptions that fail,
\* and DataPhase::advance on the others: it counts the packets of the streams
\* but leaves buffers and their counters alone.
Execute(failed) ==
    /\ Playing /\ DataSlot(net, slot)
    /\ failed \subseteq Audible
    /\ losses + Cardinality(failed) <= net.maxLosses
    /\ NextSlot
    /\ tx' = [id \in Ids |-> IF Sending(id) THEN SendPacket(tx[id], Count(id)) ELSE tx[id]]
    /\ rx' = [id \in Ids |->
                LET r == StreamOf(id).dst
                IN  IF ~Receiving(id, r) THEN rx[id]
                    ELSE IF Received(r, failed) # NoPacket
                         THEN ReceivePacket(rx[id], Count(id), Received(r, failed))
                         ELSE MissPacket(rx[id], Count(id))]
    /\ buffer' = [n \in net.nodes |-> [id \in Ids |-> BufferAfter(n, id, failed)]]
    /\ bufCtr' = [n \in net.nodes |-> [id \in Ids |-> CtrAfter(n, id)]]
    /\ losses' = losses + Cardinality(failed)
    /\ lost' = [id \in Ids |->
                    (IF Sending(id) /\ tx[id].txCount = 0 THEN 0 ELSE lost[id])
                    + Cardinality({r \in failed : Entry(r).stream = id})]
    /\ UNCHANGED <<net, allocVars, explicit, appVars, out, interrupted>>

\* The synchronization error of a node grows too large, or small again, at the
\* timesync that opens a control superframe (macCanOperate).
SuperframeStarts == Playing /\ slot % (net.slotsPerTile * Size(net)) = 0
LoseSync(n) ==
    /\ SuperframeStarts
    /\ Cardinality(interrupted) < net.maxOutages /\ n \notin interrupted
    /\ out' = out \cup {n} /\ interrupted' = interrupted \cup {n}
    /\ UNCHANGED <<net, allocVars, explicit, slot, buffer, bufCtr, tx, rx, appVars, lost, losses>>
RegainSync(n) ==
    /\ SuperframeStarts /\ n \in out
    /\ out' = out \ {n}
    /\ UNCHANGED <<net, allocVars, explicit, slot, buffer, bufCtr, tx, rx, appVars, lost, losses,
                   interrupted>>

Play ==
    \/ ApplySchedule
    \/ \E n \in net.nodes : LoseSync(n) \/ RegainSync(n)
    \/ AdvanceBy
    \/ \E id \in Ids : AppWrite(id) \/ AppRead(id)
    \/ \E failed \in SUBSET net.nodes : Execute(failed)

Next == Schedule \/ Play

Spec == Init /\ [][Next]_vars
-----------------------------------------------------------------------------
Blocks == net.established \o net.accepted
PlacedOf(b) == {e \in Elements : e.blk = b}

\* All copies of the packets of a stream have all their hops.
Complete(id) == \A b \in BlocksOf(net, id) : Cardinality(PlacedOf(b)) = Len(Blocks[b])

\* None of them falls in a control slot, as it may when the period of the stream
\* is not a multiple of the control superframe.
InDataSlots(id) ==
    \A e \in Elements : e.stream = id =>
        \A k \in 0..(ScheduleSlots - 1) : Uses(e, k) => DataSlot(net, k)

\* Then source, relays and destination count the same transmissions in a period.
Intact(id) == Complete(id) /\ InDataSlots(id)

\* No relay receives a second copy between the reception and the transmission
\* of the first.
Separate(id) ==
    \A b \in BlocksOf(net, id) : \A r, s \in PlacedOf(b) :
        r.rx = s.tx =>
            ~\E e \in Elements : /\ e.stream = id /\ e.blk # b /\ e.rx = r.rx
                                 /\ r.offset < e.offset /\ e.offset < s.offset

\* The route of a stream is a shortest one, within maxHops, and every stream
\* that has one is routed as many times as its redundancy says.  Copies take the
\* same path, except that with spatial redundancy the last one takes another if
\* there is one, of at most one hop more, that shares no relay with it.  (Said of
\* the blocks as the allocation gets them, and of other paths in networks of up
\* to four nodes: in a ring of five, dfsRun has used up its limit before the end
\* of the longer path.)
RoutesRight ==
    blk = 0 => \A i \in DOMAIN Streams :
        LET s == Streams[i]
            g == net.network_graph
            NodesOn(b) == <<Blocks[b][1].tx>> \o [k \in DOMAIN Blocks[b] |-> Blocks[b][k].rx]
            bs == BlocksOf(net, s.id)
            first == CHOOSE b \in bs : \A c \in bs : b <= c
            last == CHOOSE b \in bs : \A c \in bs : c <= b
            found == s.dst \in Within(g, s.src, net.maxHops)
        IN  /\ Cardinality(bs) = IF found THEN Count(s.id) ELSE 0
            /\ \A b \in bs : /\ IsPath(g, NodesOn(b))
                             /\ Blocks[b][1].tx = s.src
                             /\ Blocks[b][Len(Blocks[b])].rx = s.dst
            /\ found => s.dst \notin Within(g, s.src, Len(Blocks[first]) - 1)
            /\ found => \A b \in bs \ (IF Spatial(s.redundancy) THEN {last} ELSE {}) :
                            Blocks[b] = Blocks[first]
            /\ (found /\ Spatial(s.redundancy) /\ Len(Blocks[first]) > 1
                /\ Cardinality(net.nodes) <= 4) =>
                    LET relays == ToSet(Tail(NodesOn(first))) \ {s.dst}
                        rest == {e \in g : {e[1], e[2]} \cap relays = {}}
                    IN  s.dst \in Within(rest, s.src, Len(Blocks[first]) + 1) =>
                            ToSet(Tail(NodesOn(last))) \cap relays = {}

\* Readers get packets in the order they were written and none twice, whatever
\* receptions fail, whatever other streams share the slots, however late the
\* application reads, and even if source or destination cannot operate for some
\* time.  A relay that cannot operate keeps what it holds: if that begins before
\* it has sent a packet and ends before it sends the next, the old one is sent.
\* And a stream that lacks transmissions is no longer at the same period at both
\* ends: of a packet sent at the end of one period, a copy is left for the next.
Relays(id) == {e.rx : e \in {f \in Elements : f.stream = id /\ f.rx # f.dst}}
ReadInOrder ==
    \A id \in Ids : (Intact(id) /\ Relays(id) \cap interrupted = {}) =>
        \A i \in 1..(Len(read[id]) - 1) : read[id][i] < read[id][i + 1]

\* At the end of a period the reader is handed the packet that the writer had
\* ready at its beginning if fewer receptions failed than the packet has copies:
\* for streams with all their hops, whose relays do not mix copies.
PeriodEnds(id) ==
    /\ Playing /\ slot' # slot /\ DataSlot(net, slot)
    /\ Receiving(id, StreamOf(id).dst)
    /\ rx'[id].rxCount = 0
LossesMasked ==
    [][\A id \in Ids :
        (PeriodEnds(id) /\ interrupted = {} /\ Intact(id) /\ Separate(id)
         /\ lost'[id] < Count(id))
            => rx'[id].rxPacketShared = tx'[id].txPacket]_vars
-----------------------------------------------------------------------------
(***************************************************************************)
(* Why packets come in order (inductive, with AllocInv): what a stream     *)
(* whose transmissions are all there carries in a period is one packet.    *)
(* The counters tell how many transmissions of the period have passed; the *)
(* source takes a new packet before the first one, when no relay has heard *)
(* the old one in this period and the destination has handed it over; and  *)
(* a relay hears of a packet in the period before it sends.                *)
(***************************************************************************)
\* Where the transmissions come from, and what the schedule's size is for.
Hop(e, t) ==
    /\ e.stream = t.stream /\ e.src = t.src /\ e.dst = t.dst
    /\ e.period = t.period /\ e.tx = t.tx /\ e.rx = t.rx
BlocksInv ==
    /\ blk + Len(blocks) = IF stage = "established" THEN Len(net.established) ELSE Len(Blocks)
    /\ \A j \in DOMAIN blocks : blocks[j] = Blocks[blk + j]
    /\ todo # <<>> =>
        /\ blk \in DOMAIN Blocks /\ Len(todo) <= Len(Blocks[blk])
        /\ \A j \in DOMAIN todo : todo[j] = Blocks[blk][Len(Blocks[blk]) - Len(todo) + j]
    /\ \A e \in Elements :
        /\ e.blk \in DOMAIN Blocks
        /\ \E i \in DOMAIN Blocks[e.blk] :
            /\ Hop(e, Blocks[e.blk][i])
            /\ (todo # <<>> /\ e.blk = blk) => i <= Len(Blocks[blk]) - Len(todo)
    /\ \A e, f \in Elements : (e.blk = f.blk /\ e.tx = f.tx) => e = f
SizeInv ==
    /\ \A e \in Elements : newSize % e.period = 0
    /\ todo # <<>> =>
        /\ \A i \in DOMAIN current_schedule : lastSize % current_schedule[i].period = 0
        /\ \A i \in 1..(Len(scheduled_transmissions) - block_size) :
                lastSize % scheduled_transmissions[i].period = 0
    /\ stage = "done" => blocks = <<>> /\ todo = <<>> /\ scheduled_transmissions = <<>>

\* Transmissions of a stream, and those that have passed in this period.
Hops(id) == {e \in Elements : e.stream = id}
FirstHops(id) == {e \in Hops(id) : e.tx = StreamOf(id).src}
LastHops(id) == {e \in Hops(id) : e.rx = StreamOf(id).dst}
Phase(id) == slot % (StreamOf(id).period * net.slotsPerTile)
Passed(id, hops) == {e \in hops : e.offset < Phase(id)}
Counter(id, hops) ==
    LET passed == Cardinality(Passed(id, hops)) IN IF passed = Count(id) THEN 0 ELSE passed

\* The packet of this period is on its way, and not handed over yet.
Begun(id) == Passed(id, FirstHops(id)) # {}
Pending(id) == Begun(id) /\ LastHops(id) \ Passed(id, LastHops(id)) # {}

CountersAgree(id) ==
    /\ tx[id].txCount = Counter(id, FirstHops(id))
    /\ rx[id].rxCount = Counter(id, LastHops(id))
OnePacket(id) ==
    /\ rx[id].rxPacket \in (IF rx[id].rxCount = 0 THEN {NoPacket} ELSE {NoPacket, tx[id].txPacket})
    /\ \A e \in Hops(id) : (e.offset < Phase(id) /\ e.rx # e.dst) =>
            buffer[e.rx][id] \in {Empty, [stream |-> id, packet |-> tx[id].txPacket]}

\* Newer than all that was handed over and read.
Newer(id, packet) ==
    packet # NoPacket => /\ rx[id].rxPacketShared < packet
                         /\ \A i \in DOMAIN read[id] : read[id][i] < packet
Ordered(id) ==
    /\ Newer(id, tx[id].nextTxPacket)
    /\ tx[id].nextTxPacket # NoPacket => tx[id].txPacket < tx[id].nextTxPacket
    /\ Pending(id) => Newer(id, tx[id].txPacket)
    /\ rx[id].rxPacketShared <= written[id]
    /\ rx[id].rxPacketShared # NoPacket => \A i \in DOMAIN read[id] : read[id][i] < rx[id].rxPacketShared
    /\ \A i \in DOMAIN read[id] : read[id][i] <= written[id]
    /\ \A i, j \in DOMAIN read[id] : i < j => read[id][i] < read[id][j]

TxTypes == [nextTxPacket : Nat, txPacket : Nat, txCount : Nat]
RxTypes == [rxPacket : Nat, rxPacketShared : Nat, alreadyReceivedShared : BOOLEAN, rxCount : Nat]
AirTypes == [stream : Nat, packet : Nat]
BuffersTyped ==
    /\ buffer \in [net.nodes -> [Ids -> AirTypes]]
    /\ tx \in [Ids -> TxTypes] /\ rx \in [Ids -> RxTypes]
    /\ written \in [Ids -> Nat] /\ read \in [Ids -> Seq(Nat)]
    /\ \A id \in Ids : tx[id].nextTxPacket <= written[id] /\ tx[id].txPacket <= written[id]

PlayInv ==
    /\ BuffersTyped
    /\ slot \in 0..(ScheduleSlots - 1)
    /\ out \subseteq interrupted
    /\ IF explicit = <<>>
       THEN /\ slot = 0
            /\ tx = [id \in Ids |-> TxBuffers] /\ rx = [id \in Ids |-> RxBuffers]
            /\ read = [id \in Ids |-> <<>>]
       ELSE /\ stage = "done"
            /\ explicit = [n \in net.nodes |-> ExpandSchedule(n, current_schedule, ScheduleSlots)]
    /\ \A id \in Ids : (Playing /\ Intact(id) /\ Relays(id) \cap interrupted = {}) =>
            CountersAgree(id) /\ OnePacket(id) /\ Ordered(id)

\* Why fewer losses than copies are masked (inductive, with the above): a copy
\* that is not where the transmissions that have passed should have brought it
\* has lost a reception of its own in this period.
LinkedInv ==
    LET all == current_schedule \o scheduled_transmissions
    IN  /\ \A e \in Elements : HasEdge(net.network_graph, e.tx, e.rx)
        /\ \A i, j \in DOMAIN all : (all[i].blk = all[j].blk /\ all[i].rx = all[j].tx) => i < j

OnItsWay(id, b) ==
    \A e \in PlacedOf(b) : e.offset < Phase(id) =>
        IF e.rx = e.dst THEN Pending(id) => rx[id].rxPacket = tx[id].txPacket
        ELSE \A f \in PlacedOf(b) : (f.tx = e.rx /\ ~(f.offset < Phase(id))) =>
                buffer[e.rx][id] = [stream |-> id, packet |-> tx[id].txPacket]
LostCopies(id) == {b \in BlocksOf(net, id) : ~OnItsWay(id, b)}
LossInv ==
    /\ lost \in [Ids -> Nat]
    /\ \A id \in Ids : (/\ Playing /\ Intact(id) /\ Separate(id) /\ interrupted = {}
                        /\ Begun(id) /\ tx[id].txPacket # NoPacket) =>
            Cardinality(LostCopies(id)) <= lost[id]
=============================================================================
