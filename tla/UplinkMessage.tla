--------------------------- MODULE UplinkMessage ---------------------------
(***************************************************************************)
(* How topologies and SMEs waiting at a node are fitted in the packets of  *)
(* an uplink message, and what a receiver makes of the packets: it works   *)
(* out from the two numbers in the header, and how many packets came       *)
(* before, what must be in this one.  c.neighborBitmaskSize is the number  *)
(* of bytes of a set of neighbors, c.uplinkPackets the largest number of   *)
(* packets.                                                                *)
(***************************************************************************)
EXTENDS Packets, SequencesExt, StreamManagementElements

Least(a, b) == IF a < b THEN a ELSE b

UplinkHeaderSize == 4

Bitmasks(c) == (IF c.useWeakTopologies THEN 2 ELSE 1) * c.neighborBitmaskSize
TopologySize(c) == 1 + Bitmasks(c)

FirstCapacity(c) == c.maxPktSize - (panHeaderSize + UplinkHeaderSize + Bitmasks(c))
OtherCapacity(c) == c.maxPktSize - panHeaderSize
TotalCapacity(c) == FirstCapacity(c) + (c.uplinkPackets - 1) * OtherCapacity(c)

\* NetworkConfiguration: the width of its fields, and its check.  (That
\* maxNodes is a multiple of eight is left out: too many nodes for TLC.)
Byte == 0..255
Word == 0..65535
Short == -32768..32767
ConfigurationFields(c) ==
    /\ c.maxHops \in Byte /\ c.maxNodes \in Word /\ c.panId \in Word
    /\ \A n \in c.nodes : c.staticHop[n] \in Byte
    /\ c.maxMissedTimesyncs \in Byte /\ c.rcvWindow \in Nat
    /\ c.guaranteedTopologies \in Byte /\ c.uplinkPackets \in Byte
    /\ c.strongTimeout \in Word /\ c.weakTimeout \in Word
    /\ {c.minNeighborRSSI, c.minWeakNeighborRSSI} \subseteq Short
    /\ {c.channelSpatialReuse, c.useWeakTopologies} \subseteq BOOLEAN
ValidConfiguration(c) ==
    /\ c.guaranteedTopologies * TopologySize(c) <= TotalCapacity(c)
    /\ c.clockSyncPeriod % Len(c.superframe) = 0

\* Elements of one size are put in the packet at hand while they fit, then in
\* the next one, until there are none left or no packet.
Fill(c, size) ==
    LET f[s \in [packets : Nat \ {0}, bytes : Int, left : Nat]] ==
            LET fit == Least(s.left, s.bytes \div size)
                left == s.left - fit
            IN  IF left = 0 \/ s.packets >= c.uplinkPackets
                THEN [packets |-> s.packets, bytes |-> s.bytes - fit * size, left |-> left]
                ELSE f[[packets |-> s.packets + 1, bytes |-> OtherCapacity(c), left |-> left]]
    IN  f

\* computePacketAllocation: guaranteed topologies first, then SMEs, then other
\* topologies; what does not fit because no element is split stays out.
ComputePacketAllocation(c, topologies, smes) ==
    LET guaranteed == Least(c.guaranteedTopologies, topologies)
        bytes == TotalCapacity(c) - guaranteed * TopologySize(c)
        wantedSMEs == Least(smes, bytes \div SMESize)
        wanted == guaranteed + Least((bytes - wantedSMEs * SMESize) \div TopologySize(c),
                                     topologies - guaranteed)
        first == Fill(c, TopologySize(c))[[packets |-> 1, bytes |-> FirstCapacity(c), left |-> wanted]]
        second == Fill(c, SMESize)[[first EXCEPT !.left = wantedSMEs]]
    IN  [topologies |-> wanted - first.left, smes |-> wantedSMEs - second.left,
         packets |-> second.packets]

\* The hop and, in its highest bit, whether the sender has no good assignee.
UplinkHeader(hop, bad, assignee, allocation) ==
    [hop |-> (hop % 128) + (IF bad THEN 128 ELSE 0), assignee |-> assignee,
     numTopology |-> allocation.topologies % 256, numSME |-> allocation.smes % 256]
GetHop(header) == header.hop % 128
GetBadAssignee(header) == header.hop >= 128

\* UplinkHeader::getHop, which says only whether there is a hop.
HopAsBool(header) == IF header.hop % 128 # 0 THEN 1 ELSE 0
-----------------------------------------------------------------------------
\* serialize: the elements without the keys of the queue.
Elements(queue) == [i \in DOMAIN queue |-> queue[i].val]
SerializeTopologies(c, pkt, topologies) == PutAll(pkt, topologies, TopologySize(c))
SerializeSMEs(pkt, smes) == PutAll(pkt, smes, SMESize)

Rest(queue, n) == SubSeq(queue, n + 1, Len(queue))

\* A message on its way is the packet at hand, the numbers in the header not sent
\* yet, and the queues: the first packet has the header and the topology of the
\* sender.
SendUplinkMessage(c, header, mine, topologyQueue, smeQueue) ==
    [pkt |-> Put(Put(PutPanHeader(EmptyPacket, c.panId), header, UplinkHeaderSize),
                 mine, Bitmasks(c)),
     numTopologies |-> header.numTopology, numSMEs |-> header.numSME,
     topologyQueue |-> topologyQueue, smeQueue |-> smeQueue]

\* Mutant: SMEs do not wait for the last topology.
InPacketTogether(c, s) ==
    LET topologies == Least(s.numTopologies, Available(c, s.pkt) \div TopologySize(c))
        rest == Available(c, s.pkt) - topologies * TopologySize(c)
    IN  [topologies |-> topologies, smes |-> Least(s.numSMEs, rest \div SMESize)]

\* What goes in the packet at hand.  SMEs wait for the last topology.
InPacket(c, s) ==
    LET topologies == Least(s.numTopologies, Available(c, s.pkt) \div TopologySize(c))
        rest == Available(c, s.pkt) - topologies * TopologySize(c)
    IN  [topologies |-> topologies,
         smes |-> IF topologies < s.numTopologies THEN 0 ELSE Least(s.numSMEs, rest \div SMESize)]

SerializeTopologiesAndSMEs(c, s) ==
    LET n == InPacket(c, s)
    IN  [pkt |-> SerializeSMEs(
                    SerializeTopologies(c, s.pkt, Elements(SubSeq(s.topologyQueue, 1, n.topologies))),
                    Elements(SubSeq(s.smeQueue, 1, n.smes))),
         numTopologies |-> s.numTopologies - n.topologies, numSMEs |-> s.numSMEs - n.smes,
         topologyQueue |-> Rest(s.topologyQueue, n.topologies), smeQueue |-> Rest(s.smeQueue, n.smes)]

\* The message after each of n packets.
SentPackets(c, first, n) ==
    LET f[i \in 1..n] ==
            SerializeTopologiesAndSMEs(c,
                IF i = 1 THEN first
                ELSE [f[i - 1] EXCEPT !.pkt = PutPanHeader(EmptyPacket, c.panId)])
    IN  f
-----------------------------------------------------------------------------
\* A loop of checkTopologiesAndSMEs: the elements of one size are allotted to
\* packets, and here is the number of them in the packet after the received
\* ones.  More than the largest number of packets is an error.
Allot(c, size, received) ==
    LET f[s \in [packets : Nat \ {0}, bytes : Nat, left : Nat, here : Nat]] ==
            LET fit == Least(s.left, s.bytes \div size)
                left == s.left - fit
                here == IF s.packets = received + 1 THEN fit ELSE s.here
            IN  IF left = 0 \/ s.packets >= c.uplinkPackets
                THEN [packets |-> s.packets, bytes |-> s.bytes - fit * size, left |-> left, here |-> here]
                ELSE f[[packets |-> s.packets + 1, bytes |-> OtherCapacity(c), left |-> left, here |-> here]]
    IN  f

\* What must be in the packet after the received ones, in how many packets, and
\* whether the numbers in the header are possible.
Layout(c, header, received) ==
    LET first == Allot(c, TopologySize(c), received)[
                    [packets |-> 1, bytes |-> FirstCapacity(c), left |-> header.numTopology, here |-> 0]]
        second == Allot(c, SMESize, received)[[first EXCEPT !.left = header.numSME, !.here = 0]]
    IN  [possible |-> first.left = 0 /\ second.left = 0,
         topologies |-> first.here, smes |-> second.here, packets |-> second.packets]

\* TopologyElement::validateInPacket
ValidTopology(c, topology) == topology.id < c.maxNodes

\* checkTopologiesAndSMEs
CheckTopologiesAndSMEs(c, header, received, body) ==
    LET n == Layout(c, header, received)
    IN  /\ n.possible
        /\ n.topologies * TopologySize(c) + n.smes * SMESize = PacketSize(body)
        /\ \A i \in DOMAIN body.items :
                IF i <= n.topologies THEN ValidTopology(c, body.items[i].value)
                ELSE ValidSME(body.items[i].value, c.maxNodes)

\* The packet without its headers.
FirstBody(c, pkt) == Gone(Gone(RemovePanHeader(pkt), UplinkHeaderSize), Bitmasks(c))
HeaderIn(pkt) == Get(RemovePanHeader(pkt))
SenderIn(pkt) == Get(Gone(RemovePanHeader(pkt), UplinkHeaderSize))

CheckFirstPacket(c, pkt) ==
    /\ CheckPanHeader(pkt, c.panId)
    /\ HopAsBool(HeaderIn(pkt)) <= c.maxHops
    /\ HeaderIn(pkt).assignee <= c.maxNodes
    /\ (HeaderIn(pkt).numTopology # 0 \/ HeaderIn(pkt).numSME # 0) =>
            CheckTopologiesAndSMEs(c, HeaderIn(pkt), 0, FirstBody(c, pkt))

CheckOtherPacket(c, header, received, pkt) ==
    /\ CheckPanHeader(pkt, c.panId)
    /\ CheckTopologiesAndSMEs(c, header, received, RemovePanHeader(pkt))

\* getNumPackets: none when the header tells of no elements.
GetNumPackets(c, header) ==
    IF header.numTopology = 0 /\ header.numSME = 0 THEN 0
    ELSE Layout(c, header, 0).packets

\* deserialize: n elements from the front of a body, the topologies or what is
\* left after them.
Taken(body, n) == [i \in 1..n |-> body.items[i].value]
DeserializeTopologies(body, n) == Taken(body, n.topologies)
DeserializeSMEs(body, n) ==
    Taken([body EXCEPT !.items = Rest(@, n.topologies)], n.smes)

\* The elements of a packet with the body given, the topologies first.
Contents(c, header, received, body) ==
    LET n == Layout(c, header, received)
    IN  [topologies |-> DeserializeTopologies(body, n), smes |-> DeserializeSMEs(body, n)]
=============================================================================
