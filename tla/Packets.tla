------------------------------ MODULE Packets ------------------------------
(***************************************************************************)
(* Packets: bytes that are put one after the other and got back in the     *)
(* same order.  A packet is a record: items, what was put, each with its   *)
(* bytes (the number of them), from dataStart on; and dataSize, all bytes  *)
(* that were put.  c.maxPktSize is the room in a packet.                   *)
(***************************************************************************)
EXTENDS Integers, Sequences

panHeaderSize == 5

EmptyPacket == [items |-> <<>>, dataSize |-> 0, dataStart |-> 0]

PacketSize(pkt) == pkt.dataSize - pkt.dataStart

Available(c, pkt) == c.maxPktSize - pkt.dataSize

\* What does not fit is an overflow, which nobody catches.
Put(pkt, value, bytes) ==
    [pkt EXCEPT !.items = Append(@, [value |-> value, bytes |-> bytes]), !.dataSize = @ + bytes]
PutAll(pkt, values, bytes) ==
    [pkt EXCEPT !.items = @ \o [i \in DOMAIN values |-> [value |-> values[i], bytes |-> bytes]],
                !.dataSize = @ + Len(values) * bytes]
Overflown(c, pkt) == Available(c, pkt) < 0

\* The next value, when as many bytes are got as were put; and what is left.
Get(pkt) == pkt.items[1].value
Gone(pkt, bytes) == [pkt EXCEPT !.items = Tail(@), !.dataStart = @ + bytes]

\* The header of IEEE 802.15.4, with two bytes of destination PAN id.
PanHeader(panId) == <<70, 8, 255, (panId \div 256) % 256, panId % 256>>
PutPanHeader(pkt, panId) == Put(pkt, PanHeader(panId), panHeaderSize)
CheckPanHeader(pkt, panId) == pkt.items # <<>> /\ Get(pkt) = PanHeader(panId)
RemovePanHeader(pkt) == Gone(pkt, panHeaderSize)
=============================================================================
