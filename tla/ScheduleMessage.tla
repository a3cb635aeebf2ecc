--------------------------- MODULE ScheduleMessage ---------------------------
(***************************************************************************)
(* What goes on the air in a schedule downlink: a header and elements, of  *)
(* transmissions or of information, as bytes.  (Numbers of 32 bits are     *)
(* left as they are.)                                                      *)
(***************************************************************************)
EXTENDS Packets, SequencesExt

\* Bytes of the header (16, 16, 32, 32, 16 and 8 bits) and of an element (stream
\* id, parameters, and 8, 8 and 20 bits).
HeaderSize == 15
ElementSize == 3 + 2 + 5

ScheduleHeader(total, current, id, activation, tiles, repetition) ==
    [total |-> total % 2^16, current |-> current % 2^16, id |-> id,
     activation |-> activation, tiles |-> tiles % 2^16, repetition |-> repetition % 2^8]
NoHeader == ScheduleHeader(0, 0, 0, 0, 0, 0)

IncrementPacketCounter(h) == [h EXCEPT !.current = (@ + 1) % 2^16]
IncrementRepetition(h) == [h EXCEPT !.repetition = (@ + 1) % 2^8]

IsSchedulePacket(h) == h.total > 0

\* Information for a node about a stream or server, told from a transmission by
\* tx and rx.
InfoElement(id, type) == [stream |-> id, tx |-> 0, rx |-> 0, type |-> type]
IsInfo(e) == e.tx = 0 /\ e.rx = 0

GetPacketCapacity(c) == (c.maxPktSize - (panHeaderSize + HeaderSize)) \div ElementSize

Serialize(c, header, elements) ==
    PutAll(Put(PutPanHeader(EmptyPacket, c.panId), header, HeaderSize), elements, ElementSize)

\* The number of elements is worked out from the bytes left.
Deserialize(pkt) ==
    LET body == Gone(RemovePanHeader(pkt), HeaderSize)
    IN  [header |-> Get(RemovePanHeader(pkt)),
         elements |-> [i \in 1..(PacketSize(body) \div ElementSize) |-> body.items[i].value]]

\* Mutant: information stays with the transmissions.
WithInfo(packet) == packet

\* applyInfoElements: from the first one that is information on, elements are
\* taken out and handed to the stream manager.
WithoutInfo(packet) ==
    LET n == SelectInSeq(packet.elements, IsInfo)
    IN  IF n = 0 THEN packet ELSE [packet EXCEPT !.elements = SubSeq(@, 1, n - 1)]
=============================================================================
