------------------------ MODULE ScheduleDistribution ------------------------
(***************************************************************************)
(* The schedule downlink phase.  The master sends a new schedule, cut in   *)
(* packets, a few times over, and names the tile where all nodes begin to  *)
(* play it.  A node that has all packets then plays it; one that lacks a   *)
(* packet plays nothing and asks for the schedule again.                   *)
(*                                                                         *)
(* md is the phase of the master: status, header, schedule, position.  d   *)
(* is that of a node: status, header, schedule, received and incomplete    *)
(* (incompleteScheduleCounter).  The data phase is a record too: id, tiles *)
(* and schedule of what it plays and pos, the tile it is at (slotIndex at  *)
(* the start of a tile).  Information about streams rides in the packets   *)
(* that have room for it, or alone.                                        *)
(***************************************************************************)
EXTENDS TileCalendar, ScheduleMessage

CONSTANT ScheduleRepetitions    \* how often the packets are sent
ASSUME RepetitionsAssumption == ScheduleRepetitions \in Nat \ {0}

PlaysNothing == [id |-> 0, tiles |-> 0, pos |-> 0, schedule |-> <<>>]

\* DataPhase::incrementSlot, by whole tiles.
Advanced(data, tiles) ==
    [data EXCEPT !.pos = IF data.tiles = 0 THEN 0 ELSE (@ + tiles) % data.tiles]

\* DataPhase::applySchedule
Play(header, schedule, tile) ==
    Advanced([id |-> header.id, tiles |-> header.tiles, pos |-> 0, schedule |-> schedule],
             tile - header.activation)
-----------------------------------------------------------------------------
MasterDistribution ==
    [status |-> "APPLIED_SCHEDULE", header |-> NoHeader, schedule |-> <<>>, position |-> 0]

\* The packets that a schedule takes; one if it is empty.
PacketsFor(c, schedule) ==
    LET capacity == GetPacketCapacity(c)
    IN  IF schedule = <<>> THEN 1 ELSE (Len(schedule) + capacity - 1) \div capacity

\* The header of the new schedule; last is that of the one before.
NewHeader(c, last, schedule, id, tiles, tile) ==
    LET packets == PacketsFor(c, schedule)
        earliest == GetActivationTile(c, tile, ScheduleRepetitions * packets)
    IN  ScheduleHeader(packets, 0, id,
                       IF last.tiles > 0
                       THEN AlignedActivation(c, earliest, last.activation, last.tiles)
                       ELSE earliest,
                       tiles, 0)

\* The scheduler as the phase sees it: published is its schedule, with whether it
\* is still to be sent and applied.
NeedToSendSchedule(published) == published.notApplied
GetSchedule(published) ==
    [schedule |-> published.schedule, id |-> published.id, tiles |-> published.tiles]
ScheduleSentAndApplied(published) == [published EXCEPT !.notApplied = FALSE]

GetScheduleAndComputeActivation(c, md, new, tile) ==
    [status |-> "SENDING_SCHEDULE", schedule |-> new.schedule, position |-> 0,
     header |-> NewHeader(c, md.header, new.schedule, new.id, new.tiles, tile)]

Sending(md) == md.status = "SENDING_SCHEDULE" /\ md.header.repetition < ScheduleRepetitions

\* The elements of the next packet of the schedule.
NextElements(c, md) ==
    LET end == md.position + GetPacketCapacity(c)
    IN  SubSeq(md.schedule, md.position + 1, IF end < Len(md.schedule) THEN end ELSE Len(md.schedule))

\* After a packet: the next one, of the next repetition after the last.
PacketSent(c, md) ==
    LET sent == [md EXCEPT !.position = @ + Len(NextElements(c, md)),
                           !.header = IncrementPacketCounter(@)]
    IN  IF sent.header.current < sent.header.total THEN sent
        ELSE [sent EXCEPT !.position = 0,
                          !.header = IncrementRepetition([@ EXCEPT !.current = 0])]

\* All repetitions sent, and the tile has come.
MasterActivates(md, tile) ==
    /\ md.status \in {"SENDING_SCHEDULE", "AWAITING_ACTIVATION"}
    /\ ~Sending(md)
    /\ tile >= md.header.activation

\* MasterScheduleDownlinkPhase::execute, its status and header.
MasterExecute(c, md, published, tile) ==
    CASE md.status = "APPLIED_SCHEDULE" ->
            IF NeedToSendSchedule(published)
            THEN GetScheduleAndComputeActivation(c, md, GetSchedule(published), tile)
            ELSE md
      [] Sending(md) -> PacketSent(c, md)
      [] MasterActivates(md, tile) -> [md EXCEPT !.status = "APPLIED_SCHEDULE"]
      [] OTHER -> [md EXCEPT !.status = "AWAITING_ACTIVATION"]

\* How much information fills the packet of the schedule, or makes one of its own
\* when none of the schedule is due and nothing is to be done (sendSchedulePkt,
\* sendInfoPkt).
Infos(c, md, published, tile, infos) ==
    LET capacity == GetPacketCapacity(c)
        room == CASE Sending(md) -> capacity - Len(NextElements(c, md))
                  [] md.status = "APPLIED_SCHEDULE" /\ NeedToSendSchedule(published) -> 0
                  [] MasterActivates(md, tile) -> 0
                  [] OTHER -> capacity
    IN  IF room < Len(infos) THEN room ELSE Len(infos)

\* The packet on the air, if there is one.
SchedulePacket(c, md, infos) ==
    IF Sending(md) THEN Serialize(c, md.header, NextElements(c, md) \o infos)
    ELSE Serialize(c, ScheduleHeader(0, 0, md.header.id, 0, 0, 0), infos)
-----------------------------------------------------------------------------
\* desync: the header is reset too, so that the schedule in use is not known.
NodeDistribution ==
    [status |-> "APPLIED_SCHEDULE", header |-> NoHeader, schedule |-> <<>>,
     received |-> <<>>, incomplete |-> 0]

\* isScheduleComplete; received tells for every packet whether it came.
IsScheduleComplete(d) == d.received # <<>> /\ \A i \in DOMAIN d.received : d.received[i]

\* Mutant: only a node that can receive looks at the tile.
ActivatesListening(d, tile, operates) ==
    operates /\ d.status = "SENDING_SCHEDULE" /\ tile >= d.header.activation

\* Before it receives, and in advance, a node checks for the activation tile.
Activates(d, tile, operates) ==
    d.status = "SENDING_SCHEDULE" /\ tile >= d.header.activation

\* applySchedule, or resetAndDisableSchedule.
AfterActivation(d) ==
    IF IsScheduleComplete(d) THEN [d EXCEPT !.status = "APPLIED_SCHEDULE"]
    ELSE [NodeDistribution EXCEPT !.status = "INCOMPLETE_SCHEDULE"]

PlaysAfterActivation(d, tile) ==
    IF IsScheduleComplete(d) THEN Play(d.header, d.schedule, tile) ELSE PlaysNothing

InitSchedule(d, packet) ==
    [d EXCEPT !.status = "SENDING_SCHEDULE", !.header = packet.header,
              !.schedule = packet.elements,
              !.received = [i \in 1..packet.header.total |-> i = packet.header.current + 1]]

SameSchedule(a, b) == /\ a.total = b.total /\ a.id = b.id /\ a.tiles = b.tiles
                      /\ a.activation = b.activation

\* appendToSchedule.  Elements go to the end, whichever packet came before.
AppendToSchedule(d, packet) ==
    LET i == packet.header.current + 1
    IN  IF ~SameSchedule(d.header, packet.header) THEN d
        ELSE [d EXCEPT !.header = packet.header,
                       !.schedule = IF d.received[i] THEN @ ELSE @ \o packet.elements,
                       !.received[i] = TRUE]

\* handleIncompleteSchedule
IncompleteTimeout(c, d) ==
    d.status = "INCOMPLETE_SCHEDULE" /\ d.incomplete + 1 >= 2 * c.maxNodes

NodeHearsNothing(c, d) ==
    IF d.status # "INCOMPLETE_SCHEDULE" THEN d
    ELSE [d EXCEPT !.incomplete = IF IncompleteTimeout(c, d) THEN 0 ELSE @ + 1]

\* DynamicScheduleDownlinkPhase::execute with a packet.  (A node without a
\* schedule has id 0 in its header, and no schedule that is sent has.)
NodeReceives(c, d, packet) ==
    IF ~IsSchedulePacket(packet.header) THEN NodeHearsNothing(c, d)
    ELSE IF packet.header.id # d.header.id THEN InitSchedule(d, WithoutInfo(packet))
    ELSE IF d.status = "SENDING_SCHEDULE" THEN AppendToSchedule(d, WithoutInfo(packet))
    ELSE d
=============================================================================
