--------------------------- MODULE SlotAllocation ---------------------------
(***************************************************************************)
(* ScheduleComputation::scheduleStreams, as the scheduler thread runs it   *)
(* on its snapshots: once for the established streams from an empty        *)
(* schedule, once for the accepted ones, which are added to the schedule   *)
(* of the first.  A step places one transmission.                          *)
(*                                                                         *)
(* A network is what the two runs are given: the graphs of the snapshot,   *)
(* the shape of a tile and of the control superframe, and the routed       *)
(* blocks of the streams, one for each copy of a packet.                   *)
(***************************************************************************)
EXTENDS Integers, Sequences, FiniteSets, NetworkGraph, TileCalendar

CONSTANT Networks

\* A transmission that the router hands over, and one that has its slot.
Transmissions ==
    [stream : Nat, src : Nat, dst : Nat, period : Nat \ {0}, tx : Nat, rx : Nat]
Placements ==
    [stream : Nat, src : Nat, dst : Nat, period : Nat \ {0}, tx : Nat, rx : Nat,
     offset : Nat, blk : Nat]

\* A block follows a path that meets no node twice: nothing later in it arrives
\* where something earlier left.
SimplePath(block) == \A i, j \in DOMAIN block : block[i].rx = block[j].tx => i < j

Symmetric(g) == \A e \in g : <<e[2], e[1]>> \in g

\* The graphs keep both directions of an edge, the control phases fit in a tile,
\* and the blocks are routes.
ASSUME NetworksAssumption ==
    \A n \in Networks :
        /\ Size(n) \in Nat \ {0}
        /\ n.slotsPerTile \in Nat \ {0}
        /\ n.reservedDownlink \in 0..n.slotsPerTile
        /\ n.reservedUplink \in 0..n.slotsPerTile
        /\ n.channelSpatialReuse \in BOOLEAN /\ n.useWeakTopologies \in BOOLEAN
        /\ Symmetric(n.network_graph) /\ Symmetric(n.weak_graph)
        /\ n.established \in Seq(Seq(Transmissions))
        /\ n.accepted \in Seq(Seq(Transmissions))
        /\ \A i \in DOMAIN n.established : SimplePath(n.established[i])
        /\ \A i \in DOMAIN n.accepted : SimplePath(n.accepted[i])

VARIABLES
    net,            \* the network, which no step changes
    stage,          \* "established", "accepted" or "done"
    blocks,         \* the routed blocks left
    todo,           \* the transmissions left of the current block
    blk,            \* number of the current block, for the properties
    block_size,     \* transmissions of the current block that have a slot
    last_offset,
    stream_err,
    lastSize, newSize,              \* schedule size in tiles
    current_schedule,               \* what this run adds to
    scheduled_transmissions,        \* what it has added
    linksCausingInterference

allocVars == <<stage, blocks, todo, blk, block_size, last_offset, stream_err,
               lastSize, newSize, current_schedule, scheduled_transmissions,
               linksCausingInterference>>

ControlSlots(n, tile) ==
    IF DownlinkTile(n, tile) THEN n.reservedDownlink ELSE n.reservedUplink

\* Mutant: every tile taken for the first of the superframe.
DataSlotFirstTile(n, offset) == offset % n.slotsPerTile >= ControlSlots(n, 0)

\* checkDataSlot
DataSlot(n, offset) ==
    offset % n.slotsPerTile >= ControlSlots(n, offset \div n.slotsPerTile)

PeriodSlots(n, t) == t.period * n.slotsPerTile

\* checkSlotConflict (and slotConflictPossible, which is necessary for it): the
\* slots of a transmission at offset and of one that is placed already, up to
\* the least common multiple of their periods.
SlotConflict(n, t, offset, other) ==
    LET slots == Lcm(t.period, other.period) * n.slotsPerTile
    IN  \E i, j \in 0..slots :
            /\ offset + i * PeriodSlots(n, t) < slots
            /\ other.offset + j * PeriodSlots(n, other) < slots
            /\ offset + i * PeriodSlots(n, t) = other.offset + j * PeriodSlots(n, other)

UnicityConflict(a, b) == {a.tx, a.rx} \cap {b.tx, b.rx} # {}

\* Mutant: only the new transmission's sender is checked.
InterferenceOneWay(n, a, b) ==
    LET g == IF n.useWeakTopologies THEN n.weak_graph ELSE n.network_graph
    IN  HasEdge(g, a.tx, b.rx)

InterferenceConflict(n, a, b) ==
    LET g == IF n.useWeakTopologies THEN n.weak_graph ELSE n.network_graph
    IN  HasEdge(g, a.tx, b.rx) \/ HasEdge(g, a.rx, b.tx)

\* The elements of a schedule that meet the transmission in some slot.
Meeting(n, sched, t, offset) ==
    {e \in {sched[i] : i \in DOMAIN sched} : SlotConflict(n, t, offset, e)}

AllConflicts(n, sched, t, offset) ==
    \E e \in Meeting(n, sched, t, offset) :
        \/ ~n.channelSpatialReuse
        \/ UnicityConflict(t, e)
        \/ InterferenceConflict(n, t, e)

\* Mutant: the links of the new sender only.
LinksOfSender(n, sched, t, offset) ==
    IF AllConflicts(n, sched, t, offset) THEN {}
    ELSE {OrderLink(t.tx, e.rx) : e \in Meeting(n, sched, t, offset)}

\* What checkAllConflicts adds to the links that matter: those between the
\* transmission and what shares its slot, when it finds no conflict.
LinksBetween(n, sched, t, offset) ==
    IF AllConflicts(n, sched, t, offset) THEN {}
    ELSE {OrderLink(t.tx, e.rx) : e \in Meeting(n, sched, t, offset)}
         \cup {OrderLink(t.rx, e.tx) : e \in Meeting(n, sched, t, offset)}

MaxOffset(n, t) == PeriodSlots(n, t) - 1

\* Mutant: every transmission looks from the start of the period.
CandidatesFromStart(t) == {o \in 0..(MaxOffset(net, t) - 1) : DataSlot(net, o)}

\* The offsets the loop looks at, and those where it may place t.
Candidates(t) == {o \in last_offset..(MaxOffset(net, t) - 1) : DataSlot(net, o)}
Free(t) == {o \in Candidates(t) :
                /\ ~AllConflicts(net, current_schedule, t, o)
                /\ ~AllConflicts(net, scheduled_transmissions, t, o)}

LinksTold(t, offsets) ==
    UNION {LinksBetween(net, current_schedule, t, o)
           \cup LinksBetween(net, scheduled_transmissions, t, o) : o \in offsets}

Placed(t, offset) ==
    [stream |-> t.stream, src |-> t.src, dst |-> t.dst, period |-> t.period,
     tx |-> t.tx, rx |-> t.rx, offset |-> offset, blk |-> blk]
-----------------------------------------------------------------------------
AllocInit ==
    /\ net \in Networks
    /\ stage = "established"
    /\ blocks = net.established
    /\ todo = <<>>
    /\ blk = 0 /\ block_size = 0
    /\ last_offset = 0 /\ stream_err = FALSE
    /\ lastSize = Size(net) /\ newSize = Size(net)
    /\ current_schedule = <<>> /\ scheduled_transmissions = <<>>
    /\ linksCausingInterference = {}

\* The outer loop takes the next block and remembers the size to roll back to.
NextBlock ==
    /\ stage # "done" /\ todo = <<>> /\ blocks # <<>>
    /\ todo' = Head(blocks) /\ blocks' = Tail(blocks)
    /\ blk' = blk + 1
    /\ block_size' = 0 /\ last_offset' = 0 /\ stream_err' = FALSE
    /\ lastSize' = newSize
    /\ UNCHANGED <<net, stage, newSize, current_schedule, scheduled_transmissions,
                   linksCausingInterference>>

CanGoOn(t) == HasEdge(net.network_graph, t.tx, t.rx) /\ ~stream_err

\* The first free slot is taken, and the schedule grows to a multiple of the
\* period.  The next transmission of the block starts from the slot after.
PlaceTransmission ==
    /\ todo # <<>>
    /\ LET t == Head(todo)
       IN  /\ CanGoOn(t)
           /\ \E o \in Free(t) :
                /\ \A p \in Free(t) : o <= p
                /\ scheduled_transmissions' = Append(scheduled_transmissions, Placed(t, o))
                /\ last_offset' = o + 1
                /\ linksCausingInterference' = linksCausingInterference
                        \cup LinksTold(t, {p \in Candidates(t) : p <= o})
           /\ newSize' = Lcm(newSize, t.period)
           /\ stream_err' = (last_offset' = MaxOffset(net, t))
    /\ block_size' = block_size + 1
    /\ todo' = Tail(todo)
    /\ UNCHANGED <<net, stage, blocks, blk, lastSize, current_schedule>>

\* Without a free slot the loop over offsets ends, and the block goes on.
SkipTransmission ==
    /\ todo # <<>>
    /\ LET t == Head(todo)
       IN  /\ CanGoOn(t)
           /\ Free(t) = {}
           /\ linksCausingInterference' =
                linksCausingInterference \cup LinksTold(t, Candidates(t))
           /\ stream_err' = (last_offset + 1 = MaxOffset(net, t))
    /\ last_offset' = last_offset + 1
    /\ todo' = Tail(todo)
    /\ UNCHANGED <<net, stage, blocks, blk, block_size, lastSize, newSize,
                   current_schedule, scheduled_transmissions>>

\* The error of the transmission before is seen when the next one comes, or the
\* two nodes are not connected: what the block has placed is taken back.
UndoBlock ==
    /\ todo # <<>>
    /\ ~CanGoOn(Head(todo))
    /\ scheduled_transmissions' =
        SubSeq(scheduled_transmissions, 1, Len(scheduled_transmissions) - block_size)
    /\ newSize' = lastSize
    /\ stream_err' = TRUE
    /\ todo' = <<>>
    /\ UNCHANGED <<net, stage, blocks, blk, block_size, last_offset, lastSize,
                   current_schedule, linksCausingInterference>>

\* reschedule goes on with the accepted streams, then with the new schedule.
NextStage ==
    /\ stage # "done" /\ todo = <<>> /\ blocks = <<>>
    /\ current_schedule' = current_schedule \o scheduled_transmissions
    /\ scheduled_transmissions' = <<>>
    /\ stage' = IF stage = "established" THEN "accepted" ELSE "done"
    /\ blocks' = IF stage = "established" THEN net.accepted ELSE <<>>
    /\ UNCHANGED <<net, todo, blk, block_size, last_offset, stream_err, lastSize, newSize,
                   linksCausingInterference>>

AllocNext == NextBlock \/ PlaceTransmission \/ SkipTransmission \/ UndoBlock \/ NextStage

AllocSpec == AllocInit /\ [][AllocNext]_<<net, allocVars>>
-----------------------------------------------------------------------------
Elements == {current_schedule[i] : i \in DOMAIN current_schedule}
            \cup {scheduled_transmissions[i] : i \in DOMAIN scheduled_transmissions}

\* Slot k of the schedule played for ever belongs to the element.
Uses(e, k) == k >= e.offset /\ (k - e.offset) % PeriodSlots(net, e) = 0
SlotsOf(e) == {k \in 0..(newSize * net.slotsPerTile) : Uses(e, k)}

\* Two transmissions may share a slot: four nodes, and neither receiver near
\* the other sender.
Compatible(e, f) ==
    /\ net.channelSpatialReuse
    /\ Cardinality({e.tx, e.rx, f.tx, f.rx}) = 4
    /\ LET g == IF net.useWeakTopologies THEN net.weak_graph ELSE net.network_graph
       IN  <<e.tx, f.rx>> \notin g /\ <<f.tx, e.rx>> \notin g

\* No slot of the schedule, played up to any multiple of its size, is given to
\* transmissions that disturb each other, whatever their periods are and in
\* whichever of the two runs they were placed (checkAllConflicts compares two
\* at a time, up to the multiple of two periods only).
SlotsDisjoint ==
    \A e \in Elements : \A k \in SlotsOf(e) : \A f \in Elements \ {e} :
        Uses(f, k) => Compatible(e, f)

\* The control phases of the tile that slot k falls in.
InControlPhase(k) ==
    \E tile \in 0..newSize :
        /\ tile * net.slotsPerTile <= k
        /\ k < tile * net.slotsPerTile
                + (IF DownlinkTile(net, tile) THEN net.reservedDownlink ELSE net.reservedUplink)

\* Streams whose period is a multiple of the control superframe never transmit
\* in a control slot.  For other periods checkDataSlot, which looks at the first
\* of the slots only, does not say so.
ControlSlotsFree ==
    \A e \in Elements : \A k \in SlotsOf(e) :
        e.period % Size(net) = 0 => ~InControlPhase(k)

\* A topology that loses or gains other links than these leaves the schedule
\* valid: the links that a new edge between would make two transmissions of one
\* slot disturb each other are told to the topology (scheduleChanged), which
\* asks for a new schedule when one of them appears.
InterferenceLinksTold ==
    \A e \in Elements : \A k \in SlotsOf(e) : \A f \in Elements \ {e} :
        Uses(f, k) => /\ OrderLink(e.tx, f.rx) \in linksCausingInterference
                      /\ OrderLink(e.rx, f.tx) \in linksCausingInterference

\* The transmissions of a block follow each other in the period: a relay sends
\* in a later slot than it receives in, and the packet gets to the destination
\* in the period it left in.
HopsFollow ==
    \A e, f \in Elements :
        /\ e.offset < PeriodSlots(net, e)
        /\ (e.blk = f.blk /\ e.rx = f.tx) => e.offset < f.offset

\* "If a transmission cannot be scheduled, undo the whole stream": what is left
\* of a block is all of it or nothing.
UndoneWhole ==
    (todo = <<>> /\ blk > 0) =>
        \A b \in 1..blk :
            LET all == net.established \o net.accepted
            IN  Cardinality({e \in Elements : e.blk = b}) \in {0, Len(all[b])}
-----------------------------------------------------------------------------
(***************************************************************************)
(* The inductive invariant.  Two transmissions that meet were compared     *)
(* when the second was placed, at its offset and up to the least common    *)
(* multiple of the two periods, and the slots repeat from there.           *)
(***************************************************************************)
AllocTypeOK ==
    /\ net \in Networks
    /\ stage \in {"established", "accepted", "done"}
    /\ blocks \in Seq(Seq(Transmissions))
    /\ todo \in Seq(Transmissions)
    /\ blk \in Nat /\ block_size \in Nat /\ last_offset \in Nat
    /\ stream_err \in BOOLEAN
    /\ lastSize \in Nat \ {0} /\ newSize \in Nat \ {0}
    /\ current_schedule \in Seq(Placements)
    /\ scheduled_transmissions \in Seq(Placements)

BlocksRouted ==
    /\ \A i \in DOMAIN blocks : SimplePath(blocks[i])
    /\ SimplePath(todo)

\* Every transmission has a data slot within its period.
OffsetsInPeriod ==
    \A e \in Elements :
        /\ e.offset < PeriodSlots(net, e)
        /\ DataSlot(net, e.offset)
        /\ e.tx # e.rx

MeetingCompatible ==
    \A e \in Elements : \A f \in Elements \ {e} :
        SlotConflict(net, e, e.offset, f) => Compatible(e, f)

MeetingTold ==
    \A e \in Elements : \A f \in Elements \ {e} :
        SlotConflict(net, e, e.offset, f) =>
            /\ OrderLink(e.tx, f.rx) \in linksCausingInterference
            /\ OrderLink(e.rx, f.tx) \in linksCausingInterference

\* What a block has placed lies before the place its next transmission is
\* looked for, is at the end of the list, and is not reached again by the rest.
BlockInOrder ==
    /\ \A e \in Elements : e.blk <= blk
    /\ todo # <<>> =>
        /\ block_size <= Len(scheduled_transmissions)
        /\ \A e \in Elements : e.blk = blk =>
                /\ e.offset < last_offset
                /\ \A i \in DOMAIN todo : todo[i].rx # e.tx

AllocInv ==
    /\ AllocTypeOK /\ BlocksRouted
    /\ OffsetsInPeriod
    /\ MeetingCompatible /\ MeetingTold
    /\ BlockInOrder /\ HopsFollow
=============================================================================
