# A verification development for TDMH-MAC

TDMH-MAC is a Time Deterministic Multi-Hop MAC: a master node keeps a mesh of
nodes synchronized, collects their topology and their requests for streams, and
distributes a TDMA schedule in which every stream owns its slots. This directory
holds TLA+ modules of its control logic, the TLC configurations that check them
on small instances, and TLAPS proofs for every value of the constants. Paths
below are relative to `src/network_module/` of the repository.

## The system

Time is divided in *tiles* of slots. The first slots of a tile are a control
slot, a downlink or an uplink as the *control superframe* says
(`network_configuration.h`); the rest are data slots. In a downlink the master
floods a clock synchronization, a schedule packet or information about streams;
in an uplink one node in turn speaks, forwarding topologies and stream management
elements (SMEs) towards the master. Data slots play the current schedule. After
every tile the stream manager's `periodicUpdate` runs.

| Component | State | Operations | Talks to | Hard part |
|---|---|---|---|---|
| `StreamCollection` (master, `stream/stream_collection.*`) | id → (status, parameters); the info queue; flags *modified*, *removed*, *added*, *resend* | `receiveSMEs`, `dequeueInfo`, `getOperation`, `getSnapshot`, `applyChanges` | called by the MAC thread and the scheduler thread under `coll_mutex` | the scheduler works on a snapshot while SMEs go on changing the original |
| `ScheduleComputation` (master, `scheduler/schedule_computation.*`) | the schedule, *scheduleNotApplied*, the round in progress | `run`, `reschedule`, `getSchedule`, `scheduleSentAndApplied` | `StreamCollection`, `NetworkTopology`, master downlink | flags read at different times; start over or extend; serve resend requests |
| `Router`, slot allocation (same file) | the queue of routed blocks, the schedule so far | breadth- and depth-first routes; a slot for each transmission; undoing a stream | pure | conflicts, periods, redundancy, spatial reuse |
| Schedule distribution (`downlink_phase/`) | master: status, packets to repeat, activation tile; node: the packets received, resend countdown | `execute`, `applySchedule`, `expandSchedule`, `resync`, `desync` | `ScheduleComputation`, `StreamManager`, data phase | lost packets, everybody in the same tile, rejoining |
| `StreamManager`, `Stream`, `Server` (every node, `stream/`) | maps by fd, id and port; client ports; SME queue; per endpoint a status, two timeouts, pending streams, buffers | application: `connect`, `listen`, `accept`, `close`, `read`, `write`; MAC thread: `applySchedule`, `applyInfoElements`, `periodicUpdate`, `desync`, `dequeueSMEs`, packets | everything on the node | several mutexes and condition variables, calls that release one lock and take another |
| `NetworkTopology`, `NetworkGraph` (`uplink_phase/topology/`) | graphs, link marks, *modified* flag, delayed changes | `handleTopologies`, copy to and from the scheduler, `scheduleChanged` | scheduler, uplink phase | changes during a computation, write-back of the copy |
| `NeighborTable` (same directory) | status and counter of each neighbor, predecessors | message heard, message missed, `clear` | uplink phase | hysteresis, choice of the predecessor |
| Uplink phase (`uplink_phase/`) | whose turn, queues to forward | send, receive | `NeighborTable`, `StreamManager`, `StreamCollection`, `NetworkTopology` | losses; sender and receiver work out packet contents separately |
| Time synchronization (`downlink_phase/timesync/`) | status, hop, missed timesyncs, packet counter, controller | one step per clock sync period | everything is gated on it | loss, drift and recovery |
| Data phase (`data_phase/`) | explicit schedule, slot, buffers of relays | one action per slot | buffers of the streams | a change of schedule, relays, redundancy |
| `MACContext` (`mac_context.cpp`) | the tile's kind | `run`, start and stop | all phases of its node | which phase runs in which tile |

What makes each correct: a stream is established exactly if it owns slots;
every request is decided and every drop reaches the client; slots of closed
streams come back; a schedule being sent does not change; nodes keep their maps,
ports and descriptors consistent under every interleaving; no call blocks for
ever; no two transmissions share a slot unless they cannot disturb each other; a
packet survives as many losses as it has copies less one; all nodes count the
same tiles, play the same schedule at the same tile, and get back to that after
disturbances.

The hazards found by reading the code are in `PROJECT.json`, each at its line
with the properties that watch it.

## The modules

### The master's pipeline

* `UpdatableQueue` – `util/updatable_queue.h`: a FIFO with one element per key,
  where an enqueue replaces in place.
* `StreamIds`, `StreamManagementElements` – ids of streams and servers; SMEs, their
  keys, validity and size.
* `StreamCollection` – the master's collection. One operator per method; a
  method holds `coll_mutex` throughout and so is one step. `collection` is total,
  with the status `ABSENT` for ids that are not keys of the map.
* `ScheduleComputation` – the composition of scheduler thread, collection and
  the master's downlink phase. `pc` follows `ScheduleComputation::run` and
  `reschedule`: a step per critical section, so SMEs (`Uplink`), topology changes
  and downlink tiles fall between any two. The outcome of routing and slot
  allocation is any subset of the streams, and any of them may have a single hop, for
  which `Router::run` downgrades a spatial redundancy in the schedule and not in the
  collection (`Downgraded`); the topology is its modified flag.
  `sending` is the copy in `MasterScheduleDownlinkPhase`, `applied` what the
  master executes.
* `StreamService` – the abstract specification: a request is pending until all
  pending ones are decided at once, together with a numbered plan, and the plan is
  in force before anything else is decided. `ScheduleService` maps
  `ScheduleComputation` to it (`ImplementsService`): the many steps of a round are
  one decision, made in `applyChanges`, and everything else is a stutter, a
  request, a release or the plan coming into force. The specification says
  nothing of threads, snapshots, flags and of when a resend is asked for.
* `ScheduleComputation_proofs` – the theorems, the refinement included.

### A node's streams

* `StreamManager` – one node. `endpoints` are the objects ever made, with the fd
  as index; `fdt`, `streams`, `servers` and `clientPorts` are the tables;
  `thread[t]` is where an application thread is in `connect`, `listen`, `accept`
  or `close`, and on which object. A step is what one mutex covers: `connect` is
  `Connect` (tables, `map_mutex`), `ConnectSend` (SME and first test,
  `status_mutex`), a sleep in `connectWait`, `ConnectCheck` after a signal, and
  `Unconnect` (`removeStream`). `cv.signal()` is `Notified`: it wakes one sleeper
  if there is one. `applySchedule` holds `map_mutex` from `BeginSchedule` to
  `EndSchedule`, and the other users of that mutex wait (`MapFree`), but each
  endpoint is a step of its own, since `status_mutex` is taken and released for
  each. The environment may apply any schedule whose streams are ones this node
  has asked for with a CONNECT that was sent (`announced`), or streams of other
  nodes to a server whose LISTEN was sent, late and out of date ones included, and
  deliver `SERVER_OPENED`, `SERVER_CLOSED` and `STREAM_REJECT` for such ids.

On the one-core target some interleavings of `applySchedule` need the MAC
thread, which has the highest priority, to block on a `status_mutex` that an
application thread holds; on the multi-threaded simulator build they need
nothing. Unprotected uses of a `std::map` (`Unconnect`, `Unlisten`) are taken as
atomic, so the model shows what goes wrong even when the map itself survives.

`StreamManagerSteps_proofs` (what the calls do to the tables, and what each step
leaves alone) and
`StreamManager_proofs` (the inductive invariant and the theorems) hold the proofs.

### From a topology to packets

* `NetworkGraph` – graphs as sets of edges; `RuntimeBitset` – the bit sets that
  represent them, as bytes, with the check (an assumption TLC evaluates in the
  runs of `MCDataPlane`) that their operations are those of the sets of bits.
* `Router` – class `Router`: breadth-first and depth-first search as iterations
  (functions of the number of rounds and of the depth), the blocks of a stream by
  its redundancy. `Router_proofs` has its theorems.
* `SlotAllocation` – `scheduleStreams`, one transmission per step, with the
  conflict checks, the give-up of a block and its undoing. `SlotAllocation_proofs`
  has its theorems, `Arithmetic_proofs` what they need of divisions, multiples
  and iterations.
* `ScheduleExpansion` – `expandSchedule`: what a node does in which slot, and
  which relays have a buffer. `StreamBuffers` – the buffers and redundancy
  counters of a stream.
* `DataPlane` – composes them: a network is routed, its slots are allocated, all
  nodes apply the schedule together and play it slot by slot, while applications
  read and write at any time, receptions fail and a node may be out of operation.
  `DataPlane_proofs` has its theorems.

### The control plane of a whole network

* `TileCalendar` – superframes, whose turn in an uplink, which downlink is a
  timesync, the activation tile.
* `Flopsync2`, `Timesync` – the controller in the integer arithmetic of the code
  (C divisions, fixed point), and the states of `DynamicTimesyncDownlink` with
  the error of a clock that drifts under its corrections.
* `NeighborTable`, `UplinkPhase`, `UplinkMessage`, `Packets` – who hears whom,
  whose turn it is, what is put in packets of what size and read from them.
* `NetworkTopology` – the master's graph and the question whether the schedule
  survives its changes.
* `ScheduleMessage`, `ScheduleDistribution` – schedule packets with the fields'
  widths; the state machines of master and node.
* `MACContext` – composes them. A step is the control phase of one tile on all
  nodes; between two tiles the scheduler thread takes its own steps, one per
  critical section, with the real router. Links fade and appear, receptions of
  floods and messages are lost, clocks run at different rates and change rate.
  `MACContext_proofs` has its theorems.

`MCScheduleComputation`, `MCStreamManager`, `MCDataPlane` and `MCMACContext` hold
the instances for TLC.

## Runs

| Run | Bounds | Question |
|---|---|---|
| `schedule_two` | a server, two streams, schedule ids up to 1 | do the properties of the pipeline hold with two streams that compete, one being dropped while the other is added? |
| `schedule_live` | one stream, two parameter sets, ids up to 1, fair | is the pipeline an implementation of `StreamService`? are requests decided, resends served, slots given back? Can a stream closed and reopened with other parameters keep the old slots? Also checks the inductive invariant `IInv` |
| `schedule_zero` | one stream | *violation*: schedule 0 is distributed |
| `node` | two targets, a listening port, a remote stream, two client ports, two threads, nothing new begins with two descriptors given out | are maps, ports, descriptors and SME queue consistent on a node that is client and server? |
| `node_live` | one target, two threads, fair | does `connect` return, is CLOSED repeated? |
| `node_lock`, `node_listen`, `node_mine` | the smallest instance that shows it | *violations*, below |
| `dataplane` | 20 networks of four nodes and two streams | are slots disjoint, routes right, packets in order, losses masked by redundancy? |
| `dataplane_partial` | the same | *violation*: half a stream stays scheduled |
| `network` | nine networks of three and four nodes, 170 tiles | does the network stay in step, play one schedule, understand its messages, follow its topology, and recover? |
| `network_order` | a line of three nodes, 60 tiles | *violation*: a relay without buffer |

### The bounds, and why they are enough

*Pipeline.* Its hazards involve one round in progress and the next, so two
schedule ids with closing and reopening in between reach them; `MaxScheduleId`
stops new requests once it is computed. Some of the redundancies are spatial,
so that an element may differ from the collection. Every safety property of the pipeline is
proved besides, without bounds, and so is the refinement.

*Node.* `SmeTimeoutMax = 1` and `FailTimeoutMax = 2` (600 and 1800 tiles in the
code) make an SME be repeated once before a request fails. `MaxFd` bounds the
calls that make an object: nothing new starts once that many objects exist, while
what runs completes and may exceed it. Objects of the same id and port are made
again within it, which is what stale references need. Threads are symmetric. The
node really may stop (all threads idle with nothing left within the bounds, or
the crash shown by `node_lock`), so deadlock is not checked there.

*Data plane.* Lines, a ring, a triangle with a tail and two separate pairs, with
weak links that differ from the strong ones, tiles of three to five slots,
two-tile superframes, periods from P1 to P10, every redundancy. Two streams are
the least that compete, the least that share a slot by spatial reuse, and the
least that let a second run of the allocator add to a first. `Crowded` has fewer
slots than its streams need. Each network has a budget of one or two losses,
which is what it takes to defeat double and triple redundancy, or none with two
large streams; `Slow` lets a node be out of operation for some slots. Two packets
per stream (`MaxPackets`) suffice for order and duplication. That the blocks of a
network are routes of its streams, as many as their redundancy asks for or none,
that the scheduler knows all links on which nodes disturb each other, and that a
strong link is a weak one too (`NeighborTable` sets both bits of a strong neighbor)
is `RoutesAssumption`, which TLC evaluates for the blocks the real router makes.

*Network.* `MaxTile = 170` leaves room for start-up (about 20 tiles), a
disturbance at the tiles each network lists, and `ConvergenceTiles = 90` quiet
tiles after it. Ninety is measured: with 75 a cut-off network is still coming
together, mostly because removing a silent neighbor takes its counter several
uplinks of each node. `MaxDelay = 2`: a computation may take that many tiles,
enough for topologies and requests to fall anywhere in it. `ScheduleRepetitions`
is 2 (4 in the code): one to lose and one to fill the gap. Packets are 30 to 34
bytes (125 in the code), so that a schedule of two elements needs two packets and
reports need several; in `Deep` a node's neighbors are 8 bytes, as with 64 nodes.
The nine networks are kept apart so that each fault meets the state where it
matters: losses in the start and in the distribution (`LossyStart`,
`LossySchedule`), a schedule sent twice of which a node hears only the second time
(`SentTwice`), clocks that drift by 60 and 70 µs per period and warm up by 45
(`Drifting`; beyond 150 µs, the admitted window, a node never
synchronizes), two nodes cut off and back (`CutOff`), another route
(`Reroute`), a link that spoils spatial reuse (`SharedSlots`, `WeakLinks`), and
several packets per uplink (`Deep`). Time is bounded, so deadlock is not checked.

The number of nodes must be a multiple of eight in the code
(`network_configuration.cpp:103`); the runs have three or four. What that rule is
for, bit sets without a partly used byte, is the subject of `RuntimeBitset`.

### Fairness

The scheduler thread is fair, and the MAC thread runs its downlink
phase in every downlink tile: weak fairness of their steps. On the node a thread
inside a call goes on; since it may have to wait for `map_mutex`, which the MAC
thread takes and releases, this is strong fairness, the promise of the mutex.
`MACContext::run` calls `periodicUpdate` once a tile whatever else it does, in
between the other calls: strong fairness. No fairness is assumed of messages,
schedules, the application or the environment. Recovery of the network
(`Converges`) is stated with a number of quiet tiles instead, which says more
than an eventuality and needs no fairness: a computation that takes longer than
`MaxDelay` tiles is excluded by the bound.

## What the violations show

Each states a sentence of the sources that the code does not keep
(`PROJECT.json`, findings):

* `ScheduleZeroNotSent`: a resend request before the first computation makes the
  master distribute the empty schedule 0.
* `RemovedWhileLocked`: `connect` and `listen` remove their entry without
  `map_mutex`; `applySchedule` then calls a method on a null pointer.
* `ListenReturns`: a schedule that arrives before `SERVER_OPENED` replaces the
  waiting server in the map, and `listen` never returns.
* `ServersAreMine`: `applySchedule` does not test that it is the destination of
  an unknown stream, so a client that has given a stream up reports the remote
  server closed, and the master closes it.
* `UndoneWhole`: a transmission without a free slot is skipped, and the rest of
  its block stays in the schedule, where it carries nothing; the comment says the
  whole stream is undone.
* `RelaysHaveBuffers`: elements are appended in the order packets arrive, so a
  relay that gets the first packet late has its send before its receive, no
  buffer, and silently does not relay.

The models show more that is worth knowing, none of it promised otherwise by the
sources.

*On a node.* Removing an incoming stream frees the client port that has the
number of the remote source port, even if an outgoing stream uses it. A server
closed between the test of its status and `addPendingStream` keeps a stream
nobody will accept. `close` wakes one of several threads in `accept`. No step
removes a server in `CLOSE_WAIT`, so its port cannot be listened on again.
`desync` leaves servers as they are. A stream the node opened and forgot may be
handed to its own server on the same port number.

*In the schedule.* With a period that is not a multiple of the superframe (P1,
P5 on two tiles) `checkDataSlot` sees only the first of the periodic slots, and a
later one may fall in a control phase; `ControlSlotsFree` is said of the other
periods. Source and destination count the slots of a period each on its own: when
such a slot is passed over, or when the first or the last hop of a copy found no
slot, they are no longer at the same period, and a packet may be read twice
(`Often`, `Thrice`). `ReadInOrder` and `LossesMasked` are said of the other streams
(`Intact`). Two copies of a packet that interleave at a relay share its buffer, so
one loss takes both. A relay that was out of operation sends what it held before.
`dfsRun` lowers its limit per neighbor, not per hop, and misses longer disjoint
paths from five nodes on.

*In distribution.* A node that misses all packets of a schedule keeps the old
one: the id in the headers of later info packets is not compared, and nobody is
told. `DataPhase::desync` is empty, while the comment at
`dynamic_schedule_distribution.cpp:161` leaves stopping the data phase to it; what
a resynchronized node does is reset in `resync`. A RESEND that arrives between
`getOperation` and `getSnapshot` is cleared by the latter, and served by the new
schedule. `appendToSchedule` of a packet of another schedule is ignored.

*In the uplink.* SMEs and topologies leave their queues before the message that
carries them is known to arrive; what is lost is repeated by timeouts. A sender
may announce a last packet in which nothing fits, which the receiver does not
expect. `UplinkHeader::getHop` returns a `bool` (`uplink_message.h:48`).
`Packet::checkPanHeader` tests the size of the array, which is constant, not of
the packet (`packet.cpp:132`). A link that is heard in one direction only, or
stronger in one, comes and goes in the master's graph. After a
resynchronization two nodes may for a while be each other's predecessor.
`NeighborTable::clear` resets copies of its neighbors (`neighbor_table.h:121`), so
old counters survive a resync.

*In the topology.* `writeBackNetworkGraph` overwrites what arrived since the copy
was taken; only links of the schedule are checked again. `removeUnreachableNodes`
does not tell the topology of the links it removes: a schedule that is extended
may keep a transmission between nodes that were found cut off, until all streams
are routed anew. `cutOff` remembers these links, the exception in `ScheduleFits`.

*In time.* `macCanOperate` tests the last error measured, which is old while
timesyncs are missed; that a node nonetheless stays within the window is
`OperatesInTime`, within the drifts of the run. The receiver window the
controller computes is stored, offered (`timesync_downlink.h:83`) and printed, never
used: the wake-up always takes the admitted one. The check that a
superframe is minimal (`network_configuration.cpp:45`) returns before it
can find anything.

## Proofs

Every theorem holds for all values of the constants that the named assumptions
admit; TLC evaluates the assumptions, and checked each inductive invariant on the
instances of the runs before it was proved.

### The master's pipeline

`ScheduleComputation_proofs`, for any finite set of ids closed under
`GetServerId` (`IdsAssumption`), any parameters (`ParamsAssumption`) and any
`MaxScheduleId` (`BoundAssumption`):

* `TypeCorrect`: the type invariant.
* `Inductive`: `IInv`, and from it every safety property of `schedule_two`
  (`EstablishedTheorem`, `NoLeakTheorem`, `AcceptedTheorem`, `NoDoubleTheorem`,
  `RescheduleTheorem`, `DistributionTheorem`, `AnnouncementsTheorem`) and its two
  action properties (`HeldTheorem`, `DropTheorem`). `EstablishedTheorem` says of an
  element's parameters that they are those of the collection, up to the downgraded
  redundancy of a single hop, or that the next round starts over (`Carried`,
  `RemovalPending`). `DropTheorem` says that only a stream's own CLOSED erases it outside
  `applyChanges`, and no other stream with it, and that there its rejection is
  queued or the schedule about to be published is without it.
* `Refinement`: the pipeline implements `StreamService` (`ImplementsService`).

The properties are not inductive, because the scheduler works on copies. `IInv`
adds what a copy still tells: since the snapshot no stream was established, and
every stream closed since has left the *removed* flag up (`SnapshotStillTells`);
the last schedule is extended only if all its streams are still in the snapshot
with their parameters, and the new one serves streams of the snapshot only
(`SchedulesFitSnapshot`); the flags account for every change (`FlagsAgree`);
announcements are queued under ids of their kind (`KindsKept`); nothing is
computed while a schedule is distributed (`OneAtATime`). The proof has lemmas on
the queue (which elements an enqueue or a dequeue leaves), one lemma per
critical section, and frame lemmas that say which part of `IInv` reads which
state, so that each step's proof meets only the parts it can disturb. The
refinement is by cases of `Next` under `IInv` and `ServiceInv`, the link between
what the service shows as pending and the snapshot of the round in progress:
`applyChanges` is the decision, the activation is the plan coming into force, the
rest are stutters or the requests and releases of an SME.

### A node's streams

`StreamManager_proofs`, for any targets, ports, remote streams, threads and
limits (`NodeAssumption`, `BoundsAssumption`): `Inductive` proves the `IInv` of
`StreamManager`, and from it follow `TypeCorrect`, `TablesSound`, `PortsSound`,
`DescriptorsSound`, `OneHand` and `LastWord`: all the invariants of `node`.

An application thread keeps an fd while others change the tables, so `IInv` says
for every place where a call can be interrupted what its object still is:
`ConnectSound` (the stream is still in the map and in a status connect knows),
`ListenSound` (the port is still taken; by its server, or by one that a schedule
put in its place and that is in `CLOSE_WAIT`; no other listen has it),
`AcceptSound`, `CloseSound` (one close has an object, and between its two critical
sections the stream stays in the map) – together `ThreadsSound`. `HandlesSound`
says it of what the application holds, `ArrivalSound` of the stream that
`applySchedule` is about to make pending, `EndpointsSound` of the lists of pending
streams; `OneHolder` is `HandedOnce` said of two holders instead of a number;
`QueueSound` says that SMEs are queued under their own keys. `LastWordIsConnect`
has an exception, which is the code's: a schedule that carries a stream which this
node gave up, to a server of its own, makes it an incoming one
(`stream_manager.cpp:330`), and closing that server queues a CLOSED over a CONNECT
of the same id.

The `Steps` module has what the operations on maps, descriptors and ports
preserve and the frames (a call's step disturbs no other call but through the
objects' statuses), the main module one lemma per action and conjunct.

### From a topology to slots

`Router_proofs`, for any graph and any streams between its nodes:

* `RoutesFollowLinks`: every block `Run` makes of a stream goes along links of the
  graph from source to destination, meets no node twice if no node is its own
  neighbor, and belongs to one of the streams that were to be routed. The argument for
  the breadth-first search is an invariant of its rounds: the path to every node
  that entered the open set is a route, all of whose other nodes are visited, so
  a node that enters extends a route it is not on. For the depth-first search it
  is an induction on the depth: each path in the result extends the path the
  search has come along. `SecondaryRoute` covers the choice of a secondary path and
  the downgrading to a copy of the primary one.

Since an operator's argument cannot be instantiated by the provers, the
iterations are brought to one lemma of `Arithmetic_proofs` (`IterationExists`,
`IterationStays`: a function defined by iterating a step that maps a set to itself
exists and stays in the set), by induction through the least counterexample
(`LeastNumber`).

`SlotAllocation_proofs`, for any networks that satisfy `NetworksAssumption` (the
control phases fit in a tile, the graphs keep both directions of an edge, blocks
meet no node twice, which is what the router's theorem gives), about `AllocSpec`:

* `AllocInductive`: `AllocInv`.
* `SlotsDisjointTheorem`: in the schedule played for ever no slot has two
  transmissions that disturb each other.
* `LinksToldTheorem`, `HopsFollowTheorem`, `ControlSlotsTheorem`.

The allocator compares a candidate slot with what is placed only up to the least
common multiple of two periods, once, when the second is placed. The invariant
keeps the outcome (`MeetingCompatible`, `MeetingTold`: transmissions that meet by
`SlotConflict` are compatible, and told), and the theorems need the arithmetic
that two periodic sequences of slots with a slot in common have one below the
multiple of their periods (`MeetBelowMultiple`). `BlockInOrder` is what undoing a block and skipping a transmission
need. `DataPlane` takes its scheduling steps from these actions, and its other
steps leave the allocator's variables alone.

`DataPlane_proofs` makes that a theorem (`SchedulePlayed`: the data plane is an
allocation of slots, with more to it; `PromisesKept`), and goes on from the slots
to the packets, for any networks of `NetworksAssumption` and `RoutesAssumption`,
any number of streams, packets, losses and outages:

* `InOrder`: readers get packets in the order they were written, and none twice.
* `PlayInductive`: the inductive `PlayInv` it follows from.
* `Masked`: a packet of which fewer receptions fail than it has copies is what the
  reader gets at the end of the period, while no node is out of operation and no
  relay holds two copies in turn (`Separate`).
* `LossInductive`: the inductive `LossInv` it follows from.

The argument has five parts. (1) `BlocksInv` and `SizeInv` are added to the
allocator's invariant: a transmission is a hop of its block, a block has one
transmission for each node that sends, the schedule is a multiple of every period.
So a complete stream has as many first and last hops in a period as its redundancy
counts (`FirstHopsCounted`, by a bijection from blocks), a hop that is not a first
one has an earlier one before it (`HopBefore`), and a hop uses the current slot if
and only if its offset is the slot's phase in the period (`HopPhase`).
(2) The expanded schedule: in a slot of a hop its two nodes do what the hop says,
and what the receiver hears is what the hop's sender sends or nothing
(`EntryOf`, `HeardBy`), because any other sender it could hear is `Compatible`.
(3) `CountersAgree`: the counters of both ends are the hops that have passed in
the period, so the source takes a packet exactly when none has, and the destination
hands over exactly when all have. (4) `OnePacket`: what relays that have been
reached and the destination hold is the packet of this period or nothing; hence
`Ordered`, which says that what is ready, on its way, handed over and read is
in the order of writing, is kept by every step, whenever the applications write
and read. A relay that stops for a while breaks (4), and a stream without all its
hops in data slots breaks (3): the two hypotheses of `ReadInOrder`.
(5) What a loss costs. Counting failed receptions is not enough: one may take a
copy at its first hop or at its last, and relays of several copies may be hit in
one slot. So `LossInv`, checked by TLC before it was proved, says at every slot of
the period that the copies that are not where they should be (`LostCopies`: a relay
reached and still to send has no packet, or the destination reached has none) are at
most the receptions of the stream that failed. A slot adds to both sides: the copies
newly lost map one to one to receivers that failed (`HitCounted`), because a hop
whose reception succeeds is heard (`CopyHeard`, its strong link being a weak one
as well and every other sender out of hearing), a relay sends the hop it
holds the packet for (`RelayWaits`: elements stand in the list in the order of the
hops of their block, `LinkedInv`), and under `Separate` nothing else fills or
empties its buffer. At the end of the period fewer than all copies are lost, so one
is at the destination.

### The control plane

`MACContext_proofs`, for any losses, clock rates and changes of links, any
networks of `ConfigurationAssumption` (the fields of `NetworkConfiguration` with
their widths, a valid superframe, node 0 among the nodes, streams between nodes,
room in a packet for an element of a schedule and in the first packet of an uplink for the
neighbors of its sender), any number of repetitions (`RepetitionsAssumption`) and
any bounds (`BoundsAssumption`):

* `InStepTheorem`: nodes that have the time agree with the master on the number of
  timesyncs and on whose uplink is next. The inductive `TimeInv` compares the
  master with the calendar: its counter is the number of timesyncs so far, its
  next node what `AlignToNetworkTime` computes from the tile. Then a node that comes
  back, and computes, is in step with one that has counted. The arithmetic is that
  the uplink tiles before a tile, counted by rounds and superframes, grow by one in
  uplink tiles only.
* `NothingStaleTheorem`: a node that has the time plays nothing, the last schedule
  it got a packet of, or waits for the tile at which the master starts that one.
  `ScheduleInv` says by status what a node has and plays; the proof needs
  that a header survives the packet (`PacketHeader`), hence that what is sent is
  a sequence of transmissions (`DistributionTypes`, from the router's theorem) and
  that no information packet is taken for a piece of a schedule. The
  exception in the statement is necessary: a node that misses the whole first
  distribution and hears of the schedule when it is sent again goes on with the old
  one until then, which `SentTwice` shows.
* `ScheduleFitsTheorem`: when the scheduler rests and the topology asks for nothing,
  the schedule has only links that are there and leaves out those that would
  disturb it. While the scheduler computes, graph and copy differ: `TopologyInv`
  says that each link that has gone since is noted in `removed`, each that has come
  in `added`, and that a schedule which is extended still fits the copy.
  `scheduleApplied` looks at these notes only, not at the graphs; that this is enough
  is the theorem. The lemmas follow one report through the strong and the weak
  graph (a link that is reported twice, or removed and added in turn).
* `TypeOKTheorem`: the counters of timesyncs, hops, turns and tiles, and the
  queues and tables of the uplink, for all nodes (`NumbersInv`, and in the proofs
  `SyncsInv`, `UplinksInv`, `QueuesInv`). That a received packet is less than its
  total needs the master's cut of the schedule, and that the tile played is one of
  the schedule needs that schedules are not empty of tiles. The loop that looks for
  the tile of activation ends, because a superframe has a downlink and the downlinks
  that are timesyncs are as many as `clockSyncPeriod` says.
* `PlayedTogetherTheorem`: nodes that play a schedule of the same id play the same
  transmissions at the same tile. `TogetherInv` has four parts: an id names one schedule
  (`IdsInv`); the master cuts it in pieces in order and goes back to the first one
  for each repetition (`SendingInv`); what a node has is the pieces that it has ticked
  off, whichever they are (`ReceivingInv`, by counting both), hence all of it when none is
  missing; and who plays it is at the tile that the activation of the master
  tells (`PlayOfMaster`), also when the master has sent it again with a later one,
  because `AlignedActivation` moves it by multiples of its length. A node that
  got the schedule the second time starts at that later tile, and is in step. Two things
  could spoil it. Packets could be confused: `ApartInv`, no node sends to itself, is what
  distinguishes a transmission from information about streams in the same packet. And the total could
  be cut: the header has two bytes for it, so the theorem is about behaviors in
  which the number of packets fits (`HeaderFits`), which the code takes for granted.
* `ActivatedOnTimeTheorem`: master and nodes start a schedule in the tile that its
  header names, which begins a superframe. The argument is a count
  (`OnTimeInv`): before the tile of activation there are at least as many downlinks
  that are no timesyncs (`PacketDownlinks`) as packets that the master has still to send
  (`PacketsLeft`), and a downlink takes one from both. That it is so when the header is
  made is an invariant of the loop of `getActivationTile`, which looks at whole superframes
  and at the timesyncs among them, the timesync of the first superframe apart. Aligning the
  activation to the length of the last schedule only moves it on; if it met a timesync
  again after stepping over one, then so did the activation of the last schedule, and that
  one was none: hence the invariant also says that lengths are whole superframes and that
  no activation is a timesync (`Starts`). The theorem is about behaviors in which the
  number of packets, the length of the schedule and the repetitions fit the header's fields of
  two bytes and of one (`HeaderFits`, `TimesFit`), and in which a superframe without a timesync
  exists: with one superframe for each timesync every candidate begins with a
  timesync, and the code, whose master does not look at the activation in one, would
  start late.

Each of these invariants was a run of TLC on the nine networks before it was proved.
Two statements changed on the way. `ScheduleFits` was false without `cutOff`, which
TLC had not shown: no network of the run cuts off both ends of a link in use while the
schedule is extended. And `ConfigurationAssumption` had left out what a
`NetworkConfiguration` admits by its types alone; the code asserts neither that
the first packet has room for the neighbors nor that a packet has room for an element.

### Only model-checked

Liveness (`RequestsDecided` and the other temporal properties of `schedule_live`
and `node_live`, fairness being out of TLAPS's reach), and what a network reaches
after the last disturbance (`Converges`, liveness with a bound of tiles). Of the data
plane: `RoutesRight` beyond the theorem above (that the primary path is shortest, the
copies as many as asked for, the secondary path apart if it can be). Of the network:
`OperatesInTime` (the controller's arithmetic) and `MessagesUnderstood` (the bytes of
an uplink message).

## What the models leave out

* `StreamManager` has the interleavings of a node, `DataPlane` the data slots,
  `MACContext` the control phases, `ScheduleComputation` the critical sections of
  the master with every outcome of routing. No module has all of them: requests
  in `MACContext` are made at the master at given tiles, repeated when refused,
  and information about streams travels but is not acted on by nodes; rounds of
  the scheduler that change nothing are left out, and every transmission finds a
  slot. A stream's life seen by client, server and master together is therefore
  not checked; the hazards that need it say so.
* In `MACContext` the master's data and the nodes' are advanced a tile at a time;
  the packets of streams are in `DataPlane`, where no schedule follows another.
* A node that loses a flood does not take part in that flood. The strength of a
  link does not change while it lasts, so its filtered average is that of the last
  message. A node without synchronization listens, and its phases are not stepped.
* Times are nanoseconds of the controller's arithmetic; receive jitter and the
  rounding of the factor 1.7 are left out. Numbers of 32 bits do not wrap.
* Threads that are inside `read` or `write` when their stream is closed.

## Not modelled

* Round-trip measurement: no phase starts it in this commit. `Flopsync1`: no node
  is built with it.
* Radio, slot timing, sleeping, threads' stacks, serialization of stream
  parameters, statistics, printing.
* The wrappers of `tdmh.h`, the simulator and its tests, the operating system and
  `main.cpp`: they call the network module and hold no logic of the protocol.

## Plan

1. Done: the pipeline with its proofs; the node; routing, slots and data plane;
   the control plane; the pipeline as an implementation of `StreamService`.
2. Done: the theorems above. Left: `MessagesUnderstood`, by counting bytes.
3. Were a larger instance affordable: the requests of `StreamManager` inside
   `MACContext`, with an abstract specification of a stream's life.
