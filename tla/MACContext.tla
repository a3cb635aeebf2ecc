----------------------------- MODULE MACContext -----------------------------
(***************************************************************************)
(* The control plane of a whole network: MACContext::run on every node.    *)
(* Time goes by in tiles, and a step is the control phase of one tile on   *)
(* all nodes together: a timesync, a downlink or an uplink.  Between two   *)
(* of them the scheduler thread of the master may take its own steps.      *)
(*                                                                         *)
(* Each node has its own idea of the time (sync), of the turns and of its  *)
(* neighbors (uplink), of the schedule (dist, data).  The radio may lose   *)
(* packets, links may vanish and come back, and the clock of each node     *)
(* runs at a rate of its own, which may change.                            *)
(*                                                                         *)
(* Streams are what the scheduler is asked to route: they are asked for at *)
(* given tiles and, when refused, at the next of them.  How requests come  *)
(* to the master is the subject of StreamManager, what the scheduler does  *)
(* with them of ScheduleComputation, and slots that of SlotAllocation.     *)
(***************************************************************************)
EXTENDS Router, Timesync, UplinkPhase, ScheduleDistribution, ScheduleExpansion, NetworkTopology

CONSTANTS
    Networks,   \* the networks, configurations and fault budgets in play
    MaxTile,    \* bound on time
    MaxDelay    \* bound on the tiles that pass during a scheduling

VARIABLES
    net,        \* the network
    tile,       \* the tile about to begin
    sync,       \* sync[n]: clock synchronization of node n
    uplink,     \* uplink[n]: uplink phase
    md,         \* schedule distribution of the master
    dist,       \* dist[n]: schedule distribution of node n # 0
    data,       \* data[n]: the schedule that the data phase plays
    smes,       \* smes[n]: SMEs in the stream manager
    topo,       \* the topology the master knows
    coll,       \* the streams asked for, flags and infoQueue of the collection
    published,  \* schedule of the scheduler, and scheduleNotApplied
    sch,        \* scheduler thread: pc and its snapshots
    cutOff,     \* links left out as cut off since all streams were routed anew
    age,        \* tiles since the scheduler has work to do
    fade,       \* "before", "during" or "after" the change of the links
    warm,       \* the nodes whose clocks run at another rate than at first
    losses, drifts,     \* receptions lost and changes of rate so far
    heard,      \* heard[n]: schedule of the last schedule packet n got
    quiet       \* tiles since the last disturbance

nodeVars == <<sync, uplink, dist, data, smes, heard>>
schedVars == <<topo, coll, published, sch, cutOff>>
faultVars == <<fade, warm, losses, drifts>>
vars == <<net, tile, nodeVars, md, schedVars, age, faultVars, quiet>>

Nodes == net.nodes
Dynamic == Nodes \ {0}

\* The strength at which a node hears another: some links are gone while the
\* others fade in, and back again.
Both(links) == links \cup {<<l[2], l[1]>> : l \in links}
StrongLinks == Both(IF fade = "during" THEN (net.strong \ net.fading) \cup net.appearing
                    ELSE net.strong)
Audible == [e \in Nodes \X Nodes |->
    CASE e \in StrongLinks -> net.minNeighborRSSI + 1
      [] e \notin StrongLinks /\ e \in Both(net.weak) -> net.minWeakNeighborRSSI
      [] OTHER -> 0]

\* getCurrentTile, as the node counts.
NodeTile(n) == sync[n].counter * TilesPerTimesync(net) + (tile % TilesPerTimesync(net))

Operates(n) == MacCanOperate(net, sync[n])

\* How late the next timesync comes to a node.
Offset(n) == NextOffset(sync[n], net.skew[n] + (IF n \in warm THEN net.warming ELSE 0))

WorkToDo == ~NeedToSendSchedule(published) /\ (WasModified(topo) \/ coll.modified \/ coll.resend)
Busy == sch.pc # "waiting" \/ WorkToDo
TimePasses ==
    /\ tile < MaxTile
    /\ Busy => age < MaxDelay
    /\ tile \in net.connect => coll.asked = tile
    /\ tile' = tile + 1
    /\ age' = IF Busy THEN age + 1 ELSE 0

Spend(lost) ==
    /\ losses' = losses + lost
    /\ lost > 0 => losses' <= net.maxLosses /\ tile \in net.lossTiles
    /\ quiet' = IF lost > 0 THEN 0 ELSE quiet + 1
    /\ UNCHANGED <<fade, warm, drifts>>
-----------------------------------------------------------------------------
Init ==
    /\ net \in Networks
    /\ tile = 0
    /\ sync = [n \in Nodes |-> IF n = 0 THEN MasterSync ELSE Desynchronized]
    /\ uplink = [n \in Nodes |-> EmptyUplink(net, 0)]
    /\ md = MasterDistribution
    /\ dist = [n \in Dynamic |-> NodeDistribution]
    /\ data = [n \in Nodes |-> PlaysNothing]
    /\ smes = [n \in Nodes |-> EmptyQueue]
    /\ topo = EmptyTopology
    /\ coll = [accepted |-> {}, established |-> {}, modified |-> FALSE, added |-> FALSE,
               resend |-> FALSE, asked |-> 0, infos |-> EmptyQueue]
    /\ published = [schedule |-> <<>>, id |-> 0, tiles |-> Size(net), links |-> {},
                    notApplied |-> FALSE]
    /\ sch = [pc |-> "waiting"]
    /\ cutOff = {}
    /\ age = 0
    /\ fade = "before" /\ warm = {} /\ losses = 0 /\ drifts = 0
    /\ heard = [n \in Nodes |-> 0]
    /\ quiet = 0

\* DynamicTimesyncDownlink::execute on all nodes, with the nodes that lose the
\* timesync.  A node that gives up
\* forgets its schedule and its SMEs (desyncMAC), one that hears the time again
\* starts its uplink and data phases anew (resyncMAC); between the two its phases
\* do nothing that lasts.
TimesyncCounter == tile \div TilesPerTimesync(net)
TimesyncWave(deaf) ==
    LET listening == {n \in Dynamic \ deaf : Synchronized(sync[n]) => InWindow(net, Offset(n))}
    IN  TimesyncFlood(net, sync, listening, Audible, TimesyncCounter)
GetsTimesync(wave, n) == \E h \in 1..net.maxHops : n \in wave[h]
HopIn(wave, n) == CHOOSE h \in 1..net.maxHops : n \in wave[h]
Resyncs(wave, n) == n # 0 /\ ~Synchronized(sync[n]) /\ GetsTimesync(wave, n)
AfterTimesync(wave, n) ==
    CASE n = 0 -> NextTimesync(sync[0])
      [] Resyncs(wave, n) -> ResyncTime(SyncPacket(HopIn(wave, n) - 1, TimesyncCounter))
      [] n # 0 /\ Synchronized(sync[n]) /\ GetsTimesync(wave, n) -> PeriodicSync(sync[n], Offset(n))
      [] n # 0 /\ Synchronized(sync[n]) /\ ~GetsTimesync(wave, n) -> MissedPacket(net, sync[n], Offset(n))
      [] OTHER -> sync[n]

TimesyncStep(deaf) ==
    LET wave == TimesyncWave(deaf)
        GivesUp(n) == n # 0 /\ Synchronized(sync[n]) /\ ~Synchronized(AfterTimesync(wave, n))
    IN  /\ Spend(Cardinality(deaf))
        /\ sync' = [n \in Nodes |-> AfterTimesync(wave, n)]
        /\ uplink' = [n \in Nodes |->
                        IF Resyncs(wave, n)
                        THEN Resync(net, uplink[n], HopIn(wave, n), TimesyncCounter * TilesPerTimesync(net))
                        ELSE uplink[n]]
        /\ data' = [n \in Nodes |-> IF Resyncs(wave, n) THEN PlaysNothing ELSE Advanced(data[n], 1)]
        /\ dist' = [n \in Dynamic |-> IF GivesUp(n) THEN NodeDistribution ELSE dist[n]]
        /\ smes' = [n \in Nodes |-> IF GivesUp(n) THEN EmptyQueue ELSE smes[n]]
        /\ heard' = [n \in Nodes |-> IF GivesUp(n) THEN 0 ELSE heard[n]]

TimesyncPhase ==
    /\ TimesyncTile(net, tile)
    /\ TimePasses
    /\ \E deaf \in SUBSET Dynamic : TimesyncStep(deaf)
    /\ UNCHANGED <<net, md, schedVars>>
-----------------------------------------------------------------------------
\* recvPkt: a slot of a flood.  Those that received in the slot before send, the
\* others receive what one or more of them send, which is the same packet.
FloodSlot(listening, s) ==
    LET receive == {n \in listening \ s.sending : \E m \in s.sending : Audible[<<m, n>>] > 0}
    IN  [sending |-> receive, got |-> s.got \cup receive]

\* sendPkt: the master sends first, and again when it hears the others.
Flood(listening) ==
    LET after[h \in 0..net.maxHops] ==
            IF h = 0 THEN [sending |-> {0}, got |-> {}]
            ELSE FloodSlot(listening \cup {0}, after[h - 1])
    IN  after[net.maxHops].got \cap listening

Activating(n) == Activates(dist[n], NodeTile(n), Operates(n))
Listening == {n \in Dynamic : Operates(n) /\ ~Activating(n)}

\* The information that leaves the collection in this downlink (dequeueInfo).
InfosNow ==
    LET vals == OldestVals(coll.infos, Infos(net, md, published, NodeTile(0), coll.infos))
    IN  [i \in DOMAIN vals |-> InfoElement(vals[i].id, vals[i].type)]
OnAir == Sending(md) \/ InfosNow # <<>>

\* The schedule downlink of all nodes; got are those that a packet gets to.
DownlinkStep(packet, got) ==
    LET activates == MasterActivates(md, NodeTile(0))
        Dist(n) == CASE Activating(n) -> AfterActivation(dist[n])
                     [] n \in got -> NodeReceives(net, dist[n], packet)
                     [] n \in Listening \ got -> NodeHearsNothing(net, dist[n])
                     [] OTHER -> dist[n]
        Plays(n) == CASE n = 0 /\ activates -> Play(md.header, md.schedule, NodeTile(0))
                      [] n # 0 /\ Activating(n) -> PlaysAfterActivation(dist[n], NodeTile(n))
                      [] OTHER -> data[n]
        GetsSchedule(n) == n \in got /\ IsSchedulePacket(packet.header)
        AsksAgain(n) == \/ Activating(n) /\ ~IsScheduleComplete(dist[n])
                        \/ n \in Listening /\ ~GetsSchedule(n) /\ IncompleteTimeout(net, dist[n])
    IN  /\ md' = MasterExecute(net, md, published, NodeTile(0))
        /\ published' = IF activates THEN ScheduleSentAndApplied(published) ELSE published
        /\ dist' = [n \in Dynamic |-> Dist(n)]
        /\ data' = [n \in Nodes |-> Advanced(Plays(n), 1)]
        /\ smes' = [n \in Nodes |-> IF n # 0 /\ AsksAgain(n) THEN Enqueue(smes[n], GetKey(MakeResendSME(n)), MakeResendSME(n))
                                    ELSE smes[n]]
        /\ heard' = [n \in Nodes |-> IF GetsSchedule(n) THEN packet.header.id ELSE heard[n]]

DownlinkPhase ==
    /\ DownlinkTile(net, tile) /\ ~TimesyncTile(net, tile)
    /\ TimePasses
    /\ LET pkt == SchedulePacket(net, md, InfosNow)
           reached == IF OnAir /\ CheckPanHeader(pkt, net.panId) THEN Flood(Listening) ELSE {}
       IN  \E deaf \in SUBSET reached :
            /\ DownlinkStep(Deserialize(pkt), Flood(Listening \ deaf) \cap reached)
            /\ Spend(Cardinality(deaf))
    /\ coll' = [coll EXCEPT !.infos = DequeueMany(@, Len(InfosNow))]
    /\ UNCHANGED <<net, sync, uplink, topo, sch, cutOff>>
-----------------------------------------------------------------------------
\* Before it sends, a node that has a predecessor takes the SMEs of its stream
\* manager (dequeueSMEs).
TakesSMEs(n) == n # 0 /\ ~SendsAlone(uplink[n], n)
Ready(n) ==
    IF TakesSMEs(n)
    THEN [uplink[n] EXCEPT !.smeQueue = EnqueueAll(@, [i \in DOMAIN smes[n] |-> [key |-> GetKey(smes[n][i].val), val |-> smes[n][i].val]])]
    ELSE uplink[n]

Speakers == {n \in Nodes : Operates(n) /\ MyTurn(uplink[n], n)}
SpeakersTo(n) == {m \in Speakers : Audible[<<m, n>>] > 0}
Hearers == {n \in Nodes \ Speakers : Operates(n) /\ Cardinality(SpeakersTo(n)) = 1}

\* The uplink phase of all nodes, with those that do not hear the message and the
\* number of packets the assignee gets at most: it gives up at the first lost.
SpeakerTo(n) == CHOOSE m \in SpeakersTo(n) : TRUE
Received(messages, packets, n) ==
    LET message == messages[SpeakerTo(n)]
    IN  PacketsOf(SubSeq(message, 1, Min({packets, Len(message)})))
PhaseAfter(messages, deaf, packets, n) ==
    CASE ~Synchronized(sync[n]) -> uplink[n]
      [] Synchronized(sync[n]) /\ ~Operates(n) -> Advance(net, uplink[n])
      [] n \in Speakers -> AfterMyUplink(net, Ready(n), n, messages[n])
      [] n \in Hearers \ deaf ->
            ReceiveUplink(net, uplink[n], n, Received(messages, packets, n), Audible[<<SpeakerTo(n), n>>])
      [] OTHER -> MissUplink(net, uplink[n], n)

\* The master hands what it has received to the topology and the collection.
MasterTakes(now) ==
    /\ uplink' = [now EXCEPT ![0].topologyQueue = EmptyQueue, ![0].smeQueue = EmptyQueue]
    /\ topo' = HandleTopologies(net, topo, now[0].topologyQueue)
    /\ coll' = [coll EXCEPT !.resend = @ \/ \E sme \in QueuedVals(now[0].smeQueue) : sme.type = "RESEND_SCHEDULE"]

UplinkStep(messages, deaf, packets) ==
    /\ Spend(Cardinality(deaf)
                + Cardinality({i \in UNION {DOMAIN messages[n] : n \in Speakers} : i > packets}))
    /\ MasterTakes([n \in Nodes |-> PhaseAfter(messages, deaf, packets, n)])
    /\ smes' = [n \in Nodes |-> IF n \in Speakers /\ TakesSMEs(n) THEN EmptyQueue ELSE smes[n]]
    /\ data' = [n \in Nodes |-> Advanced(data[n], 1)]

UplinkPhaseStep ==
    /\ ~DownlinkTile(net, tile)
    /\ TimePasses
    /\ \E messages \in {[n \in Speakers |-> MyMessage(net, Ready(n), n)]},
          deaf \in SUBSET Hearers, packets \in 1..net.uplinkPackets :
            UplinkStep(messages, deaf, packets)
    /\ UNCHANGED <<net, sync, dist, heard, md, published, sch, cutOff>>
-----------------------------------------------------------------------------
(* The scheduler thread.  A round that finds nothing to do changes nothing  *)
(* and is left out.                                                        *)

Thread(pc) == sch.pc = pc
SchedOnly == UNCHANGED <<net, tile, nodeVars, md, faultVars, quiet>>

\* run: the flags are looked at.  The request to resend is taken in any case.
SchedWake ==
    /\ Thread("waiting") /\ WorkToDo
    /\ LET reschedule == WasModified(topo) \/ coll.modified
       IN  /\ sch' = [pc |-> IF reschedule THEN "snapshot" ELSE "waiting", resend |-> coll.resend]
           /\ published' = [published EXCEPT !.notApplied = ~reschedule]
    /\ coll' = [coll EXCEPT !.resend = FALSE]
    /\ SchedOnly /\ UNCHANGED <<topo, age, cutOff>>

\* reschedule: the snapshot of the collection clears all its flags.
SchedSnapshot ==
    /\ Thread("snapshot")
    /\ sch' = [pc |-> "graph", resend |-> sch.resend,
               accepted |-> coll.accepted, established |-> coll.established, added |-> coll.added]
    /\ coll' = [coll EXCEPT !.modified = FALSE, !.added = FALSE, !.resend = FALSE]
    /\ SchedOnly /\ UNCHANGED <<topo, published, age, cutOff>>

\* The snapshot of the topology, and in it the removal of what is cut off.
SchedGraph ==
    /\ Thread("graph")
    /\ LET connected == IF topo.maybeCut THEN RemoveUnreachableNodes(topo.graph) ELSE topo.graph
       IN  /\ sch' = [pc |-> IF connected # topo.graph THEN "writeback" ELSE "compute",
                       resend |-> sch.resend, accepted |-> sch.accepted,
                       established |-> sch.established, added |-> sch.added,
                       graph |-> connected, weakGraph |-> topo.weakGraph, graphChanged |-> topo.modified]
           /\ cutOff' = cutOff \cup (topo.graph \ connected)
    /\ topo' = UpdateSchedulerNetworkGraph(topo)
    /\ SchedOnly /\ UNCHANGED <<coll, published, age>>

SchedWriteBack ==
    /\ Thread("writeback")
    /\ topo' = WriteBackNetworkGraph(topo, sch.graph)
    /\ sch' = [sch EXCEPT !.pc = "compute"]
    /\ SchedOnly /\ UNCHANGED <<coll, published, age, cutOff>>

\* Every transmission finds a slot, and any two that may share one do.
Schedule(set, g) == FlattenSeq(Run(net, g, net.streams, set))
TilesFor(schedule, tiles) ==
    LET after[k \in 0..Len(schedule)] ==
            IF k = 0 THEN tiles ELSE Lcm(after[k - 1], schedule[k].period)
    IN  after[Len(schedule)]
UsedLinks(schedule) == {OrderLink(schedule[i].tx, schedule[i].rx) : i \in DOMAIN schedule}
InterferenceLinks(schedule) ==
    LET g == IF net.useWeakTopologies THEN sch.weakGraph ELSE sch.graph
        Meet(e, f) == /\ Cardinality({e.tx, e.rx, f.tx, f.rx}) = 4
                      /\ ~HasEdge(g, e.tx, f.rx) /\ ~HasEdge(g, e.rx, f.tx)
    IN  IF ~net.channelSpatialReuse THEN {}
        ELSE {OrderLink(schedule[p[1]].tx, schedule[p[2]].rx) :
                p \in {q \in (DOMAIN schedule) \X (DOMAIN schedule) : Meet(schedule[q[1]], schedule[q[2]])}}

\* The established streams anew if the graph changed, or the last schedule as it
\* is; then the accepted streams if there are new ones.
WithLinks(schedule) ==
    [schedule |-> schedule, id |-> published.id + 1, notApplied |-> TRUE,
     tiles |-> TilesFor(schedule, IF sch.graphChanged THEN Size(net) ELSE published.tiles),
     links |-> InterferenceLinks(schedule) \cup (IF sch.graphChanged THEN {} ELSE published.links)]
NewSchedule ==
    WithLinks(IF sch.graphChanged
              THEN Schedule(sch.established, sch.graph)
                    \o Schedule(IF sch.added THEN sch.accepted ELSE {}, sch.graph)
              ELSE published.schedule \o Schedule(sch.accepted, sch.graph))

\* The outcome is told to the topology.
Told(new) ==
    /\ topo' = ScheduleChanged(topo, UsedLinks(new.schedule), new.links)
    /\ sch' = [pc |-> "publish", accepted |-> sch.accepted, established |-> sch.established,
               new |-> new]
    /\ cutOff' = IF sch.graphChanged THEN {} ELSE cutOff
    /\ UNCHANGED <<published, age>>
SchedCompute ==
    /\ Thread("compute")
    /\ IF sch.graphChanged \/ sch.added THEN Told(NewSchedule)
       ELSE /\ topo' = ScheduleNotChanged(topo)
            /\ sch' = [pc |-> "waiting"]
            /\ published' = [published EXCEPT !.notApplied = sch.resend]
            /\ age' = 0
            /\ UNCHANGED cutOff
    /\ SchedOnly /\ UNCHANGED coll

\* Streams that got no place are told so, in the order of their ids.
Rejected(ids) ==
    LET after[k \in 0..Len(net.streams)] ==
            IF k = 0 THEN coll.infos
            ELSE LET id == net.streams[k].id
                 IN  IF id \in ids THEN Enqueue(after[k - 1], id, [id |-> id, type |-> "STREAM_REJECT"])
                     ELSE after[k - 1]
    IN  after[Len(net.streams)]

\* applyChanges, and the swap of the schedules.
SchedPublish ==
    /\ Thread("publish")
    /\ LET scheduled == {sch.new.schedule[i].stream : i \in DOMAIN sch.new.schedule}
       IN  coll' = [coll EXCEPT
                !.accepted = @ \ sch.accepted,
                !.infos = Rejected(sch.accepted \ scheduled),
                !.established = (@ \ (sch.established \ scheduled)) \cup (sch.accepted \cap scheduled)]
    /\ published' = sch.new
    /\ sch' = [pc |-> "waiting"]
    /\ age' = 0
    /\ SchedOnly /\ UNCHANGED <<topo, cutOff>>

Scheduler == SchedWake \/ SchedSnapshot \/ SchedGraph \/ SchedWriteBack \/ SchedCompute \/ SchedPublish
-----------------------------------------------------------------------------
\* The streams that are not open are asked for.
Connect ==
    /\ tile \in net.connect /\ coll.asked # tile
    /\ LET new == {net.streams[i].id : i \in DOMAIN net.streams} \ (coll.accepted \cup coll.established)
       IN  coll' = [coll EXCEPT !.accepted = @ \cup new, !.asked = tile,
                                !.modified = @ \/ new # {}, !.added = @ \/ new # {}]
    /\ quiet' = 0
    /\ UNCHANGED <<net, tile, nodeVars, md, topo, published, sch, cutOff, age, faultVars>>

\* The fading links vanish and others appear; and back.
LinksChange ==
    /\ \/ fade = "before" /\ tile \in net.fadeTiles /\ fade' = "during"
       \/ fade = "during" /\ tile \in net.backTiles /\ fade' = "after"
    /\ quiet' = 0
    /\ UNCHANGED <<net, tile, nodeVars, md, schedVars, age, warm, losses, drifts>>

\* The temperature of a node changes, and with it the rate of its clock.
RateChanges ==
    /\ drifts < net.maxDrifts /\ tile \in net.driftTiles
    /\ \E n \in Dynamic \ warm : warm' = warm \cup {n}
    /\ drifts' = drifts + 1
    /\ quiet' = 0
    /\ UNCHANGED <<net, tile, nodeVars, md, schedVars, age, fade, losses>>

Next == TimesyncPhase \/ DownlinkPhase \/ UplinkPhaseStep \/ Scheduler \/ Connect \/ LinksChange \/ RateChanges

Spec == Init /\ [][Next]_vars

\* The streams that can be asked for: between nodes of the network, with the
\* periods there are.
Periods == {ToInt[p] : p \in DOMAIN ToInt}
Streams(c) ==
    {s \in ToSet(c.streams) : /\ {s.src, s.dst} \subseteq NodeIds(c)
                             /\ s.redundancy \in Redundancies /\ s.period \in Periods}

\* (A period of no superframes would divide by zero in getNumTimesyncs.  A node
\* that may miss no timesync gives up at the first one, like one that may miss one.)
ASSUME ConfigurationAssumption ==
    \A c \in Networks :
        /\ ConfigurationFields(c) /\ ValidSuperframe(c) /\ ValidConfiguration(c)
        /\ c.superframesPerSync \in Nat \ {0} /\ c.maxNodes \in Nat \ {0}
        /\ c.maxMissedTimesyncs > 0
        /\ 0 \in c.nodes /\ c.nodes \subseteq 0..(c.maxNodes - 1)
        /\ c.maxPktSize \in Nat /\ GetPacketCapacity(c) > 0
        /\ c.neighborBitmaskSize \in Nat /\ FirstCapacity(c) >= 0
        /\ c.streams \in Seq(Streams(c))
ASSUME BoundsAssumption == MaxTile \in Nat /\ MaxDelay \in Nat
-----------------------------------------------------------------------------
InTime == {n \in Nodes : Synchronized(sync[n])}

TypeOK ==
    /\ tile \in 0..MaxTile /\ age \in 0..MaxDelay
    /\ \A n \in Nodes :
        /\ sync[n].status \in {"DESYNCHRONIZED", "SYNCING", "IN_SYNC"}
        /\ sync[n].hop \in 0..net.maxHops /\ sync[n].missed \in 0..net.maxMissedTimesyncs
        /\ uplink[n].next \in NodeIds(net)
        /\ UniqueKeys(uplink[n].topologyQueue) /\ UniqueKeys(uplink[n].smeQueue)
        /\ uplink[n].table.strong \subseteq uplink[n].table.weak \/ ~net.useWeakTopologies
        /\ data[n].tiles = 0 \/ data[n].pos < data[n].tiles
    /\ md.status \in {"APPLIED_SCHEDULE", "SENDING_SCHEDULE", "AWAITING_ACTIVATION"}
    /\ md.header.total > 0 => md.header.current < md.header.total
    /\ \A n \in Dynamic :
        dist[n].status \in {"APPLIED_SCHEDULE", "SENDING_SCHEDULE", "INCOMPLETE_SCHEDULE"}

\* The nodes that have the time agree with the master on it and on whose turn is
\* next, however many timesyncs and uplinks they have missed and however late
\* they came: two nodes that did not would speak in the same uplink, or ascribe
\* a message to another node.
InStep ==
    \A n \in InTime : /\ sync[n].counter = sync[0].counter
                      /\ uplink[n].next = uplink[0].next

\* Why they do: the master has counted every timesync and every uplink, and a
\* node counts on from it (inductive, with the fields that this needs).
MasterInTime ==
    /\ Synchronized(sync[0]) /\ sync[0].counter = NumTimesyncs(net, tile) - 1
    /\ uplink[0].next = AlignToNetworkTime(net, tile)
TimeInv ==
    /\ net \in Networks /\ tile \in Nat
    /\ \A n \in Nodes : {"status", "counter"} \subseteq DOMAIN sync[n] /\ "next" \in DOMAIN uplink[n]
    /\ MasterInTime
    /\ InStep

\* A node that operates expects the next timesync, and every slot until then,
\* when they are, give or take the admitted window: although it goes by the last
\* error it has measured, and neither a loss before the first measurements nor a
\* change of rate while timesyncs are lost throws the controller off further.
OperatesInTime ==
    \A n \in Dynamic : Operates(n) => InWindow(net, sync[n].offset)

\* Whatever waits at a node whose turn it is: the packets it sends hold what its
\* header announces, and the assignee, that works out from the header alone what
\* must be in which packet, accepts and takes over all of it.
Understood(u, packets) ==
    LET taken == TakeOverAll(net, EmptyUplink(net, 0), HeaderIn(packets[1]), packets)
    IN  /\ CheckFirstPacket(net, packets[1])
        /\ \A pkt \in ToSet(packets) : ~Overflown(net, pkt)
        /\ taken.topologyQueue = SubSeq(u.topologyQueue, 1, HeaderIn(packets[1]).numTopology)
        /\ taken.smeQueue = SubSeq(u.smeQueue, 1, HeaderIn(packets[1]).numSME)
MessagesUnderstood ==
    (tile < MaxTile /\ ~DownlinkTile(net, tile)) =>
        \A n \in {m \in Speakers : ~SendsAlone(uplink[m], m)} :
            Understood(Ready(n), PacketsOf(MyMessage(net, Ready(n), n)))

\* Nodes that play a schedule of the same id play the same transmissions and are
\* at the same tile of it, whether they got it in the first distribution or in a
\* later one, in which the master goes back to the beginning of it.
Together(a, b) ==
    (a.id = b.id /\ a.id # 0) =>
        /\ a.tiles = b.tiles /\ a.pos = b.pos
        /\ Len(a.schedule) = Len(b.schedule) /\ ToSet(a.schedule) = ToSet(b.schedule)
PlayedTogether == \A m, n \in InTime : Together(data[m], data[n])

\* A node waits for the tile at which the master starts the schedule it sends.
AwaitsActivation(n) ==
    /\ dist[n].status = "SENDING_SCHEDULE" /\ md.status # "APPLIED_SCHEDULE"
    /\ dist[n].header.id = md.header.id /\ dist[n].header.activation = md.header.activation

\* A node plays the last schedule it got a packet of, or none, in particular when
\* some packets are missing, or when it cannot operate as the tile comes.  Only
\* until that tile does it play an older one: also when it has missed the first
\* distribution of a schedule and hears of it in a later one.
NothingStalePlayed ==
    \A n \in InTime \ {0} : data[n].id \in {0, heard[n]} \/ AwaitsActivation(n)

\* Why: what a node that has the time has received and plays, by its status;
\* another one has no schedule (inductive, with TimeInv and the fields it needs).
HoldsSchedule(n) ==
    /\ dist[n].status # "INCOMPLETE_SCHEDULE" => dist[n].header.id = heard[n]
    /\ dist[n].status = "APPLIED_SCHEDULE" => data[n].id = heard[n]
    /\ dist[n].status = "INCOMPLETE_SCHEDULE" => data[n].id = 0
    /\ dist[n].status = "SENDING_SCHEDULE" => AwaitsActivation(n)
ScheduleInv ==
    \A n \in Dynamic :
        /\ dist[n].status \in {"APPLIED_SCHEDULE", "SENDING_SCHEDULE", "INCOMPLETE_SCHEDULE"}
        /\ n \in InTime => HoldsSchedule(n)
        /\ n \notin InTime => dist[n] = NodeDistribution /\ heard[n] = 0

\* What is scheduled, sent and played are transmissions between nodes, and what
\* the master tells the nodes besides are notices about streams.
AllTransmissions(c) == {ScheduleElement(s, l[1], l[2]) : s \in Streams(c), l \in NodeIds(c) \X NodeIds(c)}
Notices(c) == {[key |-> s.id, val |-> [id |-> s.id, type |-> "STREAM_REJECT"]] : s \in Streams(c)}
PublishedTyped == "schedule" \in DOMAIN published /\ published.schedule \in Seq(AllTransmissions(net))
SchedulerTyped ==
    /\ "pc" \in DOMAIN sch
    /\ sch.pc = "publish" => "schedule" \in DOMAIN sch.new /\ sch.new.schedule \in Seq(AllTransmissions(net))
InfosTyped == "infos" \in DOMAIN coll /\ coll.infos \in Seq(Notices(net))
MasterFields(c, m) ==
    /\ {"status", "header", "schedule", "position"} \subseteq DOMAIN m
    /\ m.schedule \in Seq(AllTransmissions(c)) /\ m.position \in Nat
    /\ {"id", "activation", "current", "repetition"} \subseteq DOMAIN m.header
NodeFields(d) == {"status", "header", "schedule", "received", "incomplete"} \subseteq DOMAIN d
MasterTyped == MasterFields(net, md)
NodesTyped ==
    /\ \A n \in Nodes : {"id", "pos"} \subseteq DOMAIN data[n]
    /\ \A n \in Dynamic : NodeFields(dist[n])
DistributionTypes == PublishedTyped /\ SchedulerTyped /\ InfosTyped /\ MasterTyped /\ NodesTyped

\* The numbers that tell a node where it is in a schedule (inductive, with the
\* above).
PublishedFields == {"id", "tiles", "schedule", "notApplied"}
HeaderFields == {"total", "current", "id", "activation", "tiles", "repetition"}
PlayFields == {"id", "tiles", "pos", "schedule"}
PlayTyped(d) == /\ PlayFields \subseteq DOMAIN d /\ d.tiles \in Nat /\ d.pos \in Nat
                /\ d.tiles = 0 \/ d.pos < d.tiles
HeaderTyped(h) == /\ HeaderFields \subseteq DOMAIN h /\ h.activation \in Int /\ h.tiles \in Nat
                  /\ h.total > 0 => h.current < h.total
PublishedNumbers ==
    /\ PublishedFields \subseteq DOMAIN published /\ published.id \in Nat /\ published.tiles \in Nat \ {0}
    /\ sch.pc = "publish" =>
            PublishedFields \subseteq DOMAIN sch.new /\ sch.new.tiles \in Nat \ {0} /\ sch.new.id = published.id + 1
NumbersInv ==
    /\ PublishedNumbers /\ HeaderTyped(md.header)
    /\ \A n \in Dynamic : dist[n].status = "SENDING_SCHEDULE" =>
            HeaderFields \subseteq DOMAIN dist[n].header /\ dist[n].header.tiles = md.header.tiles
    /\ \A n \in Nodes : PlayTyped(data[n])

\* No node sends to itself (inductive, with TopologyInv).
Apart(schedule) == \A i \in DOMAIN schedule : schedule[i].tx # schedule[i].rx
ApartInv ==
    /\ Apart(published.schedule) /\ Apart(md.schedule)
    /\ sch.pc = "publish" => Apart(sch.new.schedule)

\* Why nodes play together (inductive, with the above): an id names one schedule;
\* the master cuts it in pieces in their order; a node that receives has the pieces
\* that it has ticked off, and who plays it is at the tile that its activation
\* tells, also when the master has set another one to send it again.
IdsInv ==
    /\ md.header.id \in 0..published.id
    /\ (md.header.id = published.id /\ published.id # 0) =>
            md.schedule = published.schedule /\ md.header.tiles = published.tiles % 2^16
    /\ \A n \in Nodes : data[n].id \in 0..md.header.id
SendingInv ==
    /\ md.status # "APPLIED_SCHEDULE" => md.header.total = PacketsFor(net, md.schedule)
    /\ md.status = "SENDING_SCHEDULE" =>
            /\ md.header.current \in 0..(md.header.total - 1)
            /\ md.position = md.header.current * GetPacketCapacity(net)
PieceOf(j) == ((j - 1) \div GetPacketCapacity(net)) + 1
Got(n) == {j \in DOMAIN md.schedule : dist[n].received[PieceOf(j)]}
ReceivingInv ==
    \A n \in Dynamic : dist[n].status = "SENDING_SCHEDULE" =>
        /\ dist[n].header.total = md.header.total
        /\ dist[n].received \in [1..md.header.total -> BOOLEAN]
        /\ dist[n].schedule \in Seq(AllTransmissions(net))
        /\ Len(dist[n].schedule) = Cardinality(Got(n))
        /\ ToSet(dist[n].schedule) = {md.schedule[j] : j \in Got(n)}
PlayOfMaster ==
    [id |-> md.header.id, tiles |-> md.header.tiles, schedule |-> md.schedule,
     pos |-> IF md.header.tiles = 0 THEN 0 ELSE (tile - md.header.activation) % md.header.tiles]
TogetherInv ==
    /\ IdsInv /\ SendingInv /\ ReceivingInv
    /\ \A n \in Nodes : Together(data[n], PlayOfMaster)
    /\ \A m, n \in Nodes : Together(data[m], data[n])

\* The number of packets of a schedule is a field of two bytes.
HeaderFits == PacketsFor(net, md.schedule) < 2^16

\* The tile of activation leaves time for all packets: master and nodes apply a
\* schedule in that very tile, the first of a superframe and no timesync.
ActivatedOnTime ==
    [][/\ (md.status # "APPLIED_SCHEDULE" /\ md'.status = "APPLIED_SCHEDULE") =>
            tile = md.header.activation /\ tile % Size(net) = 0
       /\ \A n \in Dynamic :
            (dist[n].status = "SENDING_SCHEDULE" /\ dist'[n].status = "APPLIED_SCHEDULE"
                /\ n \in InTime)
                => tile = dist[n].header.activation \/ sync'[n].status = "DESYNCHRONIZED"]_vars

\* Why (inductive, with the above): a schedule lasts for whole superframes, it
\* starts with one of them, and before it does there are downlinks enough, besides
\* the timesyncs, for the packets that are still to be sent.
PacketDownlinks(c, t) == Cardinality({i \in 0..(t - 1) : DownlinkTile(c, i) /\ ~TimesyncTile(c, i)})
PacketsLeft(h) == (ScheduleRepetitions - h.repetition) * h.total - h.current
Starts(c, t) == t \in Nat /\ t % Size(c) = 0 /\ ~TimesyncTile(c, t)
WholeSuperframes ==
    /\ published.tiles % Size(net) = 0
    /\ sch.pc = "publish" => sch.new.tiles % Size(net) = 0
    /\ md.header.tiles % Size(net) = 0
OnTimeInv ==
    /\ WholeSuperframes /\ md.header.repetition \in Nat
    /\ md.header.tiles > 0 => Starts(net, md.header.activation)
    /\ md.status # "APPLIED_SCHEDULE" => md.header.tiles > 0 /\ tile <= md.header.activation
    /\ Sending(md) =>
            PacketDownlinks(net, md.header.activation) >= PacketDownlinks(net, tile) + PacketsLeft(md.header)

\* There is a superframe that does not begin with a timesync, and the tiles of a
\* schedule and the count of its repetitions are fields of two bytes and of one.
TimesFit == /\ net.superframesPerSync > 1 /\ published.tiles < 2^16
            /\ ScheduleRepetitions < 2^8

\* When the scheduler rests and the topology asks for nothing, the schedule fits
\* the topology: the links it uses are there, those that would disturb it are not,
\* whatever was reported while it was computed.  (Except for links between nodes
\* that were found cut off: the topology is not told that they are left out, and
\* the schedule keeps them until all streams are routed anew.)
InterferenceGraph(t) == IF net.useWeakTopologies THEN t.weakGraph ELSE t.graph
Fits(t) ==
    /\ \A l \in t.usedLinks : HasEdge(t.graph, l[1], l[2]) \/ l \in cutOff
    /\ \A l \in t.newLinks : ~HasEdge(InterferenceGraph(t), l[1], l[2])
ScheduleFits == (sch.pc = "waiting" /\ ~topo.modified) => Fits(topo)

\* Why (inductive, with TimeInv and the types): while the scheduler computes, what
\* its copy of the graph no longer shares with the graph is noted, link by link.
Undirected(g) == \A e \in g : e = <<e[1], e[2]>> /\ <<e[2], e[1]>> \in g /\ e[1] # e[2]
Noted(e, links) == e \in links \/ <<e[2], e[1]>> \in links
Ordered(l) == l[1] < l[2] \/ ~(l[2] < l[1])
TopologyFields ==
    {"graph", "weakGraph", "maybeCut", "modified", "inProgress", "usedLinks", "newLinks", "removed", "added"}
Scheduling == sch.pc \in {"writeback", "compute"}
ChangesNoted(t) ==
    /\ {"graph", "weakGraph", "graphChanged"} \subseteq DOMAIN sch
    /\ ~t.modified /\ Undirected(sch.graph) /\ Undirected(sch.weakGraph)
    /\ \A e \in sch.graph : e \in t.graph \/ Noted(e, t.removed)
    /\ (net.useWeakTopologies \/ (net.channelSpatialReuse /\ sch.pc = "compute")) =>
            \A e \in InterferenceGraph(t) : e \in InterferenceGraph(sch) \/ Noted(e, t.added)
    /\ ~sch.graphChanged =>
            /\ \A l \in t.usedLinks : l \in sch.graph \cup cutOff
            /\ \A l \in t.newLinks : l \notin InterferenceGraph(sch)
TopologyOf(t) ==
    /\ DOMAIN t = TopologyFields
    /\ Undirected(t.graph) /\ Undirected(t.weakGraph)
    /\ t.inProgress = Scheduling
    /\ \A l \in t.usedLinks \cup t.newLinks : l \in Nat \X Nat /\ l[1] <= l[2]
    /\ \A l \in t.removed \cup t.added : Ordered(l)
    /\ ~net.channelSpatialReuse => t.newLinks = {}
    /\ IF Scheduling THEN ChangesNoted(t)
       ELSE t.removed = {} /\ t.added = {} /\ (~t.modified => Fits(t))
ScheduleTold(s) == "links" \in DOMAIN s /\ topo.usedLinks = UsedLinks(s.schedule) /\ topo.newLinks = s.links
TopologyInv ==
    /\ TopologyOf(topo)
    /\ ScheduleTold(IF sch.pc = "publish" THEN sch.new ELSE published)

\* Some time after the last disturbance all nodes that strong links connect to
\* the master are synchronized, the master knows the links between them, nothing
\* is left to schedule, and who got a packet of the schedule in use plays it: a
\* node that lacked packets has asked for them and got them.
ConvergenceTiles == 90
Connected == Reachable(StrongLinks)
Converges ==
    quiet >= ConvergenceTiles =>
        /\ \A n \in Connected : Operates(n)
        /\ \A m, n \in Connected : HasEdge(topo.graph, m, n) <=> HasEdge(StrongLinks, m, n)
        /\ ~Busy /\ ~published.notApplied
        /\ \A n \in Connected \ {0} :
            (heard[n] # 0 /\ heard[n] = data[0].id) => data[n].id = heard[n]

\* "Should never happen, how can we transmit from a buffer we haven't received
\* from?" (schedule_distribution.cpp:69): a relay that forwards a stream has the
\* buffer for it.
RelaysHaveBuffers ==
    \A n \in Nodes : \A i \in DOMAIN data[n].schedule :
        Role(n, data[n].schedule[i]) = "SENDBUFFER" => HasBuffer(n, data[n].schedule, i)
=============================================================================
