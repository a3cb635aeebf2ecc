------------------------- MODULE MACContext_proofs -------------------------
(***************************************************************************)
(* Proofs about the control plane. First the calendar, then five theorems, *)
(* each from an inductive invariant that MACContext states.                *)
(*                                                                         *)
(* (1) All nodes that have the time agree on it and on whose turn it is    *)
(* (InStep, TimeInv): the master has counted every timesync and every      *)
(* uplink since the start, a node that hears the time again works out from *)
(* the tile what the master has counted, and both count on by the same     *)
(* rule. With it, what a node plays is not stale (NothingStalePlayed,      *)
(* ScheduleInv).                                                           *)
(*                                                                         *)
(* (2) The schedule fits the topology (ScheduleFits, TopologyInv): while   *)
(* the scheduler computes, what its copy of the graph and the topology no  *)
(* longer share is noted, link by link, until it is written back or        *)
(* computed again.                                                         *)
(*                                                                         *)
(* (3) Types (TypeOK), which for the numbers, queues and messages of an    *)
(* uplink are invariants of their own.                                     *)
(*                                                                         *)
(* (4) Nodes play a schedule together (PlayedTogether, TogetherInv): an id *)
(* names one schedule, the master cuts it in pieces in order, a node has   *)
(* exactly the pieces it has ticked off, and every activation of a         *)
(* schedule is a multiple of its length from the one before.               *)
(*                                                                         *)
(* (5) A schedule starts in the tile that its header names, the first of a *)
(* superframe (ActivatedOnTime, OnTimeInv): that tile leaves as many       *)
(* downlinks as there are packets to send, timesyncs not counted, and each *)
(* downlink takes one of them.                                             *)
(***************************************************************************)
EXTENDS MACContext, Router_proofs, FiniteSetTheorems

(***************************************************************************)
(* The calendar.                                                           *)
(***************************************************************************)
LEMMA Configuration ==
    ASSUME NEW c \in Networks
    PROVE  /\ Size(c) \in Nat \ {0} /\ c.superframesPerSync \in Nat \ {0}
           /\ TilesPerTimesync(c) \in Nat \ {0}
           /\ c.maxNodes \in Nat \ {0} /\ 0 \in c.nodes
           /\ IsControlDownlink(c, 0)
<1>1. Size(c) \in Nat \ {0} /\ IsControlDownlink(c, 0)
  <2>1. ValidSuperframe(c)
    BY ConfigurationAssumption
  <2> QED
    BY <2>1 DEF ValidSuperframe
<1>2. c.superframesPerSync \in Nat \ {0} /\ 0 \in c.nodes /\ c.maxNodes \in Nat \ {0}
  BY ConfigurationAssumption
<1> QED
  BY <1>1, <1>2 DEF TilesPerTimesync

\* A timesync takes the first downlink of a superframe.
LEMMA TimesyncIsDownlink ==
    ASSUME NEW c \in Networks, NEW t \in Nat, TimesyncTile(c, t)
    PROVE  DownlinkTile(c, t)
<1>1. PICK q : q = t \div TilesPerTimesync(c)
  OBVIOUS
<1>2. q \in Nat /\ t = TilesPerTimesync(c) * q + 0
  BY <1>1, DivMod, Configuration DEF TimesyncTile
<1>3. t = Size(c) * (c.superframesPerSync * q) + 0 /\ c.superframesPerSync * q \in Nat
  BY <1>2, Configuration DEF TilesPerTimesync
<1>4. t % Size(c) = 0
  BY <1>3, DivModUnique, Configuration
<1> QED
  BY <1>4, Configuration DEF DownlinkTile

\* Each tile that is a timesync counts.
LEMMA NextNumTimesyncs ==
    ASSUME NEW c \in Networks, NEW t \in Nat
    PROVE  /\ NumTimesyncs(c, t) \in Nat
           /\ TimesyncTile(c, t) => /\ NumTimesyncs(c, t + 1) = NumTimesyncs(c, t) + 1
                                    /\ NumTimesyncs(c, t) = t \div TilesPerTimesync(c)
                                    /\ (t \div TilesPerTimesync(c)) * TilesPerTimesync(c) = t
           /\ ~TimesyncTile(c, t) => NumTimesyncs(c, t + 1) = NumTimesyncs(c, t)
<1> DEFINE P == TilesPerTimesync(c)
<1>1. P \in Nat \ {0}
  BY Configuration
<1> HIDE DEF P
<1>2. PICK q, r : q = t \div P /\ r = t % P
  OBVIOUS
<1>3. q \in Nat /\ r \in 0..(P - 1) /\ t = P * q + r
  BY <1>1, <1>2, DivMod
<1>4. t + 1 + P - 1 = P * (q + 1) + r
  BY <1>1, <1>3
<1>5. (t + 1 + P - 1) \div P = q + 1
  BY <1>1, <1>3, <1>4, DivModUnique
<1>6. CASE r = 0
  <2>1. t + P - 1 = P * q + (P - 1)
    BY <1>1, <1>3, <1>6
  <2>2. (t + P - 1) \div P = q
    BY <1>1, <1>3, <2>1, DivModUnique
  <2>3. q * P = t
    BY <1>1, <1>3, <1>6
  <2> QED
    BY <1>2, <1>3, <1>5, <1>6, <2>2, <2>3 DEF NumTimesyncs, TimesyncTile, P
<1>7. CASE r # 0
  <2>1. t + P - 1 = P * (q + 1) + (r - 1) /\ r - 1 \in 0..(P - 1)
    BY <1>1, <1>3, <1>7
  <2>2. (t + P - 1) \div P = q + 1
    BY <1>1, <1>3, <2>1, DivModUnique
  <2> QED
    BY <1>2, <1>3, <1>5, <1>7, <2>2 DEF NumTimesyncs, TimesyncTile, P
<1> QED
  BY <1>6, <1>7

LEMMA NextCountUplinks ==
    ASSUME NEW c, NEW k \in Nat
    PROVE  /\ CountUplinks(c, k) \in Nat
           /\ CountUplinks(c, k + 1) = CountUplinks(c, k) + (IF IsControlUplink(c, k) THEN 1 ELSE 0)
<1> DEFINE Before(n) == {i \in 0..(n - 1) : IsControlUplink(c, i)}
<1>1. IsFiniteSet(Before(k))
  <2>1. IsFiniteSet(0..(k - 1)) /\ Before(k) \subseteq 0..(k - 1)
    BY FS_Interval
  <2> QED
    BY <2>1, FS_Subset
<1>4. Cardinality(Before(k)) \in Nat
  BY <1>1, FS_CardinalityType
<1>5. CountUplinks(c, k) = Cardinality(Before(k))
      /\ CountUplinks(c, k + 1) = Cardinality(Before(k + 1))
  BY DEF CountUplinks
<1>2. CASE IsControlUplink(c, k)
  <2>1. Before(k + 1) = Before(k) \cup {k} /\ k \notin Before(k)
    BY <1>2
  <2> QED
    BY <1>1, <1>2, <1>4, <1>5, <2>1, FS_AddElement
<1>3. CASE ~IsControlUplink(c, k)
  <2>1. Before(k + 1) = Before(k)
    BY <1>3
  <2> QED
    BY <1>3, <1>4, <1>5, <2>1
<1> QED
  BY <1>2, <1>3

\* The uplinks before a tile.
UplinksBefore(c, t) == (t \div Size(c)) * CountUplinkSlots(c) + CountUplinks(c, t % Size(c))

LEMMA NextUplink ==
    ASSUME NEW c \in Networks, NEW t \in Nat
    PROVE  /\ UplinksBefore(c, t) \in Nat
           /\ UplinksBefore(c, t + 1) = UplinksBefore(c, t) + (IF DownlinkTile(c, t) THEN 0 ELSE 1)
<1> DEFINE S == Size(c)
           Phase(n) == (n \div S) * CountUplinkSlots(c) + CountUplinks(c, n % S)
<1>1. S \in Nat \ {0}
  BY Configuration
<1>2. \A k \in Nat : CountUplinks(c, k) \in Nat
  BY NextCountUplinks
<1>3. CountUplinkSlots(c) \in Nat /\ CountUplinkSlots(c) = CountUplinks(c, S)
  BY <1>1, <1>2 DEF CountUplinkSlots
<1>4. CountUplinks(c, 0) = 0
  BY FS_EmptySet DEF CountUplinks
<1> HIDE DEF S
<1>5. PICK q, r : q = t \div S /\ r = t % S
  OBVIOUS
<1>6. q \in Nat /\ r \in Nat /\ r < S
  <2>1. S \in Nat \ {0}
    BY <1>1
  <2>2. t \div S \in Nat /\ t % S \in 0..(S - 1)
    BY <2>1, DivMod
  <2> QED
    BY <1>5, <2>1, <2>2
<1>7. CountUplinks(c, r + 1) = CountUplinks(c, r) + (IF IsControlUplink(c, r) THEN 1 ELSE 0)
  BY <1>6, NextCountUplinks
<1>8. DownlinkTile(c, t) <=> ~IsControlUplink(c, r)
  BY <1>5 DEF DownlinkTile, IsControlUplink, S
<1>9. Phase(t) \in Nat
  <2>1. CountUplinks(c, r) \in Nat
    BY <1>2, <1>6
  <2> QED
    BY <1>3, <1>5, <1>6, <2>1
<1>10. Phase(t + 1) = Phase(t) + (IF DownlinkTile(c, t) THEN 0 ELSE 1)
  <2>1. CASE r + 1 = S
    <3>1. (t + 1) \div S = q + 1 /\ (t + 1) % S = 0
      <4>1. S \in Nat \ {0}
        BY <1>1
      <4>2. \/ (t + 1) \div S = q + 1 /\ (t + 1) % S = 0 /\ r + 1 = S
            \/ (t + 1) \div S = q /\ (t + 1) % S = r + 1 /\ r + 1 < S
        BY <1>5, <4>1, DivModNext
      <4> QED
        BY <1>6, <2>1, <4>1, <4>2
    <3>2. Phase(t + 1) = (q + 1) * CountUplinks(c, S)
      BY <1>3, <1>4, <1>6, <3>1
    <3>3. Phase(t + 1) = q * CountUplinks(c, S) + CountUplinks(c, r + 1)
      BY <1>3, <1>6, <2>1, <3>2
    <3> QED
      BY <1>2, <1>3, <1>5, <1>6, <1>7, <1>8, <3>3
  <2>2. CASE r + 1 # S
    <3>1. (t + 1) \div S = q /\ (t + 1) % S = r + 1
      BY <1>1, <1>5, <1>6, <2>2, DivModNext
    <3> QED
      BY <1>2, <1>3, <1>5, <1>6, <1>7, <1>8, <3>1
  <2> QED
    BY <2>1, <2>2
<1> QED
  BY <1>9, <1>10 DEF UplinksBefore, S

\* Whose turn it is: the same before and after a downlink, the next one's after an
\* uplink.
LEMMA NextTurn ==
    ASSUME NEW c \in Networks, NEW t \in Nat
    PROVE  AlignToNetworkTime(c, t + 1) =
              IF DownlinkTile(c, t) THEN AlignToNetworkTime(c, t)
              ELSE NodeAfter(c, AlignToNetworkTime(c, t))
<1> DEFINE M == c.maxNodes
<1>1. M \in Nat \ {0}
  BY Configuration
<1> HIDE DEF M
<1>2. /\ UplinksBefore(c, t) \in Nat
      /\ UplinksBefore(c, t + 1) = UplinksBefore(c, t) + (IF DownlinkTile(c, t) THEN 0 ELSE 1)
  BY NextUplink
<1>3. AlignToNetworkTime(c, t) = M - 1 - (UplinksBefore(c, t) % M)
      /\ AlignToNetworkTime(c, t + 1) = M - 1 - (UplinksBefore(c, t + 1) % M)
  BY DEF AlignToNetworkTime, UplinksBefore, M
<1>4. CASE DownlinkTile(c, t)
  BY <1>2, <1>3, <1>4
<1>5. CASE ~DownlinkTile(c, t)
  <2>1. PICK p : p = UplinksBefore(c, t)
    OBVIOUS
  <2>2. p \in Nat /\ UplinksBefore(c, t + 1) = p + 1
    BY <1>2, <1>5, <2>1
  <2>3. p % M \in 0..(M - 1)
    BY <1>1, <2>2, DivMod
  <2>4. \/ (p + 1) % M = 0 /\ (p % M) + 1 = M
        \/ (p + 1) % M = (p % M) + 1 /\ (p % M) + 1 < M
    BY <1>1, <2>2, DivModNext
  <2>5. NodeAfter(c, M - 1 - (p % M)) = M - 1 - ((p + 1) % M)
    BY <1>1, <2>3, <2>4 DEF NodeAfter, M
  <2> QED
    BY <1>3, <1>5, <2>1, <2>2, <2>5
<1> QED
  BY <1>4, <1>5

(***************************************************************************)
(* Time and turns.                                                         *)
(***************************************************************************)

\* An uplink phase that holds a given turn, and a clock that shows a given count.
Turn(u, node) == "next" \in DOMAIN u /\ u.next = node
Clock(s, count) == {"status", "counter"} \subseteq DOMAIN s /\ s.counter = count

LEMMA AdvanceTurn ==
    ASSUME NEW c, NEW u, NEW node, Turn(u, node)
    PROVE  Turn(Advance(c, u), NodeAfter(c, node))
  BY DEF Turn, Advance

LEMMA AfterMyUplinkTurn ==
    ASSUME NEW c, NEW u, NEW node, NEW me, NEW message, Turn(u, node)
    PROVE  Turn(AfterMyUplink(c, u, me, message), NodeAfter(c, node))
<1> DEFINE last == message[Len(message)]
           own == [u EXCEPT !.topologyQueue = Enqueue(@, 0, MyTopologyElement(0, u.table))]
           left == [u EXCEPT !.topologyQueue = last.topologyQueue, !.smeQueue = last.smeQueue]
<1>1. Turn(own, node) /\ Turn(left, node)
  BY DEF Turn
<1>2. Turn(Advance(c, own), NodeAfter(c, node)) /\ Turn(Advance(c, left), NodeAfter(c, node))
  BY <1>1, AdvanceTurn
<1>3. AfterMyUplink(c, u, me, message) = Advance(c, IF me = 0 THEN own ELSE left)
  BY DEF AfterMyUplink
<1> QED
  BY <1>2, <1>3

LEMMA MissUplinkTurn ==
    ASSUME NEW c, NEW u, NEW node, NEW me, Turn(u, node)
    PROVE  Turn(MissUplink(c, u, me), NodeAfter(c, node))
<1> DEFINE known == [u EXCEPT !.table = MissedMessage(c, me, @, u.next)]
<1>1. Turn(known, node)
  BY DEF Turn
<1>2. MissUplink(c, u, me) = Advance(c, known)
  BY DEF MissUplink
<1> HIDE DEF known
<1> QED
  BY <1>1, <1>2, AdvanceTurn

LEMMA TakeOverTurn ==
    ASSUME NEW c, NEW u, NEW node, NEW header, NEW packets, Turn(u, node)
    PROVE  Turn(TakeOverAll(c, u, header, packets), node)
<1>1. PICK last : TakeOverAll(c, u, header, packets) =
                      [u EXCEPT !.topologyQueue = last.topologyQueue, !.smeQueue = last.smeQueue]
  BY Zenon DEF TakeOverAll
<1>2. ASSUME NEW x, NEW y PROVE Turn([u EXCEPT !.topologyQueue = x, !.smeQueue = y], node)
  BY DEF Turn
<1>3. Turn([u EXCEPT !.topologyQueue = last.topologyQueue, !.smeQueue = last.smeQueue], node)
  BY <1>2, Zenon
<1> QED
  BY <1>1, <1>3, Zenon

LEMMA ReceiveUplinkTurn ==
    ASSUME NEW c, NEW u, NEW node, NEW me, NEW packets, NEW rssi, Turn(u, node)
    PROVE  Turn(ReceiveUplink(c, u, me, packets, rssi), NodeAfter(c, node))
<1>1. Turn(Heard(c, u, me, packets, rssi), NodeAfter(c, node))
  <2> DEFINE header == HeaderIn(packets[1])
             sender == [SenderIn(packets[1]) EXCEPT !.id = u.next]
             known == [u EXCEPT !.table =
                         ReceivedMessage(c, me, @, GetHop(header), rssi, GetBadAssignee(header), sender)]
             queued == [known EXCEPT !.topologyQueue = Enqueue(@, u.next, sender)]
             taken == TakeOverAll(c, queued, header, packets)
  <2>1. Turn(known, node)
    BY DEF Turn
  <2> HIDE DEF known
  <2>2. Turn(queued, node)
    BY <2>1 DEF Turn
  <2> HIDE DEF queued, header
  <2>3. Turn(taken, node)
    BY <2>2, TakeOverTurn
  <2> HIDE DEF taken
  <2>4. Heard(c, u, me, packets, rssi) = Advance(c, IF header.assignee = me THEN taken ELSE known)
    BY DEF Heard, taken, queued, known, header
  <2> QED
    BY <2>1, <2>3, <2>4, AdvanceTurn
<1> QED
  BY <1>1, MissUplinkTurn DEF ReceiveUplink

\* In an uplink every node that has the time counts one turn.
LEMMA PhaseAfterTurn ==
    ASSUME NEW messages, NEW deaf, NEW packets, NEW n, NEW node,
           Turn(uplink[n], node), Synchronized(sync[n])
    PROVE  Turn(PhaseAfter(messages, deaf, packets, n), NodeAfter(net, node))
<1> DEFINE received == Received(messages, packets, n)
           strength == Audible[<<SpeakerTo(n), n>>]
<1>1. Turn(Ready(n), node)
  BY DEF Ready, Turn
<1> HIDE DEF received, strength
<1>2. Turn(Advance(net, uplink[n]), NodeAfter(net, node))
  BY AdvanceTurn
<1>3. Turn(AfterMyUplink(net, Ready(n), n, messages[n]), NodeAfter(net, node))
  BY <1>1, AfterMyUplinkTurn
<1>4. Turn(ReceiveUplink(net, uplink[n], n, received, strength), NodeAfter(net, node))
  BY ReceiveUplinkTurn
<1>5. Turn(MissUplink(net, uplink[n], n), NodeAfter(net, node))
  BY MissUplinkTurn
<1>6. \/ PhaseAfter(messages, deaf, packets, n) = Advance(net, uplink[n])
      \/ PhaseAfter(messages, deaf, packets, n) = AfterMyUplink(net, Ready(n), n, messages[n])
      \/ PhaseAfter(messages, deaf, packets, n)
            = ReceiveUplink(net, uplink[n], n, received, strength)
      \/ PhaseAfter(messages, deaf, packets, n) = MissUplink(net, uplink[n], n)
  BY DEF PhaseAfter, received, strength
<1> QED
  BY <1>2, <1>3, <1>4, <1>5, <1>6

\* In a timesync: the count goes on, or is taken from the packet, in every node
\* that has the time afterwards.
LEMMA AfterTimesyncClock ==
    ASSUME TimeInv, NEW wave, NEW n \in Nodes
    PROVE  /\ {"status", "counter"} \subseteq DOMAIN AfterTimesync(wave, n)
           /\ Synchronized(AfterTimesync(wave, n)) =>
                AfterTimesync(wave, n).counter =
                    IF Resyncs(wave, n) THEN TimesyncCounter ELSE sync[n].counter + 1
           /\ Synchronized(AfterTimesync(wave, n)) => Synchronized(sync[n]) \/ Resyncs(wave, n)
           /\ n = 0 => Synchronized(AfterTimesync(wave, n)) /\ ~Resyncs(wave, n)
<1> USE DEF TimeInv, MasterInTime
<1>1. CASE n = 0
  BY <1>1 DEF AfterTimesync, NextTimesync, IncrementTimesyncPacketCounter, Resyncs, Synchronized
<1>2. CASE Resyncs(wave, n)
  <2>1. AfterTimesync(wave, n) = ResyncTime(SyncPacket(HopIn(wave, n) - 1, TimesyncCounter))
    BY <1>2 DEF AfterTimesync, Resyncs
  <2> QED
    BY <1>2, <2>1 DEF ResyncTime, SyncPacket, Desynchronized, Resyncs
<1>3. CASE n # 0 /\ Synchronized(sync[n]) /\ GetsTimesync(wave, n)
  <2>1. AfterTimesync(wave, n) = PeriodicSync(sync[n], Offset(n)) /\ ~Resyncs(wave, n)
    BY <1>3 DEF AfterTimesync, Resyncs
  <2> QED
    BY <1>3, <2>1 DEF PeriodicSync
<1>4. CASE n # 0 /\ Synchronized(sync[n]) /\ ~GetsTimesync(wave, n)
  <2>1. AfterTimesync(wave, n) = MissedPacket(net, sync[n], Offset(n)) /\ ~Resyncs(wave, n)
    BY <1>4 DEF AfterTimesync, Resyncs
  <2> QED
    BY <1>4, <2>1 DEF MissedPacket, OutOfTime, StillInTime
<1>5. CASE n # 0 /\ ~Synchronized(sync[n]) /\ ~Resyncs(wave, n)
  <2>1. AfterTimesync(wave, n) = sync[n]
    BY <1>5 DEF AfterTimesync, Resyncs
  <2> QED
    BY <1>5, <2>1
<1> QED
  BY <1>1, <1>2, <1>3, <1>4, <1>5 DEF Resyncs

LEMMA TimeInvInit == Init => TimeInv
<1> SUFFICES ASSUME Init PROVE TimeInv
  OBVIOUS
<1>1. net \in Networks /\ tile = 0
  BY DEF Init
<1>2. 0 \in Nodes /\ TilesPerTimesync(net) \in Nat \ {0} /\ Size(net) \in Nat \ {0}
      /\ net.maxNodes \in Nat \ {0} /\ TimesyncTile(net, 0)
  <2>1. TilesPerTimesync(net) \in Nat \ {0}
    BY <1>1, Configuration
  <2>2. 0 % TilesPerTimesync(net) = 0
    BY <2>1
  <2> QED
    BY <1>1, <2>1, <2>2, Configuration DEF Nodes, TimesyncTile
<1>3. \A n \in Nodes : /\ {"status", "counter"} \subseteq DOMAIN sync[n]
                       /\ Synchronized(sync[n]) => n = 0
                       /\ "next" \in DOMAIN uplink[n]
                       /\ uplink[n].next = net.maxNodes - 1
  BY DEF Init, MasterSync, SetTimesyncPacketCounter, Desynchronized, EmptyUplink, Synchronized
<1>4. sync[0].counter = -1 /\ Synchronized(sync[0])
  BY <1>2 DEF Init, MasterSync, SetTimesyncPacketCounter, Desynchronized, Synchronized
<1>5. NumTimesyncs(net, 0) = 0
  <2>1. 0 \div TilesPerTimesync(net) = 0
    BY <1>2
  <2> QED
    BY <1>1, <1>2, <2>1, NextNumTimesyncs
<1>6. AlignToNetworkTime(net, 0) = net.maxNodes - 1
  <2>1. 0 \div Size(net) = 0 /\ 0 % Size(net) = 0 /\ 0 % net.maxNodes = 0
    BY <1>2
  <2>2. CountUplinks(net, 0) = 0
    BY FS_EmptySet DEF CountUplinks
  <2>3. CountUplinkSlots(net) \in Nat
    BY <1>2, NextCountUplinks DEF CountUplinkSlots
  <2> QED
    BY <1>2, <2>1, <2>2, <2>3 DEF AlignToNetworkTime
<1> QED
  BY <1>1, <1>2, <1>3, <1>4, <1>5, <1>6 DEF TimeInv, MasterInTime, InStep, InTime

LEMMA TimesyncInStep ==
    ASSUME TimeInv, TimesyncPhase
    PROVE  TimeInv'
<1>1. PICK deaf : TimesyncStep(deaf)
  BY DEF TimesyncPhase
<1>2. net' = net /\ tile' = tile + 1 /\ net \in Networks /\ tile \in Nat /\ TimesyncTile(net, tile)
  BY DEF TimesyncPhase, TimePasses, TimeInv
<1>3. Nodes' = Nodes /\ 0 \in Nodes
  BY <1>2, Configuration DEF Nodes
<1>4. PICK wave : wave = TimesyncWave(deaf)
  OBVIOUS
<1>5. \A n \in Nodes :
        /\ sync'[n] = AfterTimesync(wave, n)
        /\ uplink'[n] = IF Resyncs(wave, n)
                        THEN Resync(net, uplink[n], HopIn(wave, n), TimesyncCounter * TilesPerTimesync(net))
                        ELSE uplink[n]
  BY <1>1, <1>4 DEF TimesyncStep
<1>6. /\ NumTimesyncs(net, tile + 1) = NumTimesyncs(net, tile) + 1
      /\ NumTimesyncs(net, tile) = TimesyncCounter /\ NumTimesyncs(net, tile) \in Nat
      /\ TimesyncCounter * TilesPerTimesync(net) = tile
  BY <1>2, NextNumTimesyncs DEF TimesyncCounter
<1>7. AlignToNetworkTime(net, tile + 1) = AlignToNetworkTime(net, tile)
  BY <1>2, TimesyncIsDownlink, NextTurn
<1>8. \A n \in Nodes : "next" \in DOMAIN uplink'[n]
  BY <1>5 DEF TimeInv, Resync
<1>9. \A n \in Nodes : Resyncs(wave, n) => uplink'[n].next = AlignToNetworkTime(net, tile)
  BY <1>5, <1>6 DEF TimeInv, Resync
<1>10. \A n \in Nodes :
        /\ {"status", "counter"} \subseteq DOMAIN sync'[n]
        /\ Synchronized(sync'[n]) => /\ sync'[n].counter = TimesyncCounter
                                     /\ uplink'[n].next = AlignToNetworkTime(net, tile)
  <2> SUFFICES ASSUME NEW n \in Nodes
               PROVE  /\ {"status", "counter"} \subseteq DOMAIN sync'[n]
                      /\ Synchronized(sync'[n]) =>
                            /\ sync'[n].counter = TimesyncCounter
                            /\ uplink'[n].next = AlignToNetworkTime(net, tile)
    OBVIOUS
  <2>1. CASE Resyncs(wave, n)
    BY <1>5, <1>9, <2>1, AfterTimesyncClock
  <2>2. CASE ~Resyncs(wave, n)
    <3>1. ASSUME Synchronized(sync'[n])
          PROVE  sync[n].counter = TimesyncCounter - 1 /\ uplink[n].next = AlignToNetworkTime(net, tile)
      <4>1. Synchronized(sync[n])
        BY <1>5, <2>2, <3>1, AfterTimesyncClock
      <4> QED
        BY <1>6, <4>1 DEF TimeInv, MasterInTime, InStep, InTime
    <3> QED
      BY <1>5, <1>6, <2>2, <3>1, AfterTimesyncClock
  <2> QED
    BY <2>1, <2>2
<1>11. Synchronized(sync'[0])
  BY <1>3, <1>5, AfterTimesyncClock
<1>12. MasterInTime'
  BY <1>2, <1>3, <1>6, <1>7, <1>10, <1>11 DEF MasterInTime, Synchronized
<1>13. InStep'
  BY <1>3, <1>10, <1>11 DEF InStep, InTime, Synchronized
<1> QED
  BY <1>2, <1>3, <1>8, <1>10, <1>12, <1>13 DEF TimeInv

LEMMA UplinkInStep ==
    ASSUME TimeInv, UplinkPhaseStep
    PROVE  TimeInv'
<1>1. PICK messages, deaf, packets : UplinkStep(messages, deaf, packets)
  BY DEF UplinkPhaseStep
<1>2. net' = net /\ tile' = tile + 1 /\ net \in Networks /\ tile \in Nat /\ ~DownlinkTile(net, tile)
      /\ sync' = sync
  BY DEF UplinkPhaseStep, TimePasses, TimeInv
<1>3. Nodes' = Nodes /\ 0 \in Nodes
  BY <1>2, Configuration DEF Nodes
<1> DEFINE now == [n \in Nodes |-> PhaseAfter(messages, deaf, packets, n)]
<1>4. uplink' = [now EXCEPT ![0].topologyQueue = EmptyQueue, ![0].smeQueue = EmptyQueue]
  BY <1>1 DEF UplinkStep, MasterTakes
<1>5. \A n \in Nodes :
        /\ "next" \in DOMAIN PhaseAfter(messages, deaf, packets, n)
        /\ Synchronized(sync[n]) =>
              PhaseAfter(messages, deaf, packets, n).next = NodeAfter(net, uplink[n].next)
  <2> SUFFICES ASSUME NEW n \in Nodes
               PROVE  /\ "next" \in DOMAIN PhaseAfter(messages, deaf, packets, n)
                      /\ Synchronized(sync[n]) =>
                            PhaseAfter(messages, deaf, packets, n).next = NodeAfter(net, uplink[n].next)
    OBVIOUS
  <2>1. Turn(uplink[n], uplink[n].next)
    BY DEF TimeInv, Turn
  <2>2. CASE Synchronized(sync[n])
    <3>1. Turn(PhaseAfter(messages, deaf, packets, n), NodeAfter(net, uplink[n].next))
      BY <2>1, <2>2, PhaseAfterTurn
    <3> QED
      BY <3>1 DEF Turn
  <2>3. CASE ~Synchronized(sync[n])
    <3>1. n \notin Speakers /\ n \notin Hearers
      BY <2>3 DEF Speakers, Hearers, Operates, MacCanOperate, Synchronized
    <3>2. PhaseAfter(messages, deaf, packets, n) = uplink[n]
      BY <2>3, <3>1 DEF PhaseAfter
    <3> QED
      BY <2>1, <2>3, <3>2 DEF Turn
  <2> QED
    BY <2>2, <2>3
<1>6. \A n \in Nodes :
        /\ "next" \in DOMAIN uplink'[n]
        /\ uplink'[n].next = PhaseAfter(messages, deaf, packets, n).next
  BY <1>3, <1>4, <1>5
<1>7. AlignToNetworkTime(net, tile + 1) = NodeAfter(net, AlignToNetworkTime(net, tile))
  BY <1>2, NextTurn
<1>8. NumTimesyncs(net, tile + 1) = NumTimesyncs(net, tile)
  BY <1>2, NextNumTimesyncs, TimesyncIsDownlink
<1>9. \A n \in Nodes : Synchronized(sync[n]) =>
        /\ sync[n].counter = NumTimesyncs(net, tile) - 1
        /\ uplink'[n].next = AlignToNetworkTime(net, tile + 1)
  BY <1>5, <1>6, <1>7 DEF TimeInv, MasterInTime, InStep, InTime
<1>10. MasterInTime'
  BY <1>2, <1>3, <1>8, <1>9 DEF TimeInv, MasterInTime, Synchronized
<1>11. InStep'
  BY <1>2, <1>3, <1>9 DEF TimeInv, MasterInTime, InStep, InTime, Synchronized
<1> QED
  BY <1>2, <1>3, <1>6, <1>10, <1>11 DEF TimeInv

LEMMA DownlinkInStep ==
    ASSUME TimeInv, DownlinkPhase
    PROVE  TimeInv'
<1>1. net' = net /\ tile' = tile + 1 /\ net \in Networks /\ tile \in Nat
      /\ DownlinkTile(net, tile) /\ ~TimesyncTile(net, tile) /\ sync' = sync /\ uplink' = uplink
  BY DEF DownlinkPhase, TimePasses, TimeInv
<1>2. AlignToNetworkTime(net, tile + 1) = AlignToNetworkTime(net, tile)
      /\ NumTimesyncs(net, tile + 1) = NumTimesyncs(net, tile)
  BY <1>1, NextTurn, NextNumTimesyncs
<1> QED
  BY <1>1, <1>2 DEF TimeInv, MasterInTime, InStep, InTime, Nodes, Synchronized

\* Everything else takes no time and leaves clocks and turns alone.
LEMMA OtherStepsTakeNoTime ==
    ASSUME [Next]_vars, ~TimesyncPhase, ~DownlinkPhase, ~UplinkPhaseStep
    PROVE  UNCHANGED <<net, tile, nodeVars, md>>
<1>1. CASE Scheduler
  BY <1>1 DEF Scheduler, SchedWake, SchedSnapshot, SchedGraph, SchedWriteBack, SchedCompute,
              SchedPublish, SchedOnly
<1>2. CASE Connect
  BY <1>2 DEF Connect
<1>3. CASE LinksChange
  BY <1>3 DEF LinksChange
<1>4. CASE RateChanges
  BY <1>4 DEF RateChanges
<1>5. CASE UNCHANGED vars
  BY <1>5 DEF vars
<1> QED
  BY <1>1, <1>2, <1>3, <1>4, <1>5 DEF Next

LEMMA TimeInvNext == TimeInv /\ [Next]_vars => TimeInv'
<1> SUFFICES ASSUME TimeInv, [Next]_vars PROVE TimeInv'
  OBVIOUS
<1>1. CASE ~TimesyncPhase /\ ~DownlinkPhase /\ ~UplinkPhaseStep
  BY <1>1, OtherStepsTakeNoTime
     DEF TimeInv, MasterInTime, InStep, InTime, Nodes, Synchronized, nodeVars
<1> QED
  BY <1>1, TimesyncInStep, DownlinkInStep, UplinkInStep

\* The nodes that have the time agree with the master on the number of the last
\* timesync and on whose turn is next: for every network, superframe and clock
\* synchronization period, whatever is lost and however the clocks run.
THEOREM InStepTheorem == Spec => []InStep
<1>1. Spec => []TimeInv
  BY TimeInvInit, TimeInvNext, PTL DEF Spec
<1>2. TimeInv => InStep
  BY DEF TimeInv
<1> QED
  BY <1>1, <1>2, PTL


(***************************************************************************)
(* What a schedule downlink carries: the header as it was put, and pieces  *)
(* of the schedule in their order.                                         *)
(***************************************************************************)
LEMMA SerializedHeader ==
    ASSUME NEW c, NEW header, NEW E, NEW elements \in Seq(E)
    PROVE  Deserialize(Serialize(c, header, elements)).header = header
<1> DEFINE pan == PutPanHeader(EmptyPacket, c.panId)
           headed == Put(pan, header, HeaderSize)
           rest == [i \in DOMAIN elements |-> [value |-> elements[i], bytes |-> ElementSize]]
           pkt == PutAll(headed, elements, ElementSize)
           first == [value |-> PanHeader(c.panId), bytes |-> panHeaderSize]
           second == [value |-> header, bytes |-> HeaderSize]
           V == [value : E \cup {PanHeader(c.panId), header}, bytes : {panHeaderSize, HeaderSize, ElementSize}]
<1>1. pan.items = <<first>> /\ {"items", "dataSize", "dataStart"} \subseteq DOMAIN pan
  BY DEF PutPanHeader, Put, EmptyPacket
<1> HIDE DEF pan
<1>2. headed.items = Append(<<first>>, second) /\ {"items", "dataSize", "dataStart"} \subseteq DOMAIN headed
  BY <1>1 DEF Put
<1> HIDE DEF headed
<1>3. first \in V /\ second \in V
  OBVIOUS
<1>4. rest \in Seq(V)
  <2>1. \A i \in DOMAIN elements : rest[i] \in V
    OBVIOUS
  <2> HIDE DEF V
  <2>2. DOMAIN elements = 1..Len(elements) /\ Len(elements) \in Nat
    OBVIOUS
  <2> QED
    BY <2>1, <2>2
<1> HIDE DEF first, second, rest, V
<1>5. pkt.items = Append(<<first>>, second) \o rest /\ {"items", "dataSize", "dataStart"} \subseteq DOMAIN pkt
  BY <1>2 DEF PutAll, rest
<1> HIDE DEF pkt
<1>6. Tail(pkt.items)[1] = second
  BY <1>3, <1>4, <1>5
<1>7. Get(RemovePanHeader(pkt)) = header
  BY <1>5, <1>6 DEF RemovePanHeader, Gone, Get, second
<1> QED
  BY <1>7 DEF Deserialize, Serialize, pkt, headed, pan

LEMMA PieceOfSchedule ==
    ASSUME NEW c, c.maxPktSize \in Nat, NEW S, NEW m, m.schedule \in Seq(S), m.position \in Nat
    PROVE  NextElements(c, m) \in Seq(S)
<1> DEFINE capacity == GetPacketCapacity(c)
           end == m.position + capacity
           last == IF end < Len(m.schedule) THEN end ELSE Len(m.schedule)
<1>1. capacity \in Int
  BY DEF GetPacketCapacity, panHeaderSize, HeaderSize, ElementSize
<1> HIDE DEF capacity
<1>2. last \in Int /\ last <= Len(m.schedule)
  BY <1>1
<1>3. NextElements(c, m) = SubSeq(m.schedule, m.position + 1, last)
  BY DEF NextElements, capacity
<1> HIDE DEF last
<1>4. PICK s \in Seq(S), p \in Nat : s = m.schedule /\ p = m.position
  OBVIOUS
<1>5. \A i \in (p + 1)..last : s[i] \in S
  <2>1. \A i \in (p + 1)..last : i \in 1..Len(s)
    BY <1>2, <1>4
  <2> QED
    BY <1>4, <2>1
<1>6. SubSeq(s, p + 1, last) \in Seq(S)
  BY <1>2, <1>4, <1>5
<1> QED
  BY <1>3, <1>4, <1>6

LEMMA PacketHeader ==
    ASSUME NEW c, c.maxPktSize \in Nat, NEW S, NEW m, m.schedule \in Seq(S), m.position \in Nat,
           NEW I, NEW infos \in Seq(I)
    PROVE  Deserialize(SchedulePacket(c, m, infos)).header =
                IF Sending(m) THEN m.header ELSE ScheduleHeader(0, 0, m.header.id, 0, 0, 0)
<1> DEFINE piece == NextElements(c, m)
<1>1. piece \in Seq(S)
  BY PieceOfSchedule
<1> HIDE DEF piece
<1>2. piece \o infos \in Seq(S \cup I)
  BY <1>1
<1>3. Deserialize(Serialize(c, m.header, piece \o infos)).header = m.header
  <2>1. PICK E, e : E = S \cup I /\ e = piece \o infos
    OBVIOUS
  <2>2. e \in Seq(E)
    BY <1>2, <2>1
  <2>3. Deserialize(Serialize(c, m.header, e)).header = m.header
    BY <2>2, SerializedHeader
  <2> QED
    BY <2>1, <2>3
<1>4. Deserialize(Serialize(c, ScheduleHeader(0, 0, m.header.id, 0, 0, 0), infos)).header
        = ScheduleHeader(0, 0, m.header.id, 0, 0, 0)
  BY SerializedHeader
<1> QED
  BY <1>3, <1>4 DEF SchedulePacket, piece

\* A packet of information alone is none of a schedule.
LEMMA NoSchedulePacket ==
    ASSUME NEW id PROVE ~IsSchedulePacket(ScheduleHeader(0, 0, id, 0, 0, 0))
<1>1. 0 % 2^16 = 0
  OBVIOUS
<1> QED
  BY <1>1 DEF IsSchedulePacket, ScheduleHeader

-----------------------------------------------------------------------------
(***************************************************************************)
(* Schedules are sequences of transmissions, notices are queued.           *)
(***************************************************************************)
LEMMA StreamsOfNetwork ==
    ASSUME NEW c \in Networks
    PROVE  /\ c.maxPktSize \in Nat /\ c.maxNodes \in Nat /\ c.streams \in Seq(Streams(c))
           /\ \A s \in Streams(c) : s.src \in NodeIds(c) /\ s.dst \in NodeIds(c) /\ s.redundancy \in Redundancies
<1>1. c.maxPktSize \in Nat /\ c.maxNodes \in Nat /\ c.streams \in Seq(Streams(c))
  BY ConfigurationAssumption
<1> QED
  BY <1>1 DEF Streams

LEMMA ScheduleTyped ==
    ASSUME net \in Networks, NEW ids, NEW g
    PROVE  Schedule(ids, g) \in Seq(AllTransmissions(net))
<1> DEFINE T == Transmissions(net, g, Streams(net))
<1>1. Schedule(ids, g) \in Seq(T)
  BY StreamsOfNetwork, TransmissionsFollowLinks DEF Schedule
<1>2. T \subseteq AllTransmissions(net)
  BY DEF Transmissions, AllTransmissions
<1> HIDE DEF T
<1> QED
  BY <1>1, <1>2

LEMMA EnqueueIn ==
    ASSUME NEW T, NEW q \in Seq(T), NEW k, NEW v, [key |-> k, val |-> v] \in T
    PROVE  Enqueue(q, k, v) \in Seq(T)
<1>1. ReplaceVal(q, k, v) \in Seq(T)
  <2>1. \A i \in 1..Len(q) : q[i] \in T
    OBVIOUS
  <2> DEFINE e == [key |-> k, val |-> v]
  <2>2. ReplaceVal(q, k, v) = [i \in 1..Len(q) |-> IF q[i].key = k THEN e ELSE q[i]]
    BY DEF ReplaceVal
  <2>3. e \in T
    OBVIOUS
  <2> HIDE DEF e
  <2> QED
    BY <2>1, <2>2, <2>3
<1>2. Append(q, [key |-> k, val |-> v]) \in Seq(T)
  OBVIOUS
<1> QED
  BY <1>1, <1>2 DEF Enqueue

LEMMA RejectedIn ==
    ASSUME net \in Networks, NEW ids, coll.infos \in Seq(Notices(net))
    PROVE  Rejected(ids) \in Seq(Notices(net))
<1> DEFINE N == Len(net.streams)
           S == Seq(Notices(net))
           s == coll.infos
           id(k) == net.streams[k].id
           Tell(q, k) == IF id(k) \in ids THEN Enqueue(q, id(k), [id |-> id(k), type |-> "STREAM_REJECT"]) ELSE q
           Is(after) == after = [k \in 0..N |->
                IF k = 0 THEN s
                ELSE IF net.streams[k].id \in ids
                     THEN Enqueue(after[k - 1], net.streams[k].id, [id |-> net.streams[k].id, type |-> "STREAM_REJECT"])
                     ELSE after[k - 1]]
           step == [x \in S \X (1..N) |-> Tell(x[1], x[2])]
           f == CHOOSE after : Is(after)
<1>1. N \in Nat /\ \A k \in 1..N : net.streams[k] \in Streams(net)
  BY StreamsOfNetwork
<1>2. \A q \in S, k \in 1..N : Tell(q, k) \in S
  <2> SUFFICES ASSUME NEW q \in S, NEW k \in 1..N PROVE Tell(q, k) \in S
    OBVIOUS
  <2>1. [key |-> id(k), val |-> [id |-> id(k), type |-> "STREAM_REJECT"]] \in Notices(net)
    BY <1>1 DEF Notices
  <2> HIDE DEF id
  <2>2. Enqueue(q, id(k), [id |-> id(k), type |-> "STREAM_REJECT"]) \in S
    BY <2>1, EnqueueIn
  <2> QED
    BY <2>2
<1>3. Rejected(ids) = f[N]
  BY DEF Rejected
<1> HIDE DEF S, s, N
<1>4. s \in S /\ step \in [S \X (1..N) -> S]
  <2> HIDE DEF Tell
  <2> QED
    BY <1>2 DEF S, s
<1>5. \E after : Is(after)
  <2>1. PICK h : IsIteration(h, N, S, s, step)
    <3> HIDE DEF step
    <3> QED
      BY <1>1, <1>4, IterationExists
  <2>2. \A n \in 1..N : n - 1 \in 0..N /\ n \in 0..N
    BY <1>1
  <2>3. \A n \in 1..N : h[n] = Tell(h[n - 1], n)
    <3> HIDE DEF Tell
    <3> QED
      BY <2>1, <2>2 DEF IsIteration
  <2>4. Is(h)
    BY <2>1, <2>3 DEF IsIteration
  <2> QED
    BY <2>4
<1>6. Is(f)
  <2> HIDE DEF Is
  <2> QED
    BY <1>5
<1>7. f[0] = s /\ \A n \in 1..N : f[n] = Tell(f[n - 1], n)
  <2> HIDE DEF f
  <2>1. \A n \in 1..N : n \in 0..N /\ n # 0
    BY <1>1
  <2>2. 0 \in 0..N
    BY <1>1
  <2> QED
    BY <1>6, <2>1, <2>2
<1> HIDE DEF f, step, Is, Tell
<1>8. \A n \in 0..N : f[n] \in S
  <2>1. \A n \in 1..N : f[n - 1] \in S => f[n] \in S
    BY <1>2, <1>7
  <2> QED
    BY <1>1, <1>4, <1>7, <2>1, IterationStays, Zenon
<1>9. N \in 0..N
  BY <1>1
<1> QED
  BY <1>3, <1>8, <1>9 DEF S


LEMMA TypesInit == Init => DistributionTypes
<1> SUFFICES ASSUME Init PROVE DistributionTypes
  OBVIOUS
<1>1. published.schedule = <<>> /\ "schedule" \in DOMAIN published /\ sch.pc # "publish" /\ "pc" \in DOMAIN sch
      /\ coll.infos = <<>> /\ "infos" \in DOMAIN coll
  BY DEF Init, EmptyQueue
<1>2. /\ {"status", "header", "schedule", "position"} \subseteq DOMAIN md /\ md.schedule = <<>> /\ md.position = 0
      /\ {"id", "activation", "current", "repetition"} \subseteq DOMAIN md.header
  BY DEF Init, MasterDistribution, NoHeader, ScheduleHeader
<1>3. \A n \in Nodes : {"id", "pos"} \subseteq DOMAIN data[n]
  BY DEF Init, PlaysNothing
<1>4. \A n \in Dynamic : NodeFields(dist[n])
  BY DEF Init, NodeDistribution, NodeFields
<1> QED
  BY <1>1, <1>2, <1>3, <1>4
     DEF DistributionTypes, PublishedTyped, SchedulerTyped, InfosTyped, MasterTyped, MasterFields, NodesTyped, NodeFields

LEMMA AdvancedTyped ==
    ASSUME NEW d, {"id", "pos"} \subseteq DOMAIN d
    PROVE  {"id", "pos"} \subseteq DOMAIN Advanced(d, 1) /\ Advanced(d, 1).id = d.id
  BY DEF Advanced

LEMMA TimesyncTyped ==
    ASSUME net \in Networks, DistributionTypes, TimesyncPhase
    PROVE  DistributionTypes'
<1>1. PICK deaf : TimesyncStep(deaf)
  BY DEF TimesyncPhase
<1>2. UNCHANGED <<net, md, published, sch, coll>>
  BY DEF TimesyncPhase, schedVars
<1>3. PICK wave : wave = TimesyncWave(deaf)
  OBVIOUS
<1>4. \A n \in Nodes : data'[n] = IF Resyncs(wave, n) THEN PlaysNothing ELSE Advanced(data[n], 1)
  BY <1>1, <1>3 DEF TimesyncStep
<1>5. \A n \in Dynamic : dist'[n] \in {NodeDistribution, dist[n]}
  BY <1>1 DEF TimesyncStep
<1>6. NodesTyped'
  <2>1. \A n \in Nodes : {"id", "pos"} \subseteq DOMAIN data'[n]
    <3>1. \A n \in Nodes : {"id", "pos"} \subseteq DOMAIN data[n]
      BY DEF DistributionTypes, NodesTyped
    <3>2. {"id", "pos"} \subseteq DOMAIN PlaysNothing
      BY DEF PlaysNothing
    <3> QED
      BY <1>4, <3>1, <3>2, AdvancedTyped
  <2>2. \A n \in Dynamic : NodeFields(dist'[n])
    BY <1>5 DEF DistributionTypes, NodesTyped, NodeFields, NodeDistribution
  <2> QED
    BY <1>2, <2>1, <2>2 DEF NodesTyped, Nodes, Dynamic
<1> QED
  BY <1>2, <1>6 DEF DistributionTypes, PublishedTyped, SchedulerTyped, InfosTyped, MasterTyped

LEMMA UplinkTyped ==
    ASSUME net \in Networks, DistributionTypes, UplinkPhaseStep
    PROVE  DistributionTypes'
<1>1. PICK messages, deaf, packets : UplinkStep(messages, deaf, packets)
  BY DEF UplinkPhaseStep
<1>2. UNCHANGED <<net, md, published, sch, dist>>
  BY DEF UplinkPhaseStep
<1>3. \A n \in Nodes : data'[n] = Advanced(data[n], 1)
  BY <1>1 DEF UplinkStep
<1>4. NodesTyped'
  <2>1. \A n \in Nodes : {"id", "pos"} \subseteq DOMAIN data'[n]
    BY <1>3, AdvancedTyped DEF DistributionTypes, NodesTyped
  <2> QED
    BY <1>2, <2>1 DEF DistributionTypes, NodesTyped, Nodes, Dynamic
<1>5. InfosTyped'
  <2>1. PICK resend : coll' = [coll EXCEPT !.resend = resend]
    BY <1>1 DEF UplinkStep, MasterTakes
  <2> QED
    BY <1>2, <2>1 DEF DistributionTypes, InfosTyped
<1> QED
  BY <1>2, <1>4, <1>5 DEF DistributionTypes, PublishedTyped, SchedulerTyped, MasterTyped


LEMMA PacketSentKeeps ==
    ASSUME NEW c \in Networks, NEW m, MasterFields(c, m)
    PROVE  /\ MasterFields(c, PacketSent(c, m)) /\ PacketSent(c, m).status = m.status
           /\ PacketSent(c, m).header.id = m.header.id
           /\ PacketSent(c, m).header.activation = m.header.activation
<1> DEFINE count == Len(NextElements(c, m))
           next == IncrementPacketCounter(m.header)
           sent == [m EXCEPT !.position = @ + count, !.header = next]
           first == [sent.header EXCEPT !.current = 0]
           again == [sent EXCEPT !.position = 0, !.header = IncrementRepetition(first)]
<1>1. count \in Nat
  <2>1. NextElements(c, m) \in Seq(AllTransmissions(c))
    BY StreamsOfNetwork, PieceOfSchedule DEF MasterFields
  <2> QED
    BY <2>1
<1>2. {"id", "activation", "current", "repetition"} \subseteq DOMAIN next
      /\ next.id = m.header.id /\ next.activation = m.header.activation
  BY DEF MasterFields, IncrementPacketCounter
<1>3. PacketSent(c, m) = IF sent.header.current < sent.header.total THEN sent ELSE again
  BY DEF PacketSent, MasterFields
<1> HIDE DEF count, next
<1>4. /\ MasterFields(c, sent) /\ sent.status = m.status /\ sent.header = next
  BY <1>1, <1>2 DEF MasterFields
<1> HIDE DEF sent
<1>5. {"id", "activation", "current", "repetition"} \subseteq DOMAIN IncrementRepetition(first)
      /\ IncrementRepetition(first).id = next.id /\ IncrementRepetition(first).activation = next.activation
  BY <1>2, <1>4 DEF IncrementRepetition
<1> HIDE DEF first
<1>6. /\ MasterFields(c, again) /\ again.status = m.status /\ again.header = IncrementRepetition(first)
  BY <1>4, <1>5 DEF MasterFields
<1> HIDE DEF again
<1> QED
  BY <1>2, <1>3, <1>4, <1>5, <1>6

LEMMA MasterExecuteKeeps ==
    ASSUME NEW c \in Networks, NEW m, MasterFields(c, m), NEW p, p.schedule \in Seq(AllTransmissions(c)), NEW t
    PROVE  /\ MasterFields(c, MasterExecute(c, m, p, t))
           /\ m.status # "APPLIED_SCHEDULE" =>
                /\ MasterExecute(c, m, p, t).header.id = m.header.id
                /\ MasterExecute(c, m, p, t).header.activation = m.header.activation
                /\ MasterExecute(c, m, p, t).status = "APPLIED_SCHEDULE" => MasterActivates(m, t)
           /\ Sending(m) => MasterExecute(c, m, p, t).status = "SENDING_SCHEDULE"
<1> DEFINE new == GetScheduleAndComputeActivation(c, m, GetSchedule(p), t)
           activated == [m EXCEPT !.status = "APPLIED_SCHEDULE"]
           waiting == [m EXCEPT !.status = "AWAITING_ACTIVATION"]
<1>1. MasterFields(c, new)
  BY DEF MasterFields, GetScheduleAndComputeActivation, GetSchedule, NewHeader, ScheduleHeader
<1>2. /\ MasterFields(c, activated) /\ activated.header = m.header
      /\ MasterFields(c, waiting) /\ waiting.header = m.header /\ waiting.status = "AWAITING_ACTIVATION"
  BY DEF MasterFields
<1> HIDE DEF new, activated, waiting
<1>3. CASE m.status = "APPLIED_SCHEDULE"
  <2>1. ~Sending(m) /\ ~MasterActivates(m, t)
    BY <1>3 DEF Sending, MasterActivates
  <2>2. MasterExecute(c, m, p, t) \in {m, new}
    BY <1>3, <2>1 DEF MasterExecute, new
  <2> QED
    BY <1>1, <1>3, <2>1, <2>2
<1>4. CASE m.status # "APPLIED_SCHEDULE" /\ Sending(m)
  <2>1. MasterExecute(c, m, p, t) = PacketSent(c, m)
    BY <1>4 DEF MasterExecute, MasterActivates
  <2>2. m.status = "SENDING_SCHEDULE"
    BY <1>4 DEF Sending
  <2> QED
    BY <1>4, <2>1, <2>2, PacketSentKeeps
<1>5. CASE m.status # "APPLIED_SCHEDULE" /\ ~Sending(m) /\ MasterActivates(m, t)
  <2>1. MasterExecute(c, m, p, t) = activated
    BY <1>5 DEF MasterExecute, activated
  <2> QED
    BY <1>2, <1>5, <2>1
<1>6. CASE m.status # "APPLIED_SCHEDULE" /\ ~Sending(m) /\ ~MasterActivates(m, t)
  <2>1. MasterExecute(c, m, p, t) = waiting
    BY <1>6 DEF MasterExecute, waiting
  <2> QED
    BY <1>2, <1>6, <2>1
<1> QED
  BY <1>3, <1>4, <1>5, <1>6


\* What a node makes of a packet, of silence and of the tile of activation.
LEMMA HearsNothingKeeps ==
    ASSUME NEW c, NEW d, NodeFields(d)
    PROVE  /\ NodeFields(NodeHearsNothing(c, d)) /\ NodeHearsNothing(c, d).status = d.status
           /\ NodeHearsNothing(c, d).header = d.header
  BY DEF NodeFields, NodeHearsNothing

LEMMA ReceivesKeeps ==
    ASSUME NEW c, NEW d, NodeFields(d), NEW pkt, {"header", "elements"} \subseteq DOMAIN pkt
    PROVE  /\ NodeFields(NodeReceives(c, d, pkt))
           /\ ~IsSchedulePacket(pkt.header) =>
                NodeReceives(c, d, pkt).status = d.status /\ NodeReceives(c, d, pkt).header = d.header
           /\ IsSchedulePacket(pkt.header) /\ pkt.header.id # d.header.id =>
                NodeReceives(c, d, pkt).status = "SENDING_SCHEDULE" /\ NodeReceives(c, d, pkt).header = pkt.header
           /\ IsSchedulePacket(pkt.header) /\ pkt.header.id = d.header.id =>
                /\ NodeReceives(c, d, pkt).status = d.status
                /\ NodeReceives(c, d, pkt).header.id = d.header.id
                /\ NodeReceives(c, d, pkt).header.activation = d.header.activation
<1> DEFINE plain == WithoutInfo(pkt)
           started == InitSchedule(d, plain)
           continued == AppendToSchedule(d, plain)
<1>1. plain.header = pkt.header
  BY DEF WithoutInfo
<1> HIDE DEF plain
<1>2. NodeFields(started) /\ started.status = "SENDING_SCHEDULE" /\ started.header = pkt.header
  BY <1>1 DEF NodeFields, InitSchedule
<1>3. /\ NodeFields(continued) /\ continued.status = d.status
      /\ pkt.header.id = d.header.id => continued.header.id = d.header.id
      /\ continued.header.activation = d.header.activation
  BY <1>1 DEF NodeFields, AppendToSchedule, SameSchedule
<1> HIDE DEF started, continued
<1>4. NodeReceives(c, d, pkt) =
        IF ~IsSchedulePacket(pkt.header) THEN NodeHearsNothing(c, d)
        ELSE IF pkt.header.id # d.header.id THEN started
        ELSE IF d.status = "SENDING_SCHEDULE" THEN continued ELSE d
  BY DEF NodeReceives, started, continued, plain
<1> QED
  BY <1>2, <1>3, <1>4, HearsNothingKeeps

LEMMA ActivationKeeps ==
    ASSUME NEW d, NodeFields(d), NEW t
    PROVE  /\ NodeFields(AfterActivation(d))
           /\ IsScheduleComplete(d) => /\ AfterActivation(d).status = "APPLIED_SCHEDULE"
                                       /\ AfterActivation(d).header = d.header
                                       /\ PlaysAfterActivation(d, t).id = d.header.id
           /\ ~IsScheduleComplete(d) => /\ AfterActivation(d).status = "INCOMPLETE_SCHEDULE"
                                        /\ PlaysAfterActivation(d, t).id = 0
           /\ {"id", "pos"} \subseteq DOMAIN PlaysAfterActivation(d, t)
<1>1. /\ Play(d.header, d.schedule, t).id = d.header.id
      /\ {"id", "pos"} \subseteq DOMAIN Play(d.header, d.schedule, t)
  BY DEF Play, Advanced
<1>2. PlaysNothing.id = 0 /\ {"id", "pos"} \subseteq DOMAIN PlaysNothing
  BY DEF PlaysNothing
<1>3. /\ NodeFields(AfterActivation(d))
      /\ IsScheduleComplete(d) => /\ AfterActivation(d).status = "APPLIED_SCHEDULE"
                                  /\ AfterActivation(d).header = d.header
      /\ ~IsScheduleComplete(d) => AfterActivation(d).status = "INCOMPLETE_SCHEDULE"
  BY DEF AfterActivation, NodeFields, NodeDistribution
<1> QED
  BY <1>1, <1>2, <1>3 DEF PlaysAfterActivation

(***************************************************************************)
(* A schedule downlink, and what it changes at the nodes.                  *)
(***************************************************************************)
LEMMA InfosTypedNow ==
    ASSUME net \in Networks, DistributionTypes
    PROVE  \E I : InfosNow \in Seq(I)
<1> DEFINE capacity == GetPacketCapacity(net)
           piece == NextElements(net, md)
           count == Infos(net, md, published, NodeTile(0), coll.infos)
           k == IF count >= Len(coll.infos) THEN Len(coll.infos) ELSE count
           vals == OldestVals(coll.infos, count)
           I == {InfoElement(vals[i].id, vals[i].type) : i \in DOMAIN vals}
<1>1. capacity \in Int /\ Len(piece) \in Int /\ Len(coll.infos) \in Nat
  <2>1. piece \in Seq(AllTransmissions(net))
    BY StreamsOfNetwork, PieceOfSchedule DEF DistributionTypes, MasterTyped, MasterFields
  <2>2. coll.infos \in Seq(Notices(net))
    BY DEF DistributionTypes, InfosTyped
  <2>3. capacity \in Int
    BY StreamsOfNetwork DEF GetPacketCapacity, panHeaderSize, HeaderSize, ElementSize
  <2> HIDE DEF piece, capacity
  <2> QED
    BY <2>1, <2>2, <2>3
<1> HIDE DEF capacity, piece
<1>2. count \in Int
  BY <1>1 DEF Infos, capacity, piece
<1> HIDE DEF count
<1>3. k \in Int /\ DOMAIN vals = 1..k
  BY <1>1, <1>2 DEF OldestVals
<1>4. InfosNow = [i \in DOMAIN vals |-> InfoElement(vals[i].id, vals[i].type)]
  BY DEF InfosNow, count
<1>5. \E n \in Nat : 1..k = 1..n
  <2>1. CASE k < 0
    BY <1>3, <2>1
  <2>2. CASE k >= 0
    BY <1>3, <2>2
  <2> QED
    BY <1>3, <2>1, <2>2
<1> HIDE DEF k, vals
<1>6. PICK n \in Nat : DOMAIN vals = 1..n
  BY <1>3, <1>5
<1>7. InfosNow \in Seq(I)
  BY <1>4, <1>6
<1> QED
  BY <1>7


LEMMA OnePacketOnAir ==
    ASSUME net \in Networks, DistributionTypes, DownlinkPhase
    PROVE  \E pkt, got : /\ {"header", "elements"} \subseteq DOMAIN pkt
                         /\ IsSchedulePacket(pkt.header) => Sending(md) /\ pkt.header = md.header
                         /\ got \subseteq Listening /\ DownlinkStep(pkt, got)
<1> DEFINE air == SchedulePacket(net, md, InfosNow)
           reached == IF OnAir /\ CheckPanHeader(air, net.panId) THEN Flood(Listening) ELSE {}
           pkt == Deserialize(air)
<1>1. PICK deaf \in SUBSET reached : DownlinkStep(pkt, Flood(Listening \ deaf) \cap reached)
  BY DEF DownlinkPhase
<1>2. Flood(Listening) \subseteq Listening
  BY DEF Flood
<1>3. Flood(Listening \ deaf) \cap reached \subseteq Listening
  BY <1>2
<1>4. {"header", "elements"} \subseteq DOMAIN pkt
  BY DEF Deserialize
<1>5. IsSchedulePacket(pkt.header) => Sending(md) /\ pkt.header = md.header
  <2>1. PICK I : InfosNow \in Seq(I)
    BY InfosTypedNow
  <2>2. md.schedule \in Seq(AllTransmissions(net)) /\ md.position \in Nat /\ net.maxPktSize \in Nat
    BY StreamsOfNetwork DEF DistributionTypes, MasterTyped, MasterFields
  <2>3. pkt.header = IF Sending(md) THEN md.header ELSE ScheduleHeader(0, 0, md.header.id, 0, 0, 0)
    BY <2>1, <2>2, PacketHeader
  <2> HIDE DEF pkt
  <2> QED
    BY <2>3, NoSchedulePacket
<1> HIDE DEF pkt, reached
<1> QED
  BY <1>1, <1>3, <1>4, <1>5

LEMMA NodeInDownlink ==
    ASSUME NEW pkt, NEW got, got \subseteq Listening, DownlinkStep(pkt, got), NEW n \in Dynamic
    PROVE  /\ Activating(n) => /\ dist'[n] = AfterActivation(dist[n]) /\ heard'[n] = heard[n]
                               /\ data'[n] = Advanced(PlaysAfterActivation(dist[n], NodeTile(n)), 1)
           /\ ~Activating(n) => data'[n] = Advanced(data[n], 1)
           /\ n \in got => ~Activating(n) /\ dist'[n] = NodeReceives(net, dist[n], pkt)
                           /\ heard'[n] = IF IsSchedulePacket(pkt.header) THEN pkt.header.id ELSE heard[n]
           /\ ~Activating(n) /\ n \notin got =>
                /\ dist'[n] \in {dist[n], NodeHearsNothing(net, dist[n])} /\ heard'[n] = heard[n]
<1>1. n \in Nodes /\ n # 0
  BY DEF Dynamic
<1>2. n \in got => ~Activating(n)
  BY DEF Listening
<1>3. Activating(n) => n \notin Listening
  BY DEF Listening
<1>4. dist'[n] = CASE Activating(n) -> AfterActivation(dist[n])
                   [] n \in got -> NodeReceives(net, dist[n], pkt)
                   [] n \in Listening \ got -> NodeHearsNothing(net, dist[n])
                   [] OTHER -> dist[n]
  BY DEF DownlinkStep
<1>5. data'[n] = Advanced(IF Activating(n) THEN PlaysAfterActivation(dist[n], NodeTile(n)) ELSE data[n], 1)
  BY <1>1 DEF DownlinkStep
<1>6. heard'[n] = IF n \in got /\ IsSchedulePacket(pkt.header) THEN pkt.header.id ELSE heard[n]
  BY <1>1 DEF DownlinkStep
<1> QED
  BY <1>2, <1>3, <1>4, <1>5, <1>6

LEMMA DownlinkTyped ==
    ASSUME net \in Networks, DistributionTypes, DownlinkPhase
    PROVE  DistributionTypes'
<1>1. PICK pkt, got : /\ {"header", "elements"} \subseteq DOMAIN pkt
                      /\ got \subseteq Listening /\ DownlinkStep(pkt, got)
  BY OnePacketOnAir
<1>2. UNCHANGED <<net, sch>> /\ coll' = [coll EXCEPT !.infos = DequeueMany(@, Len(InfosNow))]
  BY DEF DownlinkPhase
<1>3. MasterTyped'
  <2>1. md' = MasterExecute(net, md, published, NodeTile(0))
    BY <1>1 DEF DownlinkStep
  <2>2. MasterFields(net, md')
    BY <2>1, MasterExecuteKeeps DEF DistributionTypes, MasterTyped, PublishedTyped
  <2> QED
    BY <1>2, <2>2 DEF MasterTyped
<1>4. PublishedTyped'
  <2>1. published' \in {published, ScheduleSentAndApplied(published)}
    BY <1>1 DEF DownlinkStep
  <2> QED
    BY <1>2, <2>1 DEF DistributionTypes, PublishedTyped, ScheduleSentAndApplied
<1>5. InfosTyped'
  <2>1. PICK I : InfosNow \in Seq(I)
    BY InfosTypedNow
  <2>2. PICK q, k : q = coll.infos /\ k = Len(InfosNow)
    OBVIOUS
  <2>3. q \in Seq(Notices(net)) /\ k \in Nat /\ "infos" \in DOMAIN coll
    BY <2>1, <2>2 DEF DistributionTypes, InfosTyped
  <2>4. DequeueMany(q, k) \in Seq(Notices(net))
    BY <2>3 DEF DequeueMany, EmptyQueue
  <2> QED
    BY <1>2, <2>2, <2>3, <2>4 DEF InfosTyped
<1>6. NodesTyped'
  <2>1. ASSUME NEW n \in Dynamic PROVE NodeFields(dist'[n]) /\ {"id", "pos"} \subseteq DOMAIN data'[n]
    <3>1. NodeFields(dist[n]) /\ {"id", "pos"} \subseteq DOMAIN data[n]
      BY DEF DistributionTypes, NodesTyped, Dynamic
    <3>2. CASE Activating(n)
      BY <1>1, <3>1, <3>2, NodeInDownlink, ActivationKeeps, AdvancedTyped
    <3>3. CASE ~Activating(n)
      <4>1. {"id", "pos"} \subseteq DOMAIN data'[n]
        BY <1>1, <3>1, <3>3, NodeInDownlink, AdvancedTyped
      <4>2. dist'[n] \in {dist[n], NodeHearsNothing(net, dist[n]), NodeReceives(net, dist[n], pkt)}
        BY <1>1, <3>3, NodeInDownlink
      <4> QED
        BY <1>1, <3>1, <4>1, <4>2, HearsNothingKeeps, ReceivesKeeps
    <3> QED
      BY <3>2, <3>3
  <2>2. ASSUME 0 \in Nodes PROVE {"id", "pos"} \subseteq DOMAIN data'[0]
    <3>1. {"id", "pos"} \subseteq DOMAIN data[0]
      BY <2>2 DEF DistributionTypes, NodesTyped
    <3>2. \/ data'[0] = Advanced(data[0], 1)
          \/ data'[0] = Advanced(Play(md.header, md.schedule, NodeTile(0)), 1)
      BY <1>1, <2>2 DEF DownlinkStep
    <3>3. {"id", "pos"} \subseteq DOMAIN Play(md.header, md.schedule, NodeTile(0))
      BY DEF Play, Advanced
    <3> QED
      BY <3>1, <3>2, <3>3, AdvancedTyped
  <2> QED
    BY <1>2, <2>1, <2>2 DEF NodesTyped, Nodes, Dynamic
<1> QED
  BY <1>2, <1>3, <1>4, <1>5, <1>6 DEF DistributionTypes, SchedulerTyped


LEMMA SchedulerKeepsTypes ==
    ASSUME net \in Networks, DistributionTypes, Scheduler
    PROVE  DistributionTypes'
<1>1. UNCHANGED <<net, data, dist, md>>
  BY DEF Scheduler, SchedWake, SchedSnapshot, SchedGraph, SchedWriteBack, SchedCompute, SchedPublish,
         SchedOnly, nodeVars
<1>2. MasterTyped' /\ NodesTyped'
  BY <1>1 DEF DistributionTypes, MasterTyped, NodesTyped, Nodes, Dynamic
<1> USE DEF DistributionTypes
<1>3. ASSUME UNCHANGED published PROVE PublishedTyped'
  BY <1>1, <1>3 DEF PublishedTyped
<1>4. ASSUME NEW applied, published' = [published EXCEPT !.notApplied = applied] PROVE PublishedTyped'
  BY <1>1, <1>4 DEF PublishedTyped
<1>5. ASSUME "pc" \in DOMAIN sch', sch'.pc # "publish" PROVE SchedulerTyped'
  BY <1>5 DEF SchedulerTyped
<1>6. ASSUME UNCHANGED coll PROVE InfosTyped'
  BY <1>1, <1>6 DEF InfosTyped
<1>7. CASE SchedWake
  <2>1. InfosTyped'
    BY <1>1, <1>7 DEF SchedWake, InfosTyped
  <2>2. PublishedTyped'
    BY <1>4, <1>7 DEF SchedWake
  <2>3. SchedulerTyped'
    BY <1>5, <1>7 DEF SchedWake
  <2> QED
    BY <1>2, <2>1, <2>2, <2>3
<1>8. CASE SchedSnapshot
  <2>1. InfosTyped'
    BY <1>1, <1>8 DEF SchedSnapshot, InfosTyped
  <2>2. SchedulerTyped'
    BY <1>5, <1>8 DEF SchedSnapshot
  <2> QED
    BY <1>2, <1>3, <1>8, <2>1, <2>2 DEF SchedSnapshot
<1>9. CASE SchedGraph
  <2>1. SchedulerTyped'
    BY <1>5, <1>9 DEF SchedGraph
  <2> QED
    BY <1>2, <1>3, <1>6, <1>9, <2>1 DEF SchedGraph
<1>10. CASE SchedWriteBack
  <2>1. SchedulerTyped'
    BY <1>5, <1>10 DEF SchedWriteBack, SchedulerTyped
  <2> QED
    BY <1>2, <1>3, <1>6, <1>10, <2>1 DEF SchedWriteBack
<1>11. CASE SchedCompute
  <2>1. InfosTyped'
    BY <1>6, <1>11 DEF SchedCompute
  <2>2. CASE sch.graphChanged \/ sch.added
    <3>1. Told(NewSchedule)
      BY <1>11, <2>2 DEF SchedCompute
    <3>2. NewSchedule.schedule \in Seq(AllTransmissions(net)) /\ "schedule" \in DOMAIN NewSchedule
      <4> DEFINE kept == Schedule(sch.established, sch.graph)
                 added == Schedule(IF sch.added THEN sch.accepted ELSE {}, sch.graph)
                 more == Schedule(sch.accepted, sch.graph)
      <4>1. kept \in Seq(AllTransmissions(net)) /\ added \in Seq(AllTransmissions(net))
            /\ more \in Seq(AllTransmissions(net)) /\ published.schedule \in Seq(AllTransmissions(net))
        BY ScheduleTyped DEF PublishedTyped
      <4>2. NewSchedule = WithLinks(IF sch.graphChanged THEN kept \o added ELSE published.schedule \o more)
        BY DEF NewSchedule
      <4> HIDE DEF kept, added, more
      <4>3. kept \o added \in Seq(AllTransmissions(net)) /\ published.schedule \o more \in Seq(AllTransmissions(net))
        BY <4>1
      <4>4. PICK s : s \in Seq(AllTransmissions(net)) /\ NewSchedule = WithLinks(s)
        BY <4>2, <4>3
      <4> QED
        BY <4>4 DEF WithLinks
    <3>3. SchedulerTyped'
      BY <1>1, <3>1, <3>2 DEF Told, SchedulerTyped
    <3> QED
      BY <1>2, <1>3, <2>1, <3>1, <3>3 DEF Told
  <2>3. CASE ~(sch.graphChanged \/ sch.added)
    <3>1. PublishedTyped'
      BY <1>4, <1>11, <2>3 DEF SchedCompute
    <3>2. SchedulerTyped'
      BY <1>5, <1>11, <2>3 DEF SchedCompute
    <3> QED
      BY <1>2, <2>1, <3>1, <3>2
  <2> QED
    BY <2>2, <2>3
<1>12. CASE SchedPublish
  <2>1. PublishedTyped'
    BY <1>1, <1>12 DEF SchedPublish, Thread, PublishedTyped, SchedulerTyped
  <2>2. SchedulerTyped'
    BY <1>5, <1>12 DEF SchedPublish
  <2>3. InfosTyped'
    <3>1. PICK ids, accepted, established :
            coll' = [coll EXCEPT !.accepted = accepted, !.infos = Rejected(ids), !.established = established]
      BY <1>12, Zenon DEF SchedPublish
    <3>2. Rejected(ids) \in Seq(Notices(net)) /\ "infos" \in DOMAIN coll
      BY RejectedIn DEF InfosTyped
    <3>3. PICK infos : infos = Rejected(ids)
      OBVIOUS
    <3>4. coll'.infos = infos /\ "infos" \in DOMAIN coll'
      BY <3>1, <3>2, <3>3
    <3> QED
      BY <1>1, <3>2, <3>3, <3>4, Zenon DEF InfosTyped
  <2> QED
    BY <1>2, <2>1, <2>2, <2>3
<1> QED
  BY <1>7, <1>8, <1>9, <1>10, <1>11, <1>12 DEF Scheduler

LEMMA TypesNext ==
    ASSUME net \in Networks, DistributionTypes, [Next]_vars
    PROVE  DistributionTypes'
<1>1. CASE Connect
  <2>1. UNCHANGED <<net, data, dist, md, published, sch>>
    BY <1>1 DEF Connect, nodeVars
  <2>2. "infos" \in DOMAIN coll /\ coll.infos \in Seq(Notices(net))
    BY DEF DistributionTypes, InfosTyped
  <2>3. "infos" \in DOMAIN coll' /\ coll'.infos = coll.infos
    BY <1>1, <2>2 DEF Connect
  <2>4. InfosTyped'
    BY <2>1, <2>2, <2>3 DEF InfosTyped
  <2> QED
    BY <2>1, <2>4 DEF DistributionTypes, PublishedTyped, SchedulerTyped, MasterTyped, NodesTyped, Nodes, Dynamic
<1>2. CASE LinksChange \/ RateChanges \/ UNCHANGED vars
  <2>1. UNCHANGED <<net, data, dist, md, published, sch, coll>>
    BY <1>2 DEF LinksChange, RateChanges, vars, nodeVars, schedVars
  <2> QED
    BY <2>1 DEF DistributionTypes, PublishedTyped, SchedulerTyped, InfosTyped, MasterTyped, NodesTyped,
                Nodes, Dynamic
<1> QED
  BY <1>1, <1>2, TimesyncTyped, DownlinkTyped, UplinkTyped, SchedulerKeepsTypes DEF Next

-----------------------------------------------------------------------------
(***************************************************************************)
(* What a node plays.                                                      *)
(***************************************************************************)
LEMMA ScheduleInvInit == Init => ScheduleInv
<1> SUFFICES ASSUME Init, NEW n \in Dynamic
             PROVE  /\ dist[n] = NodeDistribution /\ heard[n] = 0 /\ data[n] = PlaysNothing
                    /\ n \notin InTime
  BY DEF ScheduleInv, NodeDistribution
<1>1. n \in Nodes /\ n # 0
  BY DEF Dynamic
<1> QED
  BY <1>1 DEF Init, InTime, Synchronized, Desynchronized

\* The time of the nodes that have it is that of the master.
LEMMA SameTile ==
    ASSUME TimeInv, NEW n \in InTime
    PROVE  NodeTile(n) = NodeTile(0)
  BY DEF TimeInv, InStep, NodeTile

LEMMA OutOfTimeInDownlink ==
    ASSUME ScheduleInv, NEW pkt, NEW got, got \subseteq Listening, DownlinkStep(pkt, got),
           NEW n \in Dynamic, n \notin InTime
    PROVE  dist'[n] = NodeDistribution /\ heard'[n] = 0
<1>1. dist[n] = NodeDistribution /\ heard[n] = 0 /\ n \in Nodes
  BY DEF ScheduleInv, Dynamic
<1>2. NodeDistribution.status = "APPLIED_SCHEDULE"
  BY DEF NodeDistribution
<1>3. ~Activating(n) /\ NodeHearsNothing(net, dist[n]) = dist[n]
  BY <1>1, <1>2 DEF Activating, Activates, NodeHearsNothing
<1>4. n \notin got
  BY <1>1 DEF Listening, Operates, MacCanOperate, InTime, Synchronized
<1> QED
  BY <1>1, <1>3, <1>4, NodeInDownlink

LEMMA InTimeInDownlink ==
    ASSUME TimeInv, DistributionTypes, ScheduleInv, NEW pkt, NEW got, {"header", "elements"} \subseteq DOMAIN pkt,
           IsSchedulePacket(pkt.header) => Sending(md) /\ pkt.header = md.header,
           got \subseteq Listening, DownlinkStep(pkt, got), NEW n \in Dynamic, n \in InTime
    PROVE  /\ dist'[n].status \in {"APPLIED_SCHEDULE", "SENDING_SCHEDULE", "INCOMPLETE_SCHEDULE"}
           /\ HoldsSchedule(n)'
<1> DEFINE d == dist[n]
           e == dist'[n]
<1>1. /\ NodeFields(d) /\ {"id", "pos"} \subseteq DOMAIN data[n]
      /\ d.status \in {"APPLIED_SCHEDULE", "SENDING_SCHEDULE", "INCOMPLETE_SCHEDULE"} /\ HoldsSchedule(n)
  BY DEF DistributionTypes, NodesTyped, ScheduleInv, Dynamic
<1>2. md' = MasterExecute(net, md, published, NodeTile(0))
  BY DEF DownlinkStep
<1>3. /\ md.status # "APPLIED_SCHEDULE" => /\ md'.header.id = md.header.id
                                           /\ md'.header.activation = md.header.activation
                                           /\ md'.status = "APPLIED_SCHEDULE" => MasterActivates(md, NodeTile(0))
      /\ Sending(md) => md'.status = "SENDING_SCHEDULE"
  <2>1. net \in Networks /\ MasterFields(net, md) /\ published.schedule \in Seq(AllTransmissions(net))
    BY DEF TimeInv, DistributionTypes, MasterTyped, PublishedTyped
  <2> QED
    BY <1>2, <2>1, MasterExecuteKeeps
<1>4. CASE Activating(n)
  <2>1. e = AfterActivation(d) /\ heard'[n] = heard[n]
        /\ data'[n] = Advanced(PlaysAfterActivation(d, NodeTile(n)), 1)
    BY <1>4, NodeInDownlink
  <2>2. d.header.id = heard[n]
    BY <1>1, <1>4 DEF Activating, Activates, HoldsSchedule
  <2>3. data'[n].id = PlaysAfterActivation(d, NodeTile(n)).id
    BY <1>1, <2>1, ActivationKeeps, AdvancedTyped
  <2> HIDE DEF d, e
  <2> QED
    BY <1>1, <2>1, <2>2, <2>3, ActivationKeeps DEF HoldsSchedule, e
<1>5. CASE ~Activating(n)
  <2>1. data'[n].id = data[n].id
    BY <1>1, <1>5, NodeInDownlink, AdvancedTyped
  \* A schedule that the node has begun to receive is still the one being sent.
  <2>2. ASSUME d.status = "SENDING_SCHEDULE"
        PROVE  /\ md'.status # "APPLIED_SCHEDULE"
               /\ md'.header.id = d.header.id /\ md'.header.activation = d.header.activation
               /\ md.header.id = d.header.id
    <3>1. md.status # "APPLIED_SCHEDULE" /\ d.header.id = md.header.id
          /\ d.header.activation = md.header.activation
      BY <1>1, <2>2 DEF HoldsSchedule, AwaitsActivation
    <3>2. ~MasterActivates(md, NodeTile(0))
      <4>1. ~(NodeTile(0) >= md.header.activation)
        BY <1>5, <2>2, <3>1, SameTile DEF Activating, Activates
      <4> QED
        BY <4>1 DEF MasterActivates
    <3> QED
      BY <1>3, <3>1, <3>2
  <2>3. CASE e.status = d.status /\ e.header.id = d.header.id /\ e.header.activation = d.header.activation
             /\ (heard'[n] = heard[n] \/ heard'[n] = d.header.id)
    <3>1. d.status = "SENDING_SCHEDULE" => AwaitsActivation(n)'
      BY <2>2, <2>3 DEF AwaitsActivation
    <3>2. d.status # "INCOMPLETE_SCHEDULE" => d.header.id = heard[n]
      BY <1>1 DEF HoldsSchedule
    <3>3. d.status # "INCOMPLETE_SCHEDULE" => heard'[n] = heard[n]
      BY <2>3, <3>2
    <3> QED
      BY <1>1, <2>1, <2>3, <3>1, <3>2, <3>3 DEF HoldsSchedule
  <2>4. CASE n \notin got
    <3>1. e \in {d, NodeHearsNothing(net, d)} /\ heard'[n] = heard[n]
      BY <1>5, <2>4, NodeInDownlink
    <3> QED
      BY <1>1, <2>3, <3>1, HearsNothingKeeps
  <2>5. CASE n \in got
    <3>1. e = NodeReceives(net, d, pkt)
          /\ heard'[n] = IF IsSchedulePacket(pkt.header) THEN pkt.header.id ELSE heard[n]
      BY <2>5, NodeInDownlink
    <3>2. CASE ~IsSchedulePacket(pkt.header)
      BY <1>1, <2>3, <3>1, <3>2, ReceivesKeeps
    <3>3. CASE IsSchedulePacket(pkt.header) /\ pkt.header.id = d.header.id
      BY <1>1, <2>3, <3>1, <3>3, ReceivesKeeps
    <3>4. CASE IsSchedulePacket(pkt.header) /\ pkt.header.id # d.header.id
      <4>1. e.status = "SENDING_SCHEDULE" /\ e.header = md.header /\ heard'[n] = md.header.id
        BY <1>1, <3>1, <3>4, ReceivesKeeps
      <4>2. md.status # "APPLIED_SCHEDULE" /\ Sending(md)
        BY <3>4 DEF Sending
      <4>3. AwaitsActivation(n)'
        BY <1>3, <4>1, <4>2 DEF AwaitsActivation
      <4> QED
        BY <4>1, <4>3 DEF HoldsSchedule
    <3> QED
      BY <3>2, <3>3, <3>4
  <2> QED
    BY <2>4, <2>5
<1> QED
  BY <1>4, <1>5

LEMMA DownlinkKeepsSchedules ==
    ASSUME TimeInv, DistributionTypes, ScheduleInv, DownlinkPhase
    PROVE  ScheduleInv'
<1>1. PICK pkt, got : /\ {"header", "elements"} \subseteq DOMAIN pkt
                      /\ IsSchedulePacket(pkt.header) => Sending(md) /\ pkt.header = md.header
                      /\ got \subseteq Listening /\ DownlinkStep(pkt, got)
  BY OnePacketOnAir DEF TimeInv
<1>2. Dynamic' = Dynamic /\ InTime' = InTime
  BY DEF DownlinkPhase, Dynamic, Nodes, InTime, Synchronized
<1>3. ASSUME NEW n \in Dynamic, n \notin InTime PROVE dist'[n] = NodeDistribution /\ heard'[n] = 0
  BY <1>1, <1>3, OutOfTimeInDownlink
<1>4. ASSUME NEW n \in Dynamic, n \in InTime
      PROVE  /\ dist'[n].status \in {"APPLIED_SCHEDULE", "SENDING_SCHEDULE", "INCOMPLETE_SCHEDULE"}
             /\ HoldsSchedule(n)'
  BY <1>1, <1>4, InTimeInDownlink
<1>5. NodeDistribution.status = "APPLIED_SCHEDULE"
  BY DEF NodeDistribution
<1> QED
  BY <1>2, <1>3, <1>4, <1>5 DEF ScheduleInv

LEMMA TimesyncKeepsSchedules ==
    ASSUME TimeInv, DistributionTypes, ScheduleInv, TimesyncPhase
    PROVE  ScheduleInv'
<1>1. PICK deaf : TimesyncStep(deaf)
  BY DEF TimesyncPhase
<1>2. PICK wave : wave = TimesyncWave(deaf)
  OBVIOUS
<1>3. UNCHANGED <<net, md>> /\ Dynamic' = Dynamic /\ Nodes' = Nodes
  BY DEF TimesyncPhase, Dynamic, Nodes
<1> SUFFICES ASSUME NEW n \in Dynamic
             PROVE  /\ dist'[n].status \in {"APPLIED_SCHEDULE", "SENDING_SCHEDULE", "INCOMPLETE_SCHEDULE"}
                    /\ n \in InTime' => HoldsSchedule(n)'
                    /\ n \notin InTime' => dist'[n] = NodeDistribution /\ heard'[n] = 0
  BY <1>3 DEF ScheduleInv
<1>4. n \in Nodes /\ n # 0
  BY DEF Dynamic
<1>5. sync'[n] = AfterTimesync(wave, n)
      /\ data'[n] = IF Resyncs(wave, n) THEN PlaysNothing ELSE Advanced(data[n], 1)
  BY <1>1, <1>2, <1>4 DEF TimesyncStep
<1>6. CASE Synchronized(sync[n]) /\ ~Synchronized(sync'[n])
  <2>1. dist'[n] = NodeDistribution /\ heard'[n] = 0
    BY <1>1, <1>2, <1>4, <1>5, <1>6 DEF TimesyncStep
  <2>2. n \notin InTime'
    BY <1>6 DEF InTime, Synchronized
  <2> QED
    BY <2>1, <2>2 DEF NodeDistribution
<1>7. CASE ~(Synchronized(sync[n]) /\ ~Synchronized(sync'[n]))
  <2>1. dist'[n] = dist[n] /\ heard'[n] = heard[n]
    BY <1>1, <1>2, <1>4, <1>5, <1>7 DEF TimesyncStep
  <2>2. CASE n \in InTime
    <3>1. n \in InTime' /\ ~Resyncs(wave, n)
      BY <1>3, <1>4, <1>7, <2>2 DEF InTime, Synchronized, Resyncs
    <3>2. data'[n].id = data[n].id
      BY <1>4, <1>5, <3>1, AdvancedTyped DEF DistributionTypes, NodesTyped
    <3> QED
      BY <1>3, <2>1, <2>2, <3>1, <3>2 DEF ScheduleInv, HoldsSchedule, AwaitsActivation
  <2>3. CASE n \notin InTime
    <3>1. dist[n] = NodeDistribution /\ heard[n] = 0
      BY <2>3 DEF ScheduleInv
    <3>2. NodeDistribution.status = "APPLIED_SCHEDULE" /\ NodeDistribution.header.id = 0 /\ PlaysNothing.id = 0
      BY DEF NodeDistribution, NoHeader, ScheduleHeader, PlaysNothing
    <3>3. ASSUME n \in InTime' PROVE data'[n].id = 0
      <4>1. Synchronized(AfterTimesync(wave, n)) /\ ~Synchronized(sync[n])
        BY <1>4, <1>5, <2>3, <3>3 DEF InTime, Synchronized
      <4>2. Resyncs(wave, n)
        BY <1>4, <4>1, AfterTimesyncClock
      <4> QED
        BY <1>5, <3>2, <4>2
    <3> QED
      BY <2>1, <3>1, <3>2, <3>3 DEF HoldsSchedule
  <2> QED
    BY <2>2, <2>3
<1> QED
  BY <1>6, <1>7


LEMMA ScheduleInvNext ==
    ASSUME TimeInv, DistributionTypes, ScheduleInv, [Next]_vars
    PROVE  ScheduleInv'
<1>1. CASE UplinkPhaseStep
  <2>1. UNCHANGED <<net, sync, dist, heard, md>> /\ net \in Networks
    BY <1>1 DEF UplinkPhaseStep, TimeInv
  <2>2. Dynamic' = Dynamic /\ InTime' = InTime
    BY <2>1 DEF Dynamic, Nodes, InTime, Synchronized
  <2>3. \A n \in Dynamic : data'[n].id = data[n].id
    <3>1. PICK messages, deaf, packets : UplinkStep(messages, deaf, packets)
      BY <1>1 DEF UplinkPhaseStep
    <3>2. \A n \in Dynamic : data'[n] = Advanced(data[n], 1) /\ {"id", "pos"} \subseteq DOMAIN data[n]
      BY <3>1 DEF UplinkStep, Dynamic, DistributionTypes, NodesTyped
    <3> QED
      BY <3>2, AdvancedTyped
  <2> QED
    BY <2>1, <2>2, <2>3 DEF ScheduleInv, HoldsSchedule, AwaitsActivation
<1>2. CASE ~TimesyncPhase /\ ~DownlinkPhase /\ ~UplinkPhaseStep
  <2>1. UNCHANGED <<net, sync, dist, heard, md, data>>
    BY <1>2, OtherStepsTakeNoTime DEF nodeVars
  <2>2. Dynamic' = Dynamic /\ InTime' = InTime
    BY <2>1 DEF Dynamic, Nodes, InTime, Synchronized
  <2> QED
    BY <2>1, <2>2 DEF ScheduleInv, HoldsSchedule, AwaitsActivation
<1> QED
  BY <1>1, <1>2, TimesyncKeepsSchedules, DownlinkKeepsSchedules

\* A node that has the time plays the schedule of the last schedule packet it got,
\* or none, except until the tile at which all begin to play the new one: for
\* every network, with any packets lost, whatever the scheduler publishes in the
\* meantime, and however often a schedule is sent again.
THEOREM NothingStaleTheorem == Spec => []NothingStalePlayed
<1>1. Init => TimeInv /\ DistributionTypes /\ ScheduleInv
  BY TimeInvInit, TypesInit, ScheduleInvInit
<1>2. TimeInv /\ DistributionTypes /\ ScheduleInv /\ [Next]_vars
        => (TimeInv /\ DistributionTypes /\ ScheduleInv)'
  <2> SUFFICES ASSUME TimeInv, DistributionTypes, ScheduleInv, [Next]_vars
               PROVE  (TimeInv /\ DistributionTypes /\ ScheduleInv)'
    OBVIOUS
  <2>1. net \in Networks
    BY DEF TimeInv
  <2> QED
    BY <2>1, TimeInvNext, TypesNext, ScheduleInvNext
<1>3. TimeInv /\ ScheduleInv => NothingStalePlayed
  <2> SUFFICES ASSUME ScheduleInv, NEW n \in InTime \ {0}
               PROVE  data[n].id \in {0, heard[n]} \/ AwaitsActivation(n)
    BY DEF NothingStalePlayed
  <2>1. n \in Dynamic
    BY DEF InTime, Dynamic
  <2> QED
    BY <2>1 DEF ScheduleInv, HoldsSchedule
<1> QED
  BY <1>1, <1>2, <1>3, PTL DEF Spec

-----------------------------------------------------------------------------
(***************************************************************************)
(* The topology and the schedule: what a report changes in a graph is      *)
(* noted while the scheduler computes.                                     *)
(***************************************************************************)
LEMMA OrderLinkIs ==
    ASSUME NEW a, NEW b
    PROVE  OrderLink(a, b) \in {<<a, b>>, <<b, a>>} /\ Ordered(OrderLink(a, b))
<1>1. CASE a < b
  <2>1. OrderLink(a, b) = <<a, b>>
    BY <1>1 DEF OrderLink
  <2> QED
    BY <1>1, <2>1 DEF Ordered
<1>2. CASE ~(a < b)
  <2>1. OrderLink(a, b) = <<b, a>>
    BY <1>2 DEF OrderLink
  <2> QED
    BY <1>2, <2>1 DEF Ordered
<1> QED
  BY <1>1, <1>2

LEMMA NotedInOrder ==
    ASSUME NEW l \in Nat \X Nat, l[1] <= l[2], NEW links, \A p \in links : Ordered(p), Noted(l, links)
    PROVE  l \in links
<1> SUFFICES ASSUME <<l[2], l[1]>> \in links PROVE l \in links
  BY DEF Noted
<1>1. l[2] < l[1] \/ ~(l[1] < l[2])
  BY DEF Ordered
<1>2. l[1] = l[2]
  BY <1>1
<1> QED
  BY <1>2

LEMMA ReportedGraph ==
    ASSUME NEW c, NEW g, Undirected(g), NEW src, NEW neighbors, NEW dropped, NEW gained,
           dropped = Dropped(c, g, src, neighbors), gained = Gained(g, src, neighbors),
           NEW h, h = AddEdges(RemoveEdges(g, dropped), gained)
    PROVE  /\ Undirected(h)
           /\ \A e \in g : e \in h \/ Noted(e, dropped)
           /\ \A e \in h : e \in g \/ Noted(e, gained)
           /\ \A l \in dropped \cup gained : Ordered(l)
<1> DEFINE left == RemoveEdges(g, dropped)
<1>1. \A l \in dropped : l = <<l[1], l[2]>> /\ Ordered(l)
  BY OrderLinkIs DEF Dropped
<1>2. \A l \in gained : l = <<l[1], l[2]>> /\ Ordered(l) /\ l[1] # l[2]
  <2> SUFFICES ASSUME NEW i \in neighbors \ {src} PROVE LET l == OrderLink(src, i) IN l = <<l[1], l[2]>> /\ Ordered(l) /\ l[1] # l[2]
    BY DEF Gained
  <2> QED
    BY OrderLinkIs
<1>3. \A e \in g : e \in left <=> ~Noted(e, dropped)
  <2> SUFFICES ASSUME NEW e \in g PROVE e \in left <=> ~Noted(e, dropped)
    OBVIOUS
  <2>1. e = <<e[1], e[2]>>
    BY DEF Undirected
  <2>2. \A l \in dropped : e \in RemoveEdge(g, l[1], l[2]) <=> (e # l /\ <<e[2], e[1]>> # l)
    BY <1>1, <2>1 DEF RemoveEdge, ClearBit
  <2> QED
    BY <2>2 DEF RemoveEdges, Noted
<1>4. left \subseteq g
  BY DEF RemoveEdges
<1> HIDE DEF left
<1>5. \A e : e \in h <=> (e \in left \/ \E l \in gained : e = l \/ e = <<l[2], l[1]>>)
  <2>1. h = left \cup UNION {AddEdge(left, l[1], l[2]) : l \in gained}
    BY DEF AddEdges, left
  <2>2. \A l \in gained : AddEdge(left, l[1], l[2]) = left \cup {l, <<l[2], l[1]>>}
    BY <1>2 DEF AddEdge, SetBit
  <2> QED
    BY <2>1, <2>2
<1>6. Undirected(h)
  <2> SUFFICES ASSUME NEW e \in h PROVE e = <<e[1], e[2]>> /\ <<e[2], e[1]>> \in h /\ e[1] # e[2]
    BY DEF Undirected
  <2>1. CASE e \in left
    <3>1. e = <<e[1], e[2]>> /\ <<e[2], e[1]>> \in g /\ e[1] # e[2] /\ ~Noted(e, dropped)
      BY <1>3, <1>4, <2>1 DEF Undirected
    <3>2. ~Noted(<<e[2], e[1]>>, dropped)
      BY <3>1 DEF Noted
    <3> QED
      BY <1>3, <1>5, <3>1, <3>2
  <2>2. CASE \E l \in gained : e = l \/ e = <<l[2], l[1]>>
    <3>1. PICK l \in gained : e = l \/ e = <<l[2], l[1]>>
      BY <2>2
    <3>2. l = <<l[1], l[2]>> /\ l[1] # l[2] /\ l \in h /\ <<l[2], l[1]>> \in h
      BY <1>2, <1>5, <3>1
    <3> QED
      BY <3>1, <3>2
  <2> QED
    BY <1>5, <2>1, <2>2
<1>7. \A e \in h : e \in g \/ Noted(e, gained)
  <2> SUFFICES ASSUME NEW e \in h, NEW l \in gained, e = l \/ e = <<l[2], l[1]>> PROVE Noted(e, gained)
    BY <1>4, <1>5
  <2>1. e = l \/ <<e[2], e[1]>> = l
    BY <1>2
  <2> QED
    BY <2>1 DEF Noted
<1> QED
  BY <1>1, <1>2, <1>3, <1>5, <1>6, <1>7

\* A report keeps what is known of the graph and the schedule.
LEMMA ReportKeeps ==
    ASSUME NEW t, TopologyOf(t), NEW report
    PROVE  /\ TopologyOf(DoReceivedTopology(net, t, report))
           /\ DoReceivedTopology(net, t, report).usedLinks = t.usedLinks
           /\ DoReceivedTopology(net, t, report).newLinks = t.newLinks
<1> DEFINE u == DoReceivedTopology(net, t, report)
           weak == net.useWeakTopologies
           gained == Gained(t.graph, report.id, report.strong)
           dropped == Dropped(net, t.graph, report.id, report.strong)
           weakGained == Gained(t.weakGraph, report.id, report.weak)
           weakDropped == Dropped(net, t.weakGraph, report.id, report.weak)
           interfering == IF weak THEN weakGained ELSE IF net.channelSpatialReuse THEN gained ELSE {}
<1>1. /\ DOMAIN t = TopologyFields /\ Undirected(t.graph) /\ Undirected(t.weakGraph)
      /\ t.inProgress = Scheduling
      /\ \A l \in t.usedLinks \cup t.newLinks : l \in Nat \X Nat /\ l[1] <= l[2]
      /\ \A l \in t.removed \cup t.added : Ordered(l)
      /\ ~net.channelSpatialReuse => t.newLinks = {}
  BY DEF TopologyOf
<1>2. /\ DOMAIN u = TopologyFields
      /\ u.graph = AddEdges(RemoveEdges(t.graph, dropped), gained)
      /\ u.weakGraph = IF weak THEN AddEdges(RemoveEdges(t.weakGraph, weakDropped), weakGained) ELSE t.weakGraph
      /\ u.modified = (t.modified \/ (~t.inProgress /\ (dropped \cap t.usedLinks # {} \/ interfering \cap t.newLinks # {})))
      /\ u.removed = IF t.inProgress THEN t.removed \cup dropped ELSE t.removed
      /\ u.added = IF t.inProgress THEN t.added \cup interfering ELSE t.added
      /\ u.inProgress = t.inProgress /\ u.usedLinks = t.usedLinks /\ u.newLinks = t.newLinks
  BY <1>1 DEF DoReceivedTopology, TopologyFields
<1> HIDE DEF u, gained, dropped, weakGained, weakDropped
<1>3. /\ Undirected(u.graph)
      /\ \A e \in t.graph : e \in u.graph \/ Noted(e, dropped)
      /\ \A e \in u.graph : e \in t.graph \/ Noted(e, gained)
      /\ \A l \in dropped \cup gained : Ordered(l)
  <2>1. PICK g, src, neighbors : g = t.graph /\ src = report.id /\ neighbors = report.strong
    OBVIOUS
  <2>2. Undirected(g) /\ dropped = Dropped(net, g, src, neighbors) /\ gained = Gained(g, src, neighbors)
    BY <1>1, <2>1 DEF dropped, gained
  <2>3. PICK h : h = u.graph
    OBVIOUS
  <2>4. h = AddEdges(RemoveEdges(g, dropped), gained)
    BY <1>2, <2>1, <2>3
  <2>5. /\ Undirected(h)
        /\ \A e \in g : e \in h \/ Noted(e, dropped)
        /\ \A e \in h : e \in g \/ Noted(e, gained)
        /\ \A l \in dropped \cup gained : Ordered(l)
    BY <2>2, <2>4, ReportedGraph
  <2> QED
    BY <2>1, <2>3, <2>5
<1>4. /\ Undirected(u.weakGraph)
      /\ \A l \in weakGained : Ordered(l)
      /\ weak => \A e \in u.weakGraph : e \in t.weakGraph \/ Noted(e, weakGained)
  <2>1. CASE weak
    <3>1. u.weakGraph = AddEdges(RemoveEdges(t.weakGraph, weakDropped), weakGained)
      BY <1>2, <2>1
    <3>2. /\ Undirected(u.weakGraph)
          /\ \A l \in weakDropped \cup weakGained : Ordered(l)
          /\ \A e \in u.weakGraph : e \in t.weakGraph \/ Noted(e, weakGained)
      <4>1. PICK h, d, a : h = u.weakGraph /\ d = weakDropped /\ a = weakGained
        OBVIOUS
      <4>2. /\ Undirected(t.weakGraph) /\ d = Dropped(net, t.weakGraph, report.id, report.weak)
            /\ a = Gained(t.weakGraph, report.id, report.weak) /\ h = AddEdges(RemoveEdges(t.weakGraph, d), a)
        BY <1>1, <3>1, <4>1 DEF weakDropped, weakGained
      <4>3. /\ Undirected(h) /\ \A l \in d \cup a : Ordered(l)
            /\ \A e \in h : e \in t.weakGraph \/ Noted(e, a)
        BY <4>2, ReportedGraph
      <4> QED
        BY <4>1, <4>3
    <3> QED
      BY <3>2
  <2>2. CASE ~weak
    <3>1. \A l \in weakGained : Ordered(l)
      BY <1>1, ReportedGraph DEF weakGained
    <3> QED
      BY <1>1, <1>2, <2>2, <3>1
  <2> QED
    BY <2>1, <2>2
<1>5. \A l \in interfering : Ordered(l)
  BY <1>3, <1>4
<1>6. weak \/ net.channelSpatialReuse =>
        \A e \in InterferenceGraph(u) : e \in InterferenceGraph(t) \/ Noted(e, interfering)
  BY <1>3, <1>4 DEF InterferenceGraph
<1> HIDE DEF interfering
<1>7. \A l \in u.removed \cup u.added : Ordered(l)
  BY <1>1, <1>2, <1>3, <1>5
<1>8. CASE Scheduling
  <2>1. t.inProgress /\ ChangesNoted(t)
    BY <1>1, <1>8 DEF TopologyOf
  <2>2. \A e \in sch.graph : e \in u.graph \/ Noted(e, u.removed)
    BY <1>2, <1>3, <2>1 DEF ChangesNoted, Noted
  <2>3. (weak \/ (net.channelSpatialReuse /\ sch.pc = "compute")) =>
            \A e \in InterferenceGraph(u) : e \in InterferenceGraph(sch) \/ Noted(e, u.added)
    <3> SUFFICES ASSUME weak \/ (net.channelSpatialReuse /\ sch.pc = "compute"), NEW e \in InterferenceGraph(u)
                 PROVE  e \in InterferenceGraph(sch) \/ Noted(e, u.added)
      OBVIOUS
    <3>1. e \in InterferenceGraph(t) \/ Noted(e, interfering)
      BY <1>6
    <3>2. e \in InterferenceGraph(t) => e \in InterferenceGraph(sch) \/ Noted(e, t.added)
      BY <2>1 DEF ChangesNoted
    <3> QED
      BY <1>2, <2>1, <3>1, <3>2 DEF Noted
  <2>4. ChangesNoted(u)
    BY <1>2, <2>1, <2>2, <2>3 DEF ChangesNoted
  <2> QED
    BY <1>1, <1>2, <1>3, <1>4, <1>7, <1>8, <2>4 DEF TopologyOf, u
<1>9. CASE ~Scheduling
  <2>1. ~t.inProgress /\ t.removed = {} /\ t.added = {} /\ (~t.modified => Fits(t))
    BY <1>1, <1>9 DEF TopologyOf
  <2>2. ASSUME ~u.modified PROVE Fits(u)
    <3>1. Fits(t) /\ dropped \cap t.usedLinks = {} /\ interfering \cap t.newLinks = {}
      BY <1>2, <2>1, <2>2
    <3>2. ASSUME NEW l \in t.usedLinks PROVE HasEdge(u.graph, l[1], l[2]) \/ l \in cutOff
      <4>1. l = <<l[1], l[2]>> /\ l \in Nat \X Nat /\ l[1] <= l[2] /\ (l \in t.graph \/ l \in cutOff)
        BY <1>1, <3>1, <3>2 DEF Fits, HasEdge
      <4>2. Noted(l, dropped) => l \in dropped
        BY <1>3, <4>1, NotedInOrder
      <4> QED
        BY <1>3, <3>1, <3>2, <4>1, <4>2 DEF HasEdge
    <3>3. ASSUME NEW l \in t.newLinks PROVE ~HasEdge(InterferenceGraph(u), l[1], l[2])
      <4>1. l = <<l[1], l[2]>> /\ l \in Nat \X Nat /\ l[1] <= l[2] /\ l \notin InterferenceGraph(t)
            /\ net.channelSpatialReuse
        BY <1>1, <3>1, <3>3 DEF Fits, HasEdge
      <4>2. Noted(l, interfering) => l \in interfering
        BY <1>5, <4>1, NotedInOrder
      <4> QED
        BY <1>6, <3>1, <3>3, <4>1, <4>2 DEF HasEdge
    <3> QED
      BY <1>2, <3>2, <3>3 DEF Fits
  <2> QED
    BY <1>1, <1>2, <1>3, <1>4, <1>7, <1>9, <2>1, <2>2 DEF TopologyOf, u
<1> QED
  BY <1>2, <1>8, <1>9 DEF u


-----------------------------------------------------------------------------
(***************************************************************************)
(* What waits in the uplink phase of a node: queues, with one element for  *)
(* a key.                                                                  *)
(***************************************************************************)
IsQueue(q) == (\E T : q \in Seq(T)) /\ UniqueKeys(q)

LEMMA EmptyIsQueue == IsQueue(EmptyQueue)
<1>1. <<>> \in Seq({})
  OBVIOUS
<1> QED
  BY <1>1 DEF IsQueue, UniqueKeys, EmptyQueue

LEMMA EnqueueIsQueue ==
    ASSUME NEW q, IsQueue(q), NEW k, NEW v
    PROVE  IsQueue(Enqueue(q, k, v))
<1>1. PICK T : q \in Seq(T)
  BY DEF IsQueue
<1> DEFINE e == [key |-> k, val |-> v]
           T2 == T \cup {e}
<1>2. q \in Seq(T2) /\ [key |-> k, val |-> v] \in T2 /\ e.key = k
  BY <1>1
<1>3. UniqueKeys(q) /\ Len(q) \in Nat
  BY <1>1 DEF IsQueue
<1> HIDE DEF T2, e
<1>4. Enqueue(q, k, v) \in Seq(T2)
  BY <1>2, EnqueueIn
<1>5. CASE HasKey(q, k)
  <2>1. Enqueue(q, k, v) = [i \in 1..Len(q) |-> IF q[i].key = k THEN e ELSE q[i]]
    BY <1>5 DEF Enqueue, ReplaceVal, e
  <2> DEFINE r == [i \in 1..Len(q) |-> IF q[i].key = k THEN e ELSE q[i]]
  <2>2. \A i \in 1..Len(q) : r[i].key = q[i].key
    BY <1>2
  <2>3. Len(r) = Len(q)
    BY <1>3
  <2> HIDE DEF r
  <2>4. UniqueKeys(r)
    BY <1>3, <2>2, <2>3 DEF UniqueKeys
  <2> QED
    BY <1>4, <2>1, <2>4 DEF IsQueue, r
<1>6. CASE ~HasKey(q, k)
  <2> DEFINE r == Append(q, e)
  <2>1. Enqueue(q, k, v) = r
    BY <1>6 DEF Enqueue, e
  <2>2. Len(r) = Len(q) + 1 /\ r[Len(q) + 1] = e /\ \A i \in 1..Len(q) : r[i] = q[i]
    BY <1>2 DEF e
  <2>3. \A i \in 1..Len(q) : q[i].key # k
    BY <1>6 DEF HasKey
  <2> HIDE DEF r
  <2>4. ASSUME NEW i \in 1..Len(r), NEW j \in 1..Len(r), r[i].key = r[j].key PROVE i = j
    <3>1. i \in 1..Len(q) \/ i = Len(q) + 1
      BY <1>3, <2>2
    <3>2. j \in 1..Len(q) \/ j = Len(q) + 1
      BY <1>3, <2>2
    <3> QED
      BY <1>2, <1>3, <2>2, <2>3, <2>4, <3>1, <3>2 DEF UniqueKeys
  <2> QED
    BY <1>4, <2>1, <2>4 DEF IsQueue, UniqueKeys
<1> QED
  BY <1>5, <1>6

LEMMA EnqueueAllIsQueue ==
    ASSUME NEW q, IsQueue(q), NEW entries, Len(entries) \in Nat
    PROVE  IsQueue(EnqueueAll(q, entries))
<1> DEFINE N == Len(entries)
           Tell(r, k) == Enqueue(r, entries[k].key, entries[k].val)
           Steps(f, n) == f = [i \in 0..n |-> IF i = 0 THEN q ELSE Tell(f[i - 1], i)]
           Is(f) == f = [i \in 0..Len(entries) |->
                            IF i = 0 THEN q ELSE Enqueue(f[i - 1], entries[i].key, entries[i].val)]
           after == CHOOSE f : Is(f)
           Missing == {n \in 0..N : ~ \E f : Steps(f, n)}
<1>1. EnqueueAll(q, entries) = after[N]
  BY DEF EnqueueAll
<1>2. \A f : Steps(f, N) <=> Is(f)
  OBVIOUS
<1> HIDE DEF N, after, Is, Tell
<1>3. N \in Nat
  BY DEF N
<1>4. Missing = {}
  <2> SUFFICES ASSUME Missing # {} PROVE FALSE
    OBVIOUS
  <2>1. PICK n \in Missing : \A m \in Missing : n <= m
    <3> HIDE DEF Missing
    <3>1. Missing \subseteq Nat
      BY <1>3 DEF Missing
    <3> QED
      BY <3>1, LeastNumber
  <2>2. CASE n = 0
    <3> DEFINE g == [i \in 0..0 |-> q]
    <3>1. Steps(g, 0)
      OBVIOUS
    <3> QED
      BY <2>1, <2>2, <3>1
  <2>3. CASE n # 0
    <3>1. n \in 1..N /\ n - 1 \in 0..N /\ n - 1 < n
      BY <1>3, <2>1, <2>3
    <3>2. PICK f : Steps(f, n - 1)
      <4> HIDE DEF Steps
      <4> QED
        BY <2>1, <3>1
    <3> DEFINE g == [i \in 0..n |-> IF i = n THEN Tell(f[n - 1], n) ELSE f[i]]
    <3>3. \A i \in 0..n : g[i] = IF i = 0 THEN q ELSE Tell(g[i - 1], i)
      <4> SUFFICES ASSUME NEW i \in 0..n PROVE g[i] = IF i = 0 THEN q ELSE Tell(g[i - 1], i)
        OBVIOUS
      <4>1. CASE i = n
        <5>1. g[i - 1] = f[n - 1] /\ g[i] = Tell(f[n - 1], n)
          BY <3>1, <4>1
        <5> QED
          BY <3>1, <4>1, <5>1
      <4>2. CASE i # n
        <5>1. i \in 0..(n - 1) /\ g[i] = f[i] /\ (i # 0 => g[i - 1] = f[i - 1])
          BY <3>1, <4>2
        <5> QED
          BY <3>2, <5>1
      <4> QED
        BY <4>1, <4>2
    <3>4. Steps(g, n)
      BY <3>3
    <3> QED
      BY <2>1, <3>4
  <2> QED
    BY <2>2, <2>3
<1>5. Is(after)
  <2>1. \E f : Steps(f, N)
    <3>1. N \in 0..N
      BY <1>3
    <3> HIDE DEF Steps
    <3> QED
      BY <1>4, <3>1
  <2>2. \E f : Is(f)
    BY <1>2, <2>1
  <2> QED
    BY <2>2 DEF after
<1>6. after[0] = q /\ \A i \in 1..N : after[i] = Tell(after[i - 1], i)
  <2> HIDE DEF Missing
  <2>1. Steps(after, N)
    BY <1>2, <1>5
  <2> QED
    BY <1>3, <2>1
<1> DEFINE S == {r \in {after[i] : i \in 0..N} : IsQueue(r)}
<1> HIDE DEF Missing, Steps
<1>7. \A i \in 1..N : after[i - 1] \in S => after[i] \in S
  <2> SUFFICES ASSUME NEW i \in 1..N, IsQueue(after[i - 1]) PROVE IsQueue(after[i]) /\ i \in 0..N
    OBVIOUS
  <2> QED
    BY <1>3, <1>6, EnqueueIsQueue DEF Tell
<1>8. after[0] \in S
  BY <1>3, <1>6
<1> HIDE DEF S
<1> HIDE DEF after, N
<1>9. \A i \in 0..N : after[i] \in S
  BY <1>3, <1>7, <1>8, IterationStays
<1>10. after[N] \in S
  BY <1>3, <1>9
<1> QED
  BY <1>1, <1>10 DEF S


\* What the code takes for granted of the sizes of elements and packets.
LEMMA Sizes ==
    ASSUME NEW c \in Networks
    PROVE  /\ TopologySize(c) \in Nat \ {0} /\ SMESize \in Nat \ {0}
           /\ Bitmasks(c) \in Nat /\ FirstCapacity(c) \in Nat /\ OtherCapacity(c) \in Nat
           /\ c.uplinkPackets \in Nat /\ c.guaranteedTopologies \in Nat
           /\ TotalCapacity(c) \in Int
           /\ c.guaranteedTopologies * TopologySize(c) <= TotalCapacity(c)
           /\ c.maxPktSize - (panHeaderSize + UplinkHeaderSize + Bitmasks(c)) = FirstCapacity(c)
           /\ c.maxPktSize - panHeaderSize = OtherCapacity(c)
<1>1. /\ ConfigurationFields(c) /\ ValidConfiguration(c) /\ c.neighborBitmaskSize \in Nat
      /\ c.maxPktSize \in Nat /\ FirstCapacity(c) >= 0
  BY ConfigurationAssumption
<1>2. c.uplinkPackets \in Nat /\ c.guaranteedTopologies \in Nat
  <2>1. c.uplinkPackets \in Byte /\ c.guaranteedTopologies \in Byte
    BY <1>1 DEF ConfigurationFields
  <2>2. Byte \subseteq Nat
    BY DEF Byte
  <2> QED
    BY <2>1, <2>2
<1>3. Bitmasks(c) \in Nat /\ TopologySize(c) \in Nat \ {0}
  BY <1>1 DEF Bitmasks, TopologySize
<1>4. SMESize \in Nat \ {0}
  BY DEF SMESize
<1>5. /\ FirstCapacity(c) \in Nat /\ OtherCapacity(c) \in Nat
      /\ c.maxPktSize - (panHeaderSize + UplinkHeaderSize + Bitmasks(c)) = FirstCapacity(c)
      /\ c.maxPktSize - panHeaderSize = OtherCapacity(c)
  BY <1>1, <1>3 DEF FirstCapacity, OtherCapacity, panHeaderSize, UplinkHeaderSize
<1>6. TotalCapacity(c) \in Int
  <2>1. c.uplinkPackets - 1 \in Int
    BY <1>2
  <2>2. (c.uplinkPackets - 1) * OtherCapacity(c) \in Int
    BY <1>5, <2>1
  <2> QED
    BY <1>5, <2>2 DEF TotalCapacity
<1> QED
  BY <1>1, <1>2, <1>3, <1>4, <1>5, <1>6 DEF ValidConfiguration

LEMMA LeastOf ==
    ASSUME NEW a \in Int, NEW b \in Int
    PROVE  Least(a, b) \in Int /\ Least(a, b) <= a /\ Least(a, b) <= b /\ Least(a, b) \in {a, b}
  BY DEF Least

LEMMA QuotientIn ==
    ASSUME NEW a \in Int, NEW b \in Nat \ {0}
    PROVE  a \div b \in Int
  OBVIOUS

\* The loops that fit elements in packets end.
FillState == [packets : Nat \ {0}, bytes : Int, left : Nat]
LEMMA FillTyped ==
    ASSUME NEW c \in Networks, NEW size \in Nat \ {0}
    PROVE  Fill(c, size) \in [FillState -> FillState]
<1> DEFINE fit(s) == Least(s.left, s.bytes \div size)
           now(s) == [packets |-> s.packets, bytes |-> s.bytes - fit(s) * size, left |-> s.left - fit(s)]
           after(s) == [packets |-> s.packets + 1, bytes |-> OtherCapacity(c), left |-> s.left - fit(s)]
           Is(f) == f = [s \in FillState |->
                            LET fits == Least(s.left, s.bytes \div size)
                                left == s.left - fits
                            IN  IF left = 0 \/ s.packets >= c.uplinkPackets
                                THEN [packets |-> s.packets, bytes |-> s.bytes - fits * size, left |-> left]
                                ELSE f[[packets |-> s.packets + 1, bytes |-> OtherCapacity(c), left |-> left]]]
           f == CHOOSE h : Is(h)
           up == c.uplinkPackets
           last == {s \in FillState : s.left - fit(s) = 0 \/ s.packets >= up}
           out == [s \in FillState |-> now(s)]
           next == [s \in FillState |-> after(s)]
           measure == [s \in FillState |-> IF s.packets >= up THEN 0 ELSE up - s.packets]
<1>1. up \in Nat /\ OtherCapacity(c) \in Nat
  BY Sizes
<1>2. ASSUME NEW s \in FillState
      PROVE  now(s) \in FillState /\ after(s) \in FillState /\ after(s).packets = s.packets + 1
  <2>1. s.packets \in Nat \ {0} /\ s.bytes \in Int /\ s.left \in Nat
    BY DEF FillState
  <2>2. PICK q \in Int : q = s.bytes \div size
    BY <2>1, QuotientIn
  <2>3. fit(s) \in Int /\ fit(s) <= s.left
    BY <2>1, <2>2 DEF Least
  <2> HIDE DEF fit
  <2>4. s.left - fit(s) \in Nat
    BY <2>1, <2>3
  <2>5. fit(s) * size \in Int
    BY <2>3
  <2>6. s.bytes - fit(s) * size \in Int
    BY <2>1, <2>5
  <2> QED
    BY <1>1, <2>1, <2>4, <2>6 DEF FillState
<1>3. Fill(c, size) = f
  BY DEF Fill, FillState
<1>4. out \in [FillState -> FillState] /\ next \in [FillState -> FillState]
  <2> HIDE DEF now, after
  <2> QED
    BY <1>2
<1>5. measure \in [FillState -> Nat]
  BY <1>1 DEF FillState
<1>6. \A s \in FillState : s \notin last => measure[next[s]] < measure[s]
  <2> SUFFICES ASSUME NEW s \in FillState, ~(s.packets >= up) PROVE measure[next[s]] < measure[s]
    OBVIOUS
  <2> HIDE DEF now, after
  <2>1. s.packets \in Nat
    BY DEF FillState
  <2>2. s.packets < up /\ next[s] \in FillState /\ next[s].packets = s.packets + 1
    BY <1>1, <1>2, <2>1
  <2> QED
    BY <1>1, <2>1, <2>2
<1>7. PICK h : IsLoop(h, FillState, FillState, last, out, next)
  <2> HIDE DEF last, out, next, measure
  <2> QED
    BY <1>4, <1>5, <1>6, LoopEnds
<1>8. Is(h)
  <2>1. h \in [FillState -> FillState] /\ \A s \in FillState : h[s] = IF s \in last THEN now(s) ELSE h[after(s)]
    <3> HIDE DEF last, now, after
    <3> QED
      BY <1>7 DEF IsLoop
  <2> QED
    BY <2>1
<1>9. Is(f)
  <2> HIDE DEF Is
  <2> QED
    BY <1>8
<1>10. IsLoop(f, FillState, FillState, last, out, next)
  <2>1. f = [s \in FillState |-> IF s \in last THEN out[s] ELSE f[next[s]]]
    <3> HIDE DEF f
    <3> QED
      BY <1>9
  <2> HIDE DEF last, out, next, measure, f, Is, now, after
  <2> QED
    BY <1>4, <1>5, <1>6, <2>1, LoopTyped
<1> HIDE DEF f, last, out, next
<1> QED
  BY <1>3, <1>10 DEF IsLoop


LEMMA Multiples ==
    ASSUME NEW a \in Int, NEW b \in Int, NEW size \in Nat, a <= b
    PROVE  a * size \in Int /\ b * size \in Int /\ a * size <= b * size
<1>1. (b - a) * size \in Nat
  <2>1. PICK d \in Nat : d = b - a
    OBVIOUS
  <2>2. d * size \in Nat
    OBVIOUS
  <2> QED
    BY <2>1, <2>2
<1>2. (b - a) * size = b * size - a * size
  OBVIOUS
<1>3. a * size \in Int /\ b * size \in Int
  OBVIOUS
<1> QED
  BY <1>1, <1>2, <1>3

LEMMA Fitting ==
    ASSUME NEW bytes \in Nat, NEW size \in Nat \ {0}, NEW left \in Nat, NEW fit, fit = Least(left, bytes \div size)
    PROVE  fit \in Nat /\ fit <= left /\ bytes - fit * size \in Nat
<1>1. PICK q \in Nat : q = bytes \div size /\ q * size <= bytes
  <2>1. bytes \div size \in Nat /\ bytes % size \in 0..(size - 1)
        /\ bytes = size * (bytes \div size) + (bytes % size)
    BY DivMod
  <2>2. PICK q \in Nat, r \in Nat : q = bytes \div size /\ bytes = size * q + r
    BY <2>1
  <2>3. q * size = size * q /\ q * size \in Nat
    OBVIOUS
  <2> QED
    BY <2>2, <2>3
<1>2. fit \in Nat /\ fit <= left /\ fit <= q
  BY <1>1 DEF Least
<1>3. fit * size \in Nat /\ fit * size <= q * size /\ q * size \in Int
  <2>1. fit * size \in Nat
    BY <1>2
  <2>2. fit * size <= q * size /\ q * size \in Int
    BY <1>1, <1>2, Multiples
  <2> QED
    BY <2>1, <2>2
<1> QED
  BY <1>1, <1>2, <1>3

AllotState == [packets : Nat \ {0}, bytes : Nat, left : Nat, here : Nat]
LEMMA AllotTyped ==
    ASSUME NEW c \in Networks, NEW size \in Nat \ {0}, NEW received
    PROVE  Allot(c, size, received) \in [AllotState -> AllotState]
<1> DEFINE fit(s) == Least(s.left, s.bytes \div size)
           found(s) == IF s.packets = received + 1 THEN fit(s) ELSE s.here
           now(s) == [packets |-> s.packets, bytes |-> s.bytes - fit(s) * size,
                      left |-> s.left - fit(s), here |-> found(s)]
           after(s) == [packets |-> s.packets + 1, bytes |-> OtherCapacity(c),
                        left |-> s.left - fit(s), here |-> found(s)]
           Is(f) == f = [s \in AllotState |->
                            LET fits == Least(s.left, s.bytes \div size)
                                left == s.left - fits
                                here == IF s.packets = received + 1 THEN fits ELSE s.here
                            IN  IF left = 0 \/ s.packets >= c.uplinkPackets
                                THEN [packets |-> s.packets, bytes |-> s.bytes - fits * size, left |-> left, here |-> here]
                                ELSE f[[packets |-> s.packets + 1, bytes |-> OtherCapacity(c), left |-> left, here |-> here]]]
           f == CHOOSE h : Is(h)
           up == c.uplinkPackets
           last == {s \in AllotState : s.left - fit(s) = 0 \/ s.packets >= up}
           out == [s \in AllotState |-> now(s)]
           next == [s \in AllotState |-> after(s)]
           measure == [s \in AllotState |-> IF s.packets >= up THEN 0 ELSE up - s.packets]
<1>1. up \in Nat /\ OtherCapacity(c) \in Nat
  BY Sizes
<1>2. ASSUME NEW s \in AllotState
      PROVE  now(s) \in AllotState /\ after(s) \in AllotState /\ after(s).packets = s.packets + 1
  <2>1. s.packets \in Nat \ {0} /\ s.bytes \in Nat /\ s.left \in Nat /\ s.here \in Nat
    BY DEF AllotState
  <2>2. fit(s) \in Nat /\ fit(s) <= s.left /\ s.bytes - fit(s) * size \in Nat
    BY <2>1, Fitting
  <2> HIDE DEF fit
  <2>3. s.left - fit(s) \in Nat /\ found(s) \in Nat
    BY <2>1, <2>2
  <2> HIDE DEF found
  <2> QED
    BY <1>1, <2>1, <2>2, <2>3 DEF AllotState
<1>3. Allot(c, size, received) = f
  BY DEF Allot, AllotState
<1>4. out \in [AllotState -> AllotState] /\ next \in [AllotState -> AllotState]
  <2> HIDE DEF now, after
  <2> QED
    BY <1>2
<1>5. measure \in [AllotState -> Nat]
  BY <1>1 DEF AllotState
<1>6. \A s \in AllotState : s \notin last => measure[next[s]] < measure[s]
  <2> SUFFICES ASSUME NEW s \in AllotState, ~(s.packets >= up) PROVE measure[next[s]] < measure[s]
    OBVIOUS
  <2> HIDE DEF now, after
  <2>1. s.packets \in Nat
    BY DEF AllotState
  <2>2. s.packets < up /\ next[s] \in AllotState /\ next[s].packets = s.packets + 1
    BY <1>1, <1>2, <2>1
  <2> QED
    BY <1>1, <2>1, <2>2
<1>7. PICK h : IsLoop(h, AllotState, AllotState, last, out, next)
  <2> HIDE DEF last, out, next, measure
  <2> QED
    BY <1>4, <1>5, <1>6, LoopEnds
<1>8. Is(h)
  <2>1. h \in [AllotState -> AllotState] /\ \A s \in AllotState : h[s] = IF s \in last THEN now(s) ELSE h[after(s)]
    <3> HIDE DEF last, now, after
    <3> QED
      BY <1>7 DEF IsLoop
  <2> QED
    BY <2>1, SMTT(20)
<1>9. Is(f)
  <2> HIDE DEF Is
  <2> QED
    BY <1>8
<1>10. IsLoop(f, AllotState, AllotState, last, out, next)
  <2>1. f = [s \in AllotState |-> IF s \in last THEN out[s] ELSE f[next[s]]]
    <3> HIDE DEF f
    <3> QED
      BY <1>9
  <2> HIDE DEF last, out, next, measure, f, Is, now, after
  <2> QED
    BY <1>4, <1>5, <1>6, <2>1, LoopTyped
<1> HIDE DEF f, last, out, next
<1> QED
  BY <1>3, <1>10 DEF IsLoop

\* What a node means to send.
LEMMA AllocationTyped ==
    ASSUME NEW c \in Networks, NEW u, NEW me, IsQueue(u.topologyQueue), IsQueue(u.smeQueue)
    PROVE  /\ Allocation(c, u, me).topologies \in Int /\ Allocation(c, u, me).smes \in Int
           /\ Allocation(c, u, me).packets \in Nat \ {0}
<1> DEFINE topologies == Len(u.topologyQueue)
           reports == Len(u.smeQueue)
           size == TopologySize(c)
           guaranteed == Least(c.guaranteedTopologies, topologies)
           bytes == TotalCapacity(c) - guaranteed * size
           wantedSMEs == Least(reports, bytes \div SMESize)
           wanted == guaranteed + Least((bytes - wantedSMEs * SMESize) \div size, topologies - guaranteed)
           first == Fill(c, size)[[packets |-> 1, bytes |-> FirstCapacity(c), left |-> wanted]]
           second == Fill(c, SMESize)[[first EXCEPT !.left = wantedSMEs]]
<1>1. topologies \in Nat /\ reports \in Nat
  BY DEF IsQueue
<1>2. size \in Nat \ {0} /\ SMESize \in Nat \ {0} /\ c.guaranteedTopologies \in Nat /\ FirstCapacity(c) \in Nat
      /\ TotalCapacity(c) \in Int /\ c.guaranteedTopologies * size <= TotalCapacity(c)
  BY Sizes
<1>3. ComputePacketAllocation(c, topologies, reports) =
        [topologies |-> wanted - first.left, smes |-> wantedSMEs - second.left, packets |-> second.packets]
  BY DEF ComputePacketAllocation
<1>4. Allocation(c, u, me) \in {Nothing, ComputePacketAllocation(c, topologies, reports)}
  BY DEF Allocation
<1> HIDE DEF topologies, reports, size
<1>5. guaranteed \in Nat /\ guaranteed <= topologies /\ guaranteed <= c.guaranteedTopologies
  BY <1>1, <1>2 DEF Least
<1> HIDE DEF guaranteed
<1>6. bytes \in Nat
  <2>1. guaranteed * size \in Int /\ guaranteed * size <= c.guaranteedTopologies * size
        /\ c.guaranteedTopologies * size \in Int
    BY <1>2, <1>5, Multiples
  <2> QED
    BY <1>2, <2>1
<1> HIDE DEF bytes
<1>7. wantedSMEs \in Nat /\ bytes - wantedSMEs * SMESize \in Nat
  BY <1>1, <1>2, <1>6, Fitting
<1> HIDE DEF wantedSMEs
<1>8. wanted \in Nat
  <2>1. PICK q \in Nat : q = (bytes - wantedSMEs * SMESize) \div size
    BY <1>2, <1>7, DivMod
  <2>2. topologies - guaranteed \in Nat
    BY <1>1, <1>5
  <2> QED
    BY <1>5, <2>1, <2>2 DEF Least
<1> HIDE DEF wanted
<1>9. first \in FillState
  <2>1. [packets |-> 1, bytes |-> FirstCapacity(c), left |-> wanted] \in FillState
    BY <1>2, <1>8 DEF FillState
  <2> QED
    BY <1>2, <2>1, FillTyped
<1> HIDE DEF first
<1>10. second \in FillState
  <2>1. [first EXCEPT !.left = wantedSMEs] \in FillState
    BY <1>7, <1>9 DEF FillState
  <2> QED
    BY <1>2, <2>1, FillTyped
<1> HIDE DEF second
<1>11. first.left \in Nat /\ second.left \in Nat /\ second.packets \in Nat \ {0}
  BY <1>9, <1>10 DEF FillState
<1> QED
  BY <1>3, <1>4, <1>7, <1>8, <1>11 DEF Nothing


LEMMA LayoutTyped ==
    ASSUME NEW c \in Networks, NEW header, header.numTopology \in Nat, header.numSME \in Nat, NEW received
    PROVE  Layout(c, header, received).topologies \in Nat /\ Layout(c, header, received).smes \in Nat
<1> DEFINE size == TopologySize(c)
           first == Allot(c, size, received)[
                        [packets |-> 1, bytes |-> FirstCapacity(c), left |-> header.numTopology, here |-> 0]]
           second == Allot(c, SMESize, received)[[first EXCEPT !.left = header.numSME, !.here = 0]]
<1>1. size \in Nat \ {0} /\ SMESize \in Nat \ {0} /\ FirstCapacity(c) \in Nat
  BY Sizes
<1>2. Layout(c, header, received) =
        [possible |-> first.left = 0 /\ second.left = 0,
         topologies |-> first.here, smes |-> second.here, packets |-> second.packets]
  BY DEF Layout
<1> HIDE DEF size
<1>3. first \in AllotState
  <2>1. [packets |-> 1, bytes |-> FirstCapacity(c), left |-> header.numTopology, here |-> 0] \in AllotState
    BY <1>1 DEF AllotState
  <2> QED
    BY <1>1, <2>1, AllotTyped
<1> HIDE DEF first
<1>4. second \in AllotState
  <2>1. [first EXCEPT !.left = header.numSME, !.here = 0] \in AllotState
    BY <1>3 DEF AllotState
  <2> QED
    BY <1>1, <2>1, AllotTyped
<1> HIDE DEF second
<1> QED
  BY <1>2, <1>3, <1>4 DEF AllotState

LEMMA RestIsQueue ==
    ASSUME NEW q, IsQueue(q), NEW n \in Nat
    PROVE  IsQueue(Rest(q, n))
<1>1. PICK T : q \in Seq(T)
  BY DEF IsQueue
<1> DEFINE r == SubSeq(q, n + 1, Len(q))
<1>2. Rest(q, n) = r /\ UniqueKeys(q) /\ Len(q) \in Nat
  BY <1>1 DEF Rest, IsQueue
<1>3. r \in Seq(T) /\ Len(r) = (IF n + 1 <= Len(q) THEN Len(q) - n ELSE 0)
      /\ \A i \in 1..Len(r) : r[i] = q[n + i]
  BY <1>1, <1>2
<1> HIDE DEF r
<1>4. UniqueKeys(r)
  <2> SUFFICES ASSUME NEW i \in 1..Len(r), NEW j \in 1..Len(r), r[i].key = r[j].key PROVE i = j
    BY DEF UniqueKeys
  <2>1. PICK L, k : L = Len(q) /\ k = Len(r)
    OBVIOUS
  <2>2. L \in Nat /\ k = (IF n + 1 <= L THEN L - n ELSE 0) /\ i \in 1..k /\ j \in 1..k
    BY <1>2, <1>3, <2>1
  <2>3. n + i \in 1..L /\ n + j \in 1..L /\ i \in Int /\ j \in Int
    BY <2>2
  <2>4. r[i] = q[n + i] /\ r[j] = q[n + j]
    BY <1>3
  <2>5. q[n + i].key = q[n + j].key
    BY <2>4
  <2>6. n + i = n + j
    BY <1>2, <2>1, <2>3, <2>5 DEF UniqueKeys
  <2> QED
    BY <2>3, <2>6
<1> QED
  BY <1>2, <1>3, <1>4 DEF IsQueue

\* The packets of a message, one after the other.
Unsent(c, s) ==
    /\ {"pkt", "numTopologies", "numSMEs", "topologyQueue", "smeQueue"} \subseteq DOMAIN s
    /\ s.numTopologies \in Nat /\ s.numSMEs \in Nat /\ IsQueue(s.topologyQueue) /\ IsQueue(s.smeQueue)
NextPacket(c, s) == [s EXCEPT !.pkt = PutPanHeader(EmptyPacket, c.panId)]

LEMMA SentExists ==
    ASSUME NEW c, NEW s, NEW n \in Nat
    PROVE  /\ SentPackets(c, s, n) = [i \in 1..n |-> SentPackets(c, s, n)[i]]
           /\ DOMAIN SentPackets(c, s, n) = 1..n
           /\ \A i \in 1..n : SentPackets(c, s, n)[i] =
                    SerializeTopologiesAndSMEs(c, IF i = 1 THEN s ELSE NextPacket(c, SentPackets(c, s, n)[i - 1]))
<1> DEFINE Tell(r, i) == SerializeTopologiesAndSMEs(c, IF i = 1 THEN s ELSE NextPacket(c, r))
           Steps(f, k) == f = [i \in 1..k |-> Tell(f[i - 1], i)]
           Is(f) == f = [i \in 1..n |-> SerializeTopologiesAndSMEs(c,
                            IF i = 1 THEN s ELSE [f[i - 1] EXCEPT !.pkt = PutPanHeader(EmptyPacket, c.panId)])]
           f == CHOOSE h : Is(h)
           Missing == {k \in 0..n : ~ \E h : Steps(h, k)}
<1>1. SentPackets(c, s, n) = f
  BY DEF SentPackets
<1>2. \A h : Steps(h, n) <=> Is(h)
  BY DEF NextPacket
<1>3. \A r1, r2 : Tell(r1, 1) = Tell(r2, 1)
  OBVIOUS
<1> HIDE DEF f, Is, Tell
<1>4. Missing = {}
  <2> SUFFICES ASSUME Missing # {} PROVE FALSE
    OBVIOUS
  <2>1. PICK k \in Missing : \A m \in Missing : k <= m
    <3> HIDE DEF Missing
    <3>1. Missing \subseteq Nat
      BY DEF Missing
    <3> QED
      BY <3>1, LeastNumber
  <2>2. CASE k = 0
    <3> DEFINE g == [i \in 1..0 |-> s]
    <3>1. Steps(g, 0)
      OBVIOUS
    <3> QED
      BY <2>1, <2>2, <3>1
  <2>3. CASE k # 0
    <3>1. k \in 1..n /\ k - 1 \in 0..n /\ k - 1 < k
      BY <2>1, <2>3
    <3>2. PICK h : Steps(h, k - 1)
      <4> HIDE DEF Steps
      <4> QED
        BY <2>1, <3>1
    <3> DEFINE g == [i \in 1..k |-> IF i = k THEN Tell(h[k - 1], k) ELSE h[i]]
    <3>3. \A i \in 1..k : g[i] = Tell(g[i - 1], i)
      <4> SUFFICES ASSUME NEW i \in 1..k PROVE g[i] = Tell(g[i - 1], i)
        OBVIOUS
      <4>0. g[i] = IF i = k THEN Tell(h[k - 1], k) ELSE h[i]
        OBVIOUS
      <4>1. CASE i = 1
        <5>1. g[i] = Tell(h[i - 1], i)
          BY <3>1, <3>2, <4>0, <4>1
        <5> QED
          BY <1>3, <4>1, <5>1
      <4>2. CASE i # 1
        <5>1. i - 1 \in 1..(k - 1) /\ g[i - 1] = h[i - 1]
          BY <3>1, <4>2
        <5> QED
          BY <3>1, <3>2, <4>0, <5>1
      <4> QED
        BY <4>1, <4>2
    <3>4. Steps(g, k)
      BY <3>3
    <3> QED
      BY <2>1, <3>4
  <2> QED
    BY <2>2, <2>3
<1>5. Is(f)
  <2>1. n \in 0..n
    OBVIOUS
  <2>2. \E h : Steps(h, n)
    <3> HIDE DEF Steps
    <3> QED
      BY <1>4, <2>1
  <2>3. \E h : Is(h)
    BY <1>2, <2>2
  <2> QED
    BY <2>3 DEF f
<1>6. Steps(f, n)
  BY <1>2, <1>5
<1> HIDE DEF Missing
<1> QED
  BY <1>1, <1>6 DEF Tell


LEMMA InPacketTyped ==
    ASSUME NEW c \in Networks, NEW s, Unsent(c, s), Available(c, s.pkt) \in Nat
    PROVE  /\ InPacket(c, s).topologies \in 0..s.numTopologies
           /\ InPacket(c, s).smes \in 0..s.numSMEs
           /\ InPacket(c, s).topologies \in Nat /\ InPacket(c, s).smes \in Nat
<1> DEFINE topologies == Least(s.numTopologies, Available(c, s.pkt) \div TopologySize(c))
           rest == Available(c, s.pkt) - topologies * TopologySize(c)
           fit == Least(s.numSMEs, rest \div SMESize)
           n == InPacket(c, s)
<1>1. s.numTopologies \in Nat /\ s.numSMEs \in Nat
  BY DEF Unsent
<1>2. topologies \in Nat /\ topologies <= s.numTopologies /\ rest \in Nat
  BY <1>1, Sizes, Fitting
<1>3. n.topologies = topologies /\ n.smes = (IF topologies < s.numTopologies THEN 0 ELSE fit)
  BY DEF InPacket
<1> HIDE DEF topologies, rest, n
<1>4. fit \in Nat /\ fit <= s.numSMEs
  BY <1>1, <1>2, Sizes, Fitting
<1> HIDE DEF fit
<1> QED
  BY <1>1, <1>2, <1>3, <1>4 DEF n

LEMMA SerializedIsUnsent ==
    ASSUME NEW c \in Networks, NEW s, Unsent(c, s), Available(c, s.pkt) \in Nat
    PROVE  Unsent(c, SerializeTopologiesAndSMEs(c, s))
<1> DEFINE n == InPacket(c, s)
           r == SerializeTopologiesAndSMEs(c, s)
<1>1. s.numTopologies \in Nat /\ s.numSMEs \in Nat
  BY DEF Unsent
<1>2. n.topologies \in 0..s.numTopologies /\ n.smes \in 0..s.numSMEs
      /\ n.topologies \in Nat /\ n.smes \in Nat
  BY InPacketTyped
<1> HIDE DEF n
<1>3. /\ {"pkt", "numTopologies", "numSMEs", "topologyQueue", "smeQueue"} \subseteq DOMAIN r
      /\ r.numTopologies = s.numTopologies - n.topologies /\ r.numSMEs = s.numSMEs - n.smes
      /\ r.topologyQueue = Rest(s.topologyQueue, n.topologies) /\ r.smeQueue = Rest(s.smeQueue, n.smes)
  BY DEF SerializeTopologiesAndSMEs, n
<1> HIDE DEF r
<1>4. IsQueue(r.topologyQueue) /\ IsQueue(r.smeQueue)
  BY <1>2, <1>3, RestIsQueue DEF Unsent
<1>5. Unsent(c, r)
  BY <1>1, <1>2, <1>3, <1>4 DEF Unsent
<1> QED
  BY <1>5 DEF r

LEMMA MessageTyped ==
    ASSUME NEW c \in Networks, NEW u, NEW me, IsQueue(u.topologyQueue), IsQueue(u.smeQueue),
           NEW message, message = MyMessage(c, u, me)
    PROVE  /\ \E k \in Nat \ {0} : \E S : DOMAIN message = 1..k /\ message \in Seq(S) /\ Len(message) = k
           /\ \A i \in DOMAIN message : Unsent(c, message[i])
           /\ HeaderIn(message[1].pkt).numTopology \in Nat /\ HeaderIn(message[1].pkt).numSME \in Nat
<1> DEFINE allocation == Allocation(c, u, me)
           header == MyHeader(u, me, allocation)
           mine == MyTopologyElement(me, u.table)
           first == SendUplinkMessage(c, header, mine, u.topologyQueue, u.smeQueue)
           k == allocation.packets
<1>1. allocation.topologies \in Int /\ allocation.smes \in Int /\ k \in Nat \ {0}
  BY AllocationTyped
<1>2. message = SentPackets(c, first, k)
  BY DEF MyMessage, MyUplink
<1> HIDE DEF allocation, mine
<1>3. header.numTopology \in Nat /\ header.numSME \in Nat
  BY <1>1 DEF MyHeader, UplinkHeader
<1> HIDE DEF header, k
<1> DEFINE pan == [value |-> PanHeader(c.panId), bytes |-> panHeaderSize]
           second == [value |-> header, bytes |-> UplinkHeaderSize]
           third == [value |-> mine, bytes |-> Bitmasks(c)]
<1>4. /\ {"pkt", "numTopologies", "numSMEs", "topologyQueue", "smeQueue"} \subseteq DOMAIN first
      /\ first.numTopologies = header.numTopology /\ first.numSMEs = header.numSME
      /\ first.topologyQueue = u.topologyQueue /\ first.smeQueue = u.smeQueue
      /\ first.pkt = Put(Put(PutPanHeader(EmptyPacket, c.panId), header, UplinkHeaderSize), mine, Bitmasks(c))
  BY DEF SendUplinkMessage
<1> HIDE DEF first
<1>5. /\ first.pkt.items = Append(Append(Append(<<>>, pan), second), third)
      /\ first.pkt.dataSize = 0 + panHeaderSize + UplinkHeaderSize + Bitmasks(c)
  BY <1>4 DEF Put, PutPanHeader, EmptyPacket
<1>6. Available(c, first.pkt) \in Nat
  <2>1. Bitmasks(c) \in Nat /\ FirstCapacity(c) \in Nat
        /\ c.maxPktSize - (panHeaderSize + UplinkHeaderSize + Bitmasks(c)) = FirstCapacity(c)
    BY Sizes
  <2>2. panHeaderSize \in Nat /\ UplinkHeaderSize \in Nat
    BY DEF panHeaderSize, UplinkHeaderSize
  <2> QED
    BY <1>5, <2>1, <2>2 DEF Available
<1>7. Unsent(c, first)
  BY <1>3, <1>4 DEF Unsent
<1>8. /\ DOMAIN message = 1..k
      /\ \A i \in 1..k : message[i] = SerializeTopologiesAndSMEs(c, IF i = 1 THEN first ELSE NextPacket(c, message[i - 1]))
      /\ message = [i \in 1..k |-> message[i]]
  BY <1>1, <1>2, SentExists
<1>9. ASSUME NEW s, Unsent(c, s) PROVE Unsent(c, SerializeTopologiesAndSMEs(c, NextPacket(c, s)))
  <2>1. Unsent(c, NextPacket(c, s)) /\ NextPacket(c, s).pkt = PutPanHeader(EmptyPacket, c.panId)
    BY <1>9 DEF Unsent, NextPacket
  <2>2. NextPacket(c, s).pkt.dataSize = 0 + panHeaderSize
    BY <2>1 DEF PutPanHeader, Put, EmptyPacket
  <2>3. c.maxPktSize - panHeaderSize = OtherCapacity(c) /\ OtherCapacity(c) \in Nat
    BY Sizes
  <2>4. Available(c, NextPacket(c, s).pkt) \in Nat
    BY <2>2, <2>3 DEF Available, panHeaderSize
  <2> QED
    BY <2>1, <2>4, SerializedIsUnsent
<1>10. Unsent(c, message[1])
  <2>1. message[1] = SerializeTopologiesAndSMEs(c, first)
    BY <1>1, <1>8
  <2> QED
    BY <1>6, <1>7, <2>1, SerializedIsUnsent
<1>11. \A i \in 1..k : Unsent(c, message[i])
  <2> DEFINE S == {s \in {message[i] : i \in 1..k} : Unsent(c, s)}
             f == [i \in 0..(k - 1) |-> message[i + 1]]
  <2>1. f[0] \in S
    <3>1. 0 \in 0..(k - 1) /\ 1 \in 1..k /\ 0 + 1 = 1
      BY <1>1
    <3>2. f[0] = message[1]
      BY <3>1
    <3> QED
      BY <1>10, <3>1, <3>2
  <2>2. \A i \in 1..(k - 1) : f[i - 1] \in S => f[i] \in S
    <3> SUFFICES ASSUME NEW i \in 1..(k - 1), f[i - 1] \in S PROVE f[i] \in S
      OBVIOUS
    <3>1. i - 1 \in 0..(k - 1) /\ i \in 0..(k - 1) /\ i + 1 \in 1..k /\ i + 1 # 1 /\ (i + 1) - 1 = i /\ (i - 1) + 1 = i
      BY <1>1
    <3>2. f[i - 1] = message[i] /\ f[i] = message[i + 1]
      BY <3>1
    <3> HIDE DEF f
    <3>3. message[i + 1] = SerializeTopologiesAndSMEs(c, NextPacket(c, message[i]))
      BY <1>8, <3>1
    <3> QED
      BY <1>9, <3>1, <3>2, <3>3
  <2>3. \A i \in 0..(k - 1) : f[i] \in S
    <3>1. k - 1 \in Nat
      BY <1>1
    <3> HIDE DEF f, S
    <3> QED
      BY <2>1, <2>2, <3>1, IterationStays
  <2> SUFFICES ASSUME NEW i \in 1..k PROVE Unsent(c, message[i])
    OBVIOUS
  <2>4. i - 1 \in 0..(k - 1) /\ f[i - 1] = message[i]
    BY <1>1
  <2> HIDE DEF f
  <2> QED
    BY <2>3, <2>4
<1>12. HeaderIn(message[1].pkt) = header
  <2> DEFINE n == InPacket(c, first)
             topologies == Elements(SubSeq(first.topologyQueue, 1, n.topologies))
             reports == Elements(SubSeq(first.smeQueue, 1, n.smes))
             a == [i \in DOMAIN topologies |-> [value |-> topologies[i], bytes |-> TopologySize(c)]]
             b == [i \in DOMAIN reports |-> [value |-> reports[i], bytes |-> SMESize]]
  <2>1. message[1].pkt = SerializeSMEs(SerializeTopologies(c, first.pkt, topologies), reports)
    <3>1. message[1] = SerializeTopologiesAndSMEs(c, first)
      BY <1>1, <1>8
    <3> QED
      BY <3>1 DEF SerializeTopologiesAndSMEs
  <2>2. n.topologies \in Nat /\ n.smes \in Nat
    BY <1>6, <1>7, InPacketTyped
  <2>3. DOMAIN topologies = 1..n.topologies /\ DOMAIN reports = 1..n.smes
    <3>1. \E S, T : first.topologyQueue \in Seq(S) /\ first.smeQueue \in Seq(T)
      BY <1>7 DEF Unsent, IsQueue
    <3>2. /\ DOMAIN SubSeq(first.topologyQueue, 1, n.topologies) = 1..n.topologies
          /\ DOMAIN SubSeq(first.smeQueue, 1, n.smes) = 1..n.smes
      <4> HIDE DEF n
      <4> QED
        BY <2>2, <3>1
    <3> QED
      BY <3>2 DEF Elements
  <2> HIDE DEF topologies, reports, n
  <2>4. message[1].pkt.items = (first.pkt.items \o a) \o b
    BY <2>1 DEF SerializeSMEs, SerializeTopologies, PutAll
  <2>5. \E S : a \in Seq(S) /\ b \in Seq(S) /\ pan \in S /\ second \in S /\ third \in S
    <3> DEFINE A == {a[i] : i \in 1..n.topologies}
               B == {b[i] : i \in 1..n.smes}
               S == A \cup B \cup {pan, second, third}
    <3>1. a \in [1..n.topologies -> S] /\ b \in [1..n.smes -> S]
      BY <2>3
    <3> HIDE DEF a, b, pan, second, third, S
    <3>2. a \in Seq(S) /\ b \in Seq(S)
      BY <2>2, <3>1
    <3> QED
      BY <3>2 DEF S
  <2> HIDE DEF a, b, pan, third
  <2>6. Tail(message[1].pkt.items)[1] = second
    <3> HIDE DEF second
    <3> QED
      BY <1>5, <2>4, <2>5
  <2>7. "items" \in DOMAIN message[1].pkt /\ second.value = header
    <3>1. "items" \in DOMAIN first.pkt
      BY <1>4 DEF Put, PutPanHeader, EmptyPacket
    <3> QED
      BY <2>1, <3>1 DEF SerializeSMEs, SerializeTopologies, PutAll
  <2> HIDE DEF second
  <2> QED
    BY <2>6, <2>7 DEF HeaderIn, RemovePanHeader, Gone, Get
<1>13. PICK S : message \in [1..k -> S]
  <2>1. message \in [1..k -> {message[i] : i \in 1..k}]
    BY <1>8
  <2> QED
    BY <2>1
<1>14. DOMAIN message = 1..k /\ message \in Seq(S) /\ Len(message) = k
  BY <1>1, <1>13
<1> QED
  BY <1>1, <1>3, <1>11, <1>12, <1>14


\* What a node takes over keeps its queues queues.
HasQueues(u) ==
    {"topologyQueue", "smeQueue"} \subseteq DOMAIN u /\ IsQueue(u.topologyQueue) /\ IsQueue(u.smeQueue)
Numbers(header) == header.numTopology \in Nat /\ header.numSME \in Nat

LEMMA TakeOverQueues ==
    ASSUME NEW c \in Networks, NEW u, HasQueues(u), NEW header, Numbers(header), NEW received, NEW body
    PROVE  HasQueues(TakeOver(u, Contents(c, header, received, body)))
<1> DEFINE n == Layout(c, header, received)
           topologies == DeserializeTopologies(body, n)
           smes1 == DeserializeSMEs(body, n)
           a == [i \in DOMAIN topologies |-> [key |-> topologies[i].id, val |-> topologies[i]]]
           b == [i \in DOMAIN smes1 |-> [key |-> GetKey(smes1[i]), val |-> smes1[i]]]
           t == TakeOver(u, Contents(c, header, received, body))
<1>1. n.topologies \in Nat /\ n.smes \in Nat
  BY LayoutTyped DEF Numbers
<1>2. DOMAIN topologies = 1..n.topologies /\ DOMAIN smes1 = 1..n.smes
  BY DEF DeserializeTopologies, DeserializeSMEs, Taken
<1>3. t = [u EXCEPT !.topologyQueue = EnqueueAll(@, a), !.smeQueue = EnqueueAll(@, b)]
  BY DEF TakeOver, Contents
<1> HIDE DEF topologies, smes1, n, t
<1>4. Len(a) \in Nat /\ Len(b) \in Nat
  <2> DEFINE A == {a[i] : i \in 1..n.topologies}
             B == {b[i] : i \in 1..n.smes}
  <2>1. a \in [1..n.topologies -> A] /\ b \in [1..n.smes -> B]
    BY <1>2
  <2> HIDE DEF a, b, A, B
  <2>2. a \in Seq(A) /\ b \in Seq(B)
    BY <1>1, <2>1
  <2> QED
    BY <2>2
<1> HIDE DEF a, b
<1>5. IsQueue(EnqueueAll(u.topologyQueue, a)) /\ IsQueue(EnqueueAll(u.smeQueue, b))
  BY <1>4, EnqueueAllIsQueue DEF HasQueues
<1>6. HasQueues(t)
  BY <1>3, <1>5 DEF HasQueues
<1> QED
  BY <1>6 DEF t

LEMMA TakeOverAllQueues ==
    ASSUME NEW c \in Networks, NEW u, HasQueues(u), NEW header, Numbers(header),
           NEW packets, Len(packets) \in Nat \ {0}
    PROVE  HasQueues(TakeOverAll(c, u, header, packets))
<1> DEFINE n == Len(packets)
           Goes(i) == /\ i <= GetNumPackets(c, header)
                      /\ \A j \in 2..i : CheckOtherPacket(c, header, j - 1, packets[j])
           Start == TakeOver(u, Contents(c, header, 0, FirstBody(c, packets[1])))
           More(r, i) == IF Goes(i) THEN TakeOver(r, Contents(c, header, i - 1, RemovePanHeader(packets[i]))) ELSE r
           Tell(r, i) == IF i = 1 THEN Start ELSE More(r, i)
           Steps(f, k) == f = [i \in 1..k |-> Tell(f[i - 1], i)]
           Is(f) == f = [i \in 1..Len(packets) |->
                            IF i = 1 THEN TakeOver(u, Contents(c, header, 0, FirstBody(c, packets[1])))
                            ELSE IF /\ i <= GetNumPackets(c, header)
                                    /\ \A j \in 2..i : CheckOtherPacket(c, header, j - 1, packets[j])
                            THEN TakeOver(f[i - 1], Contents(c, header, i - 1, RemovePanHeader(packets[i])))
                            ELSE f[i - 1]]
           f == CHOOSE h : Is(h)
           Missing == {k \in 0..n : ~ \E h : Steps(h, k)}
<1>1. TakeOverAll(c, u, header, packets) = [u EXCEPT !.topologyQueue = f[n].topologyQueue, !.smeQueue = f[n].smeQueue]
  BY DEF TakeOverAll
<1>2. \A h : Steps(h, n) <=> Is(h)
  OBVIOUS
<1>3. \A r1, r2 : Tell(r1, 1) = Tell(r2, 1)
  OBVIOUS
<1>4. HasQueues(Start) /\ \A r, i : HasQueues(r) => HasQueues(More(r, i))
  <2>1. HasQueues(Start)
    BY TakeOverQueues
  <2>2. ASSUME NEW r, NEW i, HasQueues(r) PROVE HasQueues(More(r, i))
    <3> HIDE DEF Goes
    <3>1. HasQueues(TakeOver(r, Contents(c, header, i - 1, RemovePanHeader(packets[i]))))
      BY <2>2, TakeOverQueues
    <3> QED
      BY <2>2, <3>1
  <2> HIDE DEF More, Start
  <2> QED
    BY <2>1, <2>2
<1>5. \A r : Tell(r, 1) = Start /\ \A i : i # 1 => Tell(r, i) = More(r, i)
  OBVIOUS
<1>6. n \in Nat \ {0}
  OBVIOUS
<1> HIDE DEF f, Is, Tell, Start, More, n
<1>7. Missing = {}
  <2> SUFFICES ASSUME Missing # {} PROVE FALSE
    OBVIOUS
  <2>1. PICK k \in Missing : \A m \in Missing : k <= m
    <3> HIDE DEF Missing
    <3>1. Missing \subseteq Nat
      BY <1>6 DEF Missing
    <3> QED
      BY <3>1, LeastNumber
  <2>2. CASE k = 0
    <3> DEFINE g == [i \in 1..0 |-> u]
    <3>1. Steps(g, 0)
      OBVIOUS
    <3> QED
      BY <2>1, <2>2, <3>1
  <2>3. CASE k # 0
    <3>1. k \in 1..n /\ k - 1 \in 0..n /\ k - 1 < k
      BY <1>6, <2>1, <2>3
    <3>2. PICK h : Steps(h, k - 1)
      <4> HIDE DEF Steps
      <4> QED
        BY <2>1, <3>1
    <3> DEFINE g == [i \in 1..k |-> IF i = k THEN Tell(h[k - 1], k) ELSE h[i]]
    <3>3. \A i \in 1..k : g[i] = Tell(g[i - 1], i)
      <4> SUFFICES ASSUME NEW i \in 1..k PROVE g[i] = Tell(g[i - 1], i)
        OBVIOUS
      <4>0. g[i] = IF i = k THEN Tell(h[k - 1], k) ELSE h[i]
        OBVIOUS
      <4>1. CASE i = 1
        <5>1. g[i] = Tell(h[i - 1], i)
          BY <3>1, <3>2, <4>0, <4>1
        <5> QED
          BY <1>3, <4>1, <5>1
      <4>2. CASE i # 1
        <5>1. i - 1 \in 1..(k - 1) /\ g[i - 1] = h[i - 1]
          BY <3>1, <4>2
        <5> QED
          BY <3>1, <3>2, <4>0, <5>1
      <4> QED
        BY <4>1, <4>2
    <3>4. Steps(g, k)
      BY <3>3
    <3> QED
      BY <2>1, <3>4
  <2> QED
    BY <2>2, <2>3
<1>8. Steps(f, n)
  <2>1. n \in 0..n
    BY <1>6
  <2>2. \E h : Steps(h, n)
    <3> HIDE DEF Steps
    <3> QED
      BY <1>7, <2>1
  <2>3. \E h : Is(h)
    BY <1>2, <2>2
  <2>4. Is(f)
    BY <2>3 DEF f
  <2> QED
    BY <1>2, <2>4
<1> HIDE DEF Missing
<1>9. f[1] = Start /\ \A i \in 2..n : f[i] = More(f[i - 1], i)
  <2>1. f[1] = Tell(f[0], 1)
    BY <1>6, <1>8
  <2>2. \A i \in 2..n : i \in 1..n /\ i # 1
    BY <1>6
  <2>3. \A i \in 2..n : f[i] = Tell(f[i - 1], i)
    BY <1>8, <2>2
  <2> QED
    BY <1>5, <2>1, <2>2, <2>3
<1>10. HasQueues(f[n])
  <2> DEFINE S == {s \in {f[i] : i \in 1..n} : HasQueues(s)}
             g == [i \in 0..(n - 1) |-> f[i + 1]]
  <2>1. g[0] \in S
    BY <1>4, <1>6, <1>9
  <2>2. \A i \in 1..(n - 1) : g[i - 1] \in S => g[i] \in S
    <3> SUFFICES ASSUME NEW i \in 1..(n - 1), g[i - 1] \in S PROVE g[i] \in S
      OBVIOUS
    <3>1. i - 1 \in 0..(n - 1) /\ i \in 0..(n - 1) /\ i + 1 \in 2..n /\ i + 1 \in 1..n /\ (i + 1) - 1 = i /\ (i - 1) + 1 = i
      BY <1>6
    <3>2. g[i - 1] = f[i] /\ g[i] = f[i + 1]
      BY <3>1
    <3> HIDE DEF g
    <3>3. f[i + 1] = More(f[i], i + 1)
      BY <1>9, <3>1
    <3> QED
      BY <1>4, <3>1, <3>2, <3>3
  <2>3. n - 1 \in 0..(n - 1) /\ n - 1 \in Nat /\ g[n - 1] = f[n]
    BY <1>6
  <2> HIDE DEF g, S
  <2>4. g[n - 1] \in S
    BY <2>1, <2>2, <2>3, IterationStays
  <2> QED
    BY <2>3, <2>4 DEF S
<1> QED
  BY <1>1, <1>10 DEF HasQueues

LEMMA ReceiveUplinkQueues ==
    ASSUME NEW c \in Networks, NEW u, HasQueues(u), NEW me, NEW packets, NEW rssi,
           Len(packets) \in Nat \ {0}, Numbers(HeaderIn(packets[1]))
    PROVE  HasQueues(ReceiveUplink(c, u, me, packets, rssi))
<1> DEFINE header == HeaderIn(packets[1])
           sender == [SenderIn(packets[1]) EXCEPT !.id = u.next]
           known == [u EXCEPT !.table =
                       ReceivedMessage(c, me, @, GetHop(header), rssi, GetBadAssignee(header), sender)]
           queued == [known EXCEPT !.topologyQueue = Enqueue(@, u.next, sender)]
           taken == TakeOverAll(c, queued, header, packets)
           missed == [u EXCEPT !.table = MissedMessage(c, me, @, u.next)]
<1>1. HasQueues(known) /\ HasQueues(missed)
  BY DEF HasQueues
<1> HIDE DEF known, missed
<1>2. HasQueues(queued)
  BY <1>1, EnqueueIsQueue DEF HasQueues
<1> HIDE DEF queued
<1>3. HasQueues(taken)
  BY <1>2, TakeOverAllQueues
<1> HIDE DEF taken
<1>4. ReceiveUplink(c, u, me, packets, rssi) \in {Advance(c, taken), Advance(c, known), Advance(c, missed)}
  <2>1. ReceiveUplink(c, u, me, packets, rssi) \in {Heard(c, u, me, packets, rssi), MissUplink(c, u, me)}
    BY DEF ReceiveUplink
  <2>2. Heard(c, u, me, packets, rssi) = Advance(c, IF header.assignee = me THEN taken ELSE known)
    BY DEF Heard, taken, queued, known
  <2>3. MissUplink(c, u, me) = Advance(c, missed)
    BY DEF MissUplink, missed
  <2> QED
    BY <2>1, <2>2, <2>3
<1>5. \A r : HasQueues(r) => HasQueues(Advance(c, r))
  BY DEF HasQueues, Advance
<1> QED
  BY <1>1, <1>3, <1>4, <1>5


\* In every state the nodes have queues.
QueuesInv == \A n \in Nodes : HasQueues(uplink[n]) /\ IsQueue(smes[n])

LEMMA ReadyQueues ==
    ASSUME QueuesInv, NEW n \in Nodes
    PROVE  HasQueues(Ready(n))
<1> DEFINE entries == [i \in DOMAIN smes[n] |-> [key |-> GetKey(smes[n][i].val), val |-> smes[n][i].val]]
<1>1. HasQueues(uplink[n]) /\ IsQueue(smes[n])
  BY DEF QueuesInv
<1>2. Len(entries) \in Nat
  <2>1. PICK k \in Nat : DOMAIN smes[n] = 1..k
    BY <1>1 DEF IsQueue
  <2> DEFINE S == {entries[i] : i \in 1..k}
  <2>2. entries \in [1..k -> S]
    BY <2>1
  <2> HIDE DEF entries, S
  <2>3. entries \in Seq(S)
    BY <2>2
  <2> QED
    BY <2>3
<1>3. Ready(n) \in {uplink[n], [uplink[n] EXCEPT !.smeQueue = EnqueueAll(@, entries)]}
  BY DEF Ready
<1> HIDE DEF entries
<1>4. IsQueue(EnqueueAll(uplink[n].smeQueue, entries))
  BY <1>1, <1>2, EnqueueAllIsQueue DEF HasQueues
<1> QED
  BY <1>1, <1>3, <1>4 DEF HasQueues

LEMMA PhaseAfterQueues ==
    ASSUME net \in Networks, QueuesInv, NEW messages, messages = [n \in Speakers |-> MyMessage(net, Ready(n), n)],
           NEW deaf, NEW packets \in Nat \ {0}, NEW n \in Nodes
    PROVE  HasQueues(PhaseAfter(messages, deaf, packets, n))
<1> DEFINE received == Received(messages, packets, n)
           strength == Audible[<<SpeakerTo(n), n>>]
           phase == PhaseAfter(messages, deaf, packets, n)
           missed == [uplink[n] EXCEPT !.table = MissedMessage(net, n, @, uplink[n].next)]
<1>1. HasQueues(uplink[n])
  BY DEF QueuesInv
<1>2. \A m \in Speakers : /\ m \in Nodes /\ messages[m] = MyMessage(net, Ready(m), m)
                          /\ IsQueue(Ready(m).topologyQueue) /\ IsQueue(Ready(m).smeQueue)
  <2>1. \A m \in Nodes : HasQueues(Ready(m))
    BY ReadyQueues
  <2> QED
    BY <2>1 DEF Speakers, HasQueues
<1>3. ASSUME NEW m \in Speakers
      PROVE  /\ \E k \in Nat \ {0} : \E S : DOMAIN messages[m] = 1..k /\ messages[m] \in Seq(S) /\ Len(messages[m]) = k
             /\ \A i \in DOMAIN messages[m] : Unsent(net, messages[m][i])
             /\ Numbers(HeaderIn(messages[m][1].pkt))
  <2>1. PICK message : message = messages[m]
    OBVIOUS
  <2>2. message = MyMessage(net, Ready(m), m)
    BY <1>2, <2>1
  <2>3. PICK u : u = Ready(m)
    OBVIOUS
  <2>4. IsQueue(u.topologyQueue) /\ IsQueue(u.smeQueue)
    BY <1>2, <2>3
  <2>5. /\ \E k \in Nat \ {0} : \E S : DOMAIN message = 1..k /\ message \in Seq(S) /\ Len(message) = k
        /\ \A i \in DOMAIN message : Unsent(net, message[i])
        /\ HeaderIn(message[1].pkt).numTopology \in Nat /\ HeaderIn(message[1].pkt).numSME \in Nat
    BY <2>2, <2>3, <2>4, MessageTyped
  <2> QED
    BY <2>1, <2>5 DEF Numbers
<1>4. \A r : HasQueues(r) => HasQueues(Advance(net, r))
  BY DEF HasQueues, Advance
<1>5. CASE phase \in {uplink[n], Advance(net, uplink[n])}
  BY <1>1, <1>4, <1>5
<1>6. CASE n \in Speakers /\ phase = AfterMyUplink(net, Ready(n), n, messages[n])
  <2> DEFINE message == messages[n]
             last == message[Len(message)]
             own == [Ready(n) EXCEPT !.topologyQueue = Enqueue(@, 0, MyTopologyElement(0, Ready(n).table))]
             left == [Ready(n) EXCEPT !.topologyQueue = last.topologyQueue, !.smeQueue = last.smeQueue]
  <2>1. HasQueues(Ready(n))
    BY ReadyQueues
  <2>2. Unsent(net, last)
    <3>1. Len(message) \in DOMAIN message
      BY <1>3, <1>6
    <3> QED
      BY <1>3, <1>6, <3>1
  <2>3. HasQueues(own)
    BY <2>1, EnqueueIsQueue DEF HasQueues
  <2>4. HasQueues(left)
    BY <2>1, <2>2 DEF HasQueues, Unsent
  <2>5. phase = Advance(net, IF n = 0 THEN own ELSE left)
    BY <1>6 DEF AfterMyUplink
  <2> HIDE DEF own, left
  <2> QED
    BY <1>4, <2>3, <2>4, <2>5
<1>7. CASE n \in Hearers /\ phase = ReceiveUplink(net, uplink[n], n, received, strength)
  <2>1. SpeakerTo(n) \in Speakers
    <3>1. SpeakersTo(n) # {}
      <4>1. Cardinality(SpeakersTo(n)) = 1
        BY <1>7 DEF Hearers
      <4> QED
        BY <4>1, FS_EmptySet
    <3>2. SpeakerTo(n) \in SpeakersTo(n)
      BY <3>1 DEF SpeakerTo
    <3> QED
      BY <3>2 DEF SpeakersTo
  <2> DEFINE message == messages[SpeakerTo(n)]
             k == Min({packets, Len(message)})
  <2>2. PICK S : message \in Seq(S) /\ Len(message) \in Nat \ {0}
    BY <1>3, <2>1
  <2>3. Numbers(HeaderIn(message[1].pkt))
    BY <1>3, <2>1
  <2>4. received = PacketsOf(SubSeq(message, 1, k))
    BY DEF Received
  <2> HIDE DEF message
  <2>5. k \in 1..Len(message)
    <3>1. PICK l \in Nat \ {0} : l = Len(message)
      BY <2>2
    <3>2. \E x \in {packets, l} : \A y \in {packets, l} : x <= y
      OBVIOUS
    <3>3. Min({packets, l}) \in {packets, l} /\ Min({packets, l}) <= l
      BY <3>2 DEF Min
    <3> QED
      BY <3>1, <3>3
  <2> HIDE DEF k
  <2>6. SubSeq(message, 1, k) \in Seq(S) /\ Len(SubSeq(message, 1, k)) = k /\ SubSeq(message, 1, k)[1] = message[1]
        /\ DOMAIN SubSeq(message, 1, k) = 1..k
    BY <2>2, <2>5
  <2>7. received = [i \in 1..k |-> SubSeq(message, 1, k)[i].pkt]
    BY <2>4, <2>6 DEF PacketsOf
  <2> HIDE DEF received
  <2>8. Len(received) \in Nat \ {0} /\ received[1] = message[1].pkt
    <3> DEFINE T == {received[i] : i \in 1..k}
    <3>1. received \in [1..k -> T] /\ received[1] = message[1].pkt
      BY <2>5, <2>6, <2>7
    <3> HIDE DEF T
    <3>2. received \in Seq(T) /\ Len(received) = k
      BY <2>5, <2>2, <3>1
    <3> QED
      BY <2>2, <2>5, <3>1, <3>2
  <2>9. Numbers(HeaderIn(received[1]))
    BY <2>3, <2>8
  <2> HIDE DEF strength
  <2> QED
    BY <1>1, <1>7, <2>8, <2>9, ReceiveUplinkQueues
<1>8. CASE phase = MissUplink(net, uplink[n], n)
  <2>1. phase = Advance(net, missed) /\ HasQueues(missed)
    BY <1>1, <1>8 DEF MissUplink, HasQueues
  <2> QED
    BY <1>4, <2>1
<1>9. \/ phase \in {uplink[n], Advance(net, uplink[n])}
      \/ n \in Speakers /\ phase = AfterMyUplink(net, Ready(n), n, messages[n])
      \/ n \in Hearers /\ phase = ReceiveUplink(net, uplink[n], n, received, strength)
      \/ phase = MissUplink(net, uplink[n], n)
  BY DEF PhaseAfter
<1> HIDE DEF phase
<1> QED
  BY <1>5, <1>6, <1>7, <1>8, <1>9 DEF phase

LEMMA QueuesInit == Init => QueuesInv
<1> SUFFICES ASSUME Init, NEW n \in Nodes PROVE HasQueues(uplink[n]) /\ IsQueue(smes[n])
  BY DEF QueuesInv
<1>1. uplink[n] = EmptyUplink(net, 0) /\ smes[n] = EmptyQueue
  BY DEF Init
<1> QED
  BY <1>1, EmptyIsQueue DEF EmptyUplink, HasQueues

LEMMA QueuesNext == net \in Networks /\ QueuesInv /\ [Next]_vars => QueuesInv'
<1> SUFFICES ASSUME net \in Networks, QueuesInv, [Next]_vars PROVE QueuesInv'
  OBVIOUS
<1>1. CASE TimesyncPhase
  <2>1. PICK deaf \in SUBSET Dynamic : TimesyncStep(deaf)
    BY <1>1 DEF TimesyncPhase
  <2> SUFFICES ASSUME NEW n \in Nodes PROVE HasQueues(uplink'[n]) /\ IsQueue(smes'[n])
    BY <1>1 DEF TimesyncPhase, QueuesInv, Nodes
  <2>2. HasQueues(uplink[n]) /\ IsQueue(smes[n])
    BY DEF QueuesInv
  <2>3. smes'[n] \in {EmptyQueue, smes[n]}
    BY <2>1 DEF TimesyncStep
  <2>4. \E hop, time : uplink'[n] \in {Resync(net, uplink[n], hop, time), uplink[n]}
    <3> DEFINE wave == TimesyncWave(deaf)
    <3>1. uplink'[n] \in {Resync(net, uplink[n], HopIn(wave, n), TimesyncCounter * TilesPerTimesync(net)), uplink[n]}
      BY <2>1 DEF TimesyncStep
    <3> QED
      BY <3>1
  <2>5. \A hop, time : HasQueues(Resync(net, uplink[n], hop, time))
    BY <2>2, EmptyIsQueue DEF Resync, HasQueues
  <2> QED
    BY <2>2, <2>3, <2>4, <2>5, EmptyIsQueue
<1>2. CASE DownlinkPhase
  <2>1. PICK packet, got : DownlinkStep(packet, got)
    BY <1>2 DEF DownlinkPhase
  <2> SUFFICES ASSUME NEW n \in Nodes PROVE HasQueues(uplink[n]) /\ IsQueue(smes'[n])
    BY <1>2 DEF DownlinkPhase, QueuesInv, Nodes
  <2>2. HasQueues(uplink[n]) /\ IsQueue(smes[n])
    BY DEF QueuesInv
  <2>3. smes'[n] \in {Enqueue(smes[n], GetKey(MakeResendSME(n)), MakeResendSME(n)), smes[n]}
    BY <2>1 DEF DownlinkStep
  <2> QED
    BY <2>2, <2>3, EnqueueIsQueue
<1>3. CASE UplinkPhaseStep
  <2>1. PICK messages \in {[n \in Speakers |-> MyMessage(net, Ready(n), n)]},
             deaf \in SUBSET Hearers, packets \in 1..net.uplinkPackets : UplinkStep(messages, deaf, packets)
    BY <1>3 DEF UplinkPhaseStep
  <2> DEFINE now == [n \in Nodes |-> PhaseAfter(messages, deaf, packets, n)]
  <2>2. packets \in Nat \ {0}
    BY <2>1, Sizes
  <2>3. \A n \in Nodes : now[n] = PhaseAfter(messages, deaf, packets, n)
    OBVIOUS
  <2>4. \A n \in Nodes : HasQueues(now[n])
    BY <2>1, <2>2, <2>3, PhaseAfterQueues
  <2>5. uplink' = [now EXCEPT ![0].topologyQueue = EmptyQueue, ![0].smeQueue = EmptyQueue]
    BY <2>1 DEF UplinkStep, MasterTakes
  <2>6. DOMAIN now = Nodes
    OBVIOUS
  <2>7. \A n \in Nodes : smes'[n] \in {EmptyQueue, smes[n]}
    BY <2>1 DEF UplinkStep
  <2>8. net' = net
    BY <1>3 DEF UplinkPhaseStep
  <2> HIDE DEF now
  <2> SUFFICES ASSUME NEW n \in Nodes PROVE HasQueues(uplink'[n]) /\ IsQueue(smes'[n])
    BY <2>8 DEF QueuesInv, Nodes
  <2>9. IsQueue(smes'[n])
    BY <2>7, EmptyIsQueue DEF QueuesInv
  <2>10. n # 0 => uplink'[n] = now[n]
    BY <2>5, <2>6
  <2>11. n = 0 => uplink'[0] = [now[0] EXCEPT !.topologyQueue = EmptyQueue, !.smeQueue = EmptyQueue]
    BY <2>5, <2>6
  <2>12. n = 0 => HasQueues(uplink'[0])
    BY <2>4, <2>11, EmptyIsQueue DEF HasQueues
  <2> QED
    BY <2>4, <2>9, <2>10, <2>12
<1>4. CASE ~TimesyncPhase /\ ~DownlinkPhase /\ ~UplinkPhaseStep
  <2>1. UNCHANGED <<net, nodeVars>>
    BY <1>4, OtherStepsTakeNoTime
  <2> QED
    BY <2>1 DEF nodeVars, QueuesInv, Nodes
<1> QED
  BY <1>1, <1>2, <1>3, <1>4


-----------------------------------------------------------------------------
(***************************************************************************)
(* The topology again: all the reports of an uplink, and the scheduler.    *)
(***************************************************************************)
SameDemands(t, u) == u.usedLinks = t.usedLinks /\ u.newLinks = t.newLinks

LEMMA ReportsKeep ==
    ASSUME NEW t, TopologyOf(t), NEW queue, IsQueue(queue)
    PROVE  TopologyOf(HandleTopologies(net, t, queue)) /\ SameDemands(t, HandleTopologies(net, t, queue))
<1> DEFINE n == Len(queue)
           More(r, k) == DoReceivedTopology(net, r, queue[k].val)
           Tell(r, k) == IF k = 0 THEN t ELSE More(r, k)
           Steps(f, m) == f = [k \in 0..m |-> Tell(f[k - 1], k)]
           Is(f) == f = [k \in 0..Len(queue) |->
                            IF k = 0 THEN t ELSE DoReceivedTopology(net, f[k - 1], queue[k].val)]
           f == CHOOSE h : Is(h)
           Missing == {m \in 0..n : ~ \E h : Steps(h, m)}
           Good(r) == TopologyOf(r) /\ SameDemands(t, r)
<1>1. HandleTopologies(net, t, queue) = f[n]
  BY DEF HandleTopologies
<1>2. \A h : Steps(h, n) <=> Is(h)
  OBVIOUS
<1>3. \A r1, r2 : Tell(r1, 0) = Tell(r2, 0)
  OBVIOUS
<1>4. \A r, k : Good(r) => Good(More(r, k))
  <2> SUFFICES ASSUME NEW r, NEW k, Good(r) PROVE Good(More(r, k))
    OBVIOUS
  <2>1. PICK report : report = queue[k].val
    OBVIOUS
  <2>2. /\ TopologyOf(DoReceivedTopology(net, r, report))
        /\ DoReceivedTopology(net, r, report).usedLinks = r.usedLinks
        /\ DoReceivedTopology(net, r, report).newLinks = r.newLinks
    BY ReportKeeps
  <2> QED
    BY <2>1, <2>2 DEF SameDemands
<1>5. Good(t)
  BY DEF SameDemands
<1>6. n \in Nat
  BY DEF IsQueue
<1>7. \A r : Tell(r, 0) = t /\ \A k : k # 0 => Tell(r, k) = More(r, k)
  OBVIOUS
<1> HIDE DEF f, Is, Tell, More, n, Good
<1>8. Missing = {}
  <2> SUFFICES ASSUME Missing # {} PROVE FALSE
    OBVIOUS
  <2>1. PICK m \in Missing : \A j \in Missing : m <= j
    <3> HIDE DEF Missing
    <3>1. Missing \subseteq Nat
      BY <1>6 DEF Missing
    <3> QED
      BY <3>1, LeastNumber
  <2>2. CASE m = 0
    <3> DEFINE g == [k \in 0..0 |-> t]
    <3>1. ASSUME NEW k \in 0..0 PROVE g[k] = Tell(g[k - 1], k)
      <4>1. k = 0
        OBVIOUS
      <4>2. 0 \in 0..0 /\ g[0] = t
        <5>1. 0 \in 0..0
          OBVIOUS
        <5> QED
          BY <5>1, Zenon
      <4> QED
        BY <1>7, <4>1, <4>2
    <3>2. Steps(g, 0)
      BY <3>1
    <3> QED
      BY <2>1, <2>2, <3>2
  <2>3. CASE m # 0
    <3>1. m \in 1..n /\ m - 1 \in 0..n /\ m - 1 < m
      BY <1>6, <2>1, <2>3
    <3>2. PICK h : Steps(h, m - 1)
      <4> HIDE DEF Steps
      <4> QED
        BY <2>1, <3>1
    <3> DEFINE g == [k \in 0..m |-> IF k = m THEN Tell(h[m - 1], m) ELSE h[k]]
    <3>3. \A k \in 0..m : g[k] = Tell(g[k - 1], k)
      <4> SUFFICES ASSUME NEW k \in 0..m PROVE g[k] = Tell(g[k - 1], k)
        OBVIOUS
      <4>0. g[k] = IF k = m THEN Tell(h[m - 1], m) ELSE h[k]
        OBVIOUS
      <4>1. CASE k = 0
        <5>1. g[k] = Tell(h[k - 1], k)
          BY <3>1, <3>2, <4>0, <4>1
        <5> QED
          BY <1>3, <4>1, <5>1
      <4>2. CASE k # 0
        <5>1. k - 1 \in 0..(m - 1) /\ g[k - 1] = h[k - 1]
          BY <3>1, <4>2
        <5> QED
          BY <3>1, <3>2, <4>0, <5>1
      <4> QED
        BY <4>1, <4>2
    <3>4. Steps(g, m)
      BY <3>3
    <3> QED
      BY <2>1, <3>4
  <2> QED
    BY <2>2, <2>3
<1>9. Steps(f, n)
  <2>1. n \in 0..n
    BY <1>6
  <2>2. \E h : Steps(h, n)
    <3> HIDE DEF Steps
    <3> QED
      BY <1>8, <2>1
  <2>3. \E h : Is(h)
    BY <1>2, <2>2
  <2>4. Is(f)
    BY <2>3 DEF f
  <2> QED
    BY <1>2, <2>4
<1> HIDE DEF Missing
<1>10. f[0] = t /\ \A k \in 1..n : f[k] = More(f[k - 1], k)
  <2>1. f[0] = Tell(f[0 - 1], 0)
    BY <1>6, <1>9
  <2>2. \A k \in 1..n : k \in 0..n /\ k # 0
    BY <1>6
  <2>3. \A k \in 1..n : f[k] = Tell(f[k - 1], k)
    BY <1>9, <2>2
  <2> QED
    BY <1>7, <2>1, <2>2, <2>3
<1> DEFINE S == {r \in {f[k] : k \in 0..n} : Good(r)}
<1>11. f[0] \in S
  BY <1>5, <1>6, <1>10
<1>12. \A k \in 1..n : f[k - 1] \in S => f[k] \in S
  <2> SUFFICES ASSUME NEW k \in 1..n, Good(f[k - 1]) PROVE Good(f[k]) /\ k \in 0..n
    OBVIOUS
  <2> QED
    BY <1>4, <1>6, <1>10
<1> HIDE DEF S
<1>13. f[n] \in S
  BY <1>6, <1>11, <1>12, IterationStays
<1> QED
  BY <1>1, <1>13 DEF S, Good


Links(schedule) == {<<schedule[i].tx, schedule[i].rx>> : i \in DOMAIN schedule}

LEMMA UsedInOrder ==
    ASSUME net \in Networks, NEW schedule \in Seq(AllTransmissions(net)), NEW i \in DOMAIN schedule,
           NEW j \in DOMAIN schedule, NEW l, l = OrderLink(schedule[i].tx, schedule[j].rx)
    PROVE  /\ l \in Nat \X Nat /\ l[1] <= l[2] /\ l = <<l[1], l[2]>>
           /\ l \in {<<schedule[i].tx, schedule[j].rx>>, <<schedule[j].rx, schedule[i].tx>>}
<1>1. net.maxNodes \in Nat
  BY StreamsOfNetwork
<1>2. NodeIds(net) \subseteq Nat
  BY <1>1 DEF NodeIds
<1>3. schedule[i] \in AllTransmissions(net) /\ schedule[j] \in AllTransmissions(net)
  OBVIOUS
<1>4. schedule[i].tx \in Nat /\ schedule[j].rx \in Nat
  BY <1>2, <1>3 DEF AllTransmissions, ScheduleElement
<1>5. PICK a \in Nat, b \in Nat : a = schedule[i].tx /\ b = schedule[j].rx
  BY <1>4
<1>6. l = IF a < b THEN <<a, b>> ELSE <<b, a>>
  BY <1>5 DEF OrderLink
<1> QED
  BY <1>5, <1>6

LEMMA RouteLinks ==
    ASSUME net \in Networks, NEW ids, NEW g
    PROVE  Links(Schedule(ids, g)) \subseteq g
<1> DEFINE T == Transmissions(net, g, Streams(net))
<1>1. Schedule(ids, g) \in Seq(T)
  BY StreamsOfNetwork, TransmissionsFollowLinks DEF Schedule
<1>2. \A e \in T : <<e.tx, e.rx>> \in g
  <2> SUFFICES ASSUME NEW e \in T PROVE <<e.tx, e.rx>> \in g
    OBVIOUS
  <2>1. PICK s \in Streams(net), l \in NodeIds(net) \X NodeIds(net) :
            e = ScheduleElement(s, l[1], l[2]) /\ HasEdge(g, l[1], l[2])
    BY DEF Transmissions
  <2>2. e.tx = l[1] /\ e.rx = l[2]
    BY <2>1 DEF ScheduleElement
  <2> QED
    BY <2>1, <2>2 DEF HasEdge
<1> HIDE DEF T
<1>3. \A i \in DOMAIN Schedule(ids, g) : Schedule(ids, g)[i] \in T
  BY <1>1
<1> QED
  BY <1>2, <1>3 DEF Links

LEMMA LinksOfBoth ==
    ASSUME NEW T, NEW s \in Seq(T), NEW t \in Seq(T)
    PROVE  Links(s \o t) = Links(s) \cup Links(t)
<1>1. /\ Len(s) \in Nat /\ Len(t) \in Nat /\ DOMAIN (s \o t) = 1..(Len(s) + Len(t))
      /\ DOMAIN s = 1..Len(s) /\ DOMAIN t = 1..Len(t)
      /\ \A i \in 1..Len(s) : (s \o t)[i] = s[i]
      /\ \A i \in 1..Len(t) : (s \o t)[Len(s) + i] = t[i]
  OBVIOUS
<1> DEFINE u == s \o t
<1>2. \A i \in DOMAIN s : i \in DOMAIN u /\ u[i] = s[i]
  BY <1>1
<1>3. \A i \in DOMAIN t : Len(s) + i \in DOMAIN u /\ u[Len(s) + i] = t[i]
  BY <1>1
<1>4. \A i \in DOMAIN u : i \in DOMAIN s \/ (i - Len(s) \in DOMAIN t /\ Len(s) + (i - Len(s)) = i)
  BY <1>1
<1> HIDE DEF u
<1>5. \A i \in DOMAIN u : <<u[i].tx, u[i].rx>> \in Links(s) \cup Links(t)
  <2> SUFFICES ASSUME NEW i \in DOMAIN u PROVE <<u[i].tx, u[i].rx>> \in Links(s) \cup Links(t)
    OBVIOUS
  <2>1. CASE i \in DOMAIN s
    BY <1>2, <2>1 DEF Links
  <2>2. CASE i - Len(s) \in DOMAIN t /\ Len(s) + (i - Len(s)) = i
    <3>1. PICK j \in DOMAIN t : Len(s) + j = i
      BY <2>2
    <3> QED
      BY <1>3, <3>1 DEF Links
  <2> QED
    BY <1>4, <2>1, <2>2
<1>6. Links(s) \subseteq Links(u)
  BY <1>2 DEF Links
<1>7. Links(t) \subseteq Links(u)
  <2> SUFFICES ASSUME NEW j \in DOMAIN t PROVE <<t[j].tx, t[j].rx>> \in Links(u)
    BY DEF Links
  <2> QED
    BY <1>3 DEF Links
<1>8. Links(u) \subseteq Links(s) \cup Links(t)
  BY <1>5 DEF Links
<1> QED
  BY <1>6, <1>7, <1>8 DEF u

\* The links of a new schedule are those of the graph it was routed on, or of
\* the schedule before it.
LEMMA NewScheduleLinks ==
    ASSUME net \in Networks, PublishedTyped
    PROVE  /\ NewSchedule.schedule \in Seq(AllTransmissions(net))
           /\ Links(NewSchedule.schedule) \subseteq
                    sch.graph \cup (IF sch.graphChanged THEN {} ELSE Links(published.schedule))
<1>1. PICK anew : anew = Schedule(sch.established, sch.graph)
  OBVIOUS
<1>2. PICK more : more = Schedule(IF sch.added THEN sch.accepted ELSE {}, sch.graph)
  OBVIOUS
<1>3. PICK new : new = Schedule(sch.accepted, sch.graph)
  OBVIOUS
<1>4. /\ anew \in Seq(AllTransmissions(net)) /\ Links(anew) \subseteq sch.graph
      /\ more \in Seq(AllTransmissions(net)) /\ Links(more) \subseteq sch.graph
      /\ new \in Seq(AllTransmissions(net)) /\ Links(new) \subseteq sch.graph
  BY <1>1, <1>2, <1>3, ScheduleTyped, RouteLinks
<1>5. published.schedule \in Seq(AllTransmissions(net))
  BY DEF PublishedTyped
<1>6. NewSchedule.schedule = IF sch.graphChanged THEN anew \o more ELSE published.schedule \o new
  BY <1>1, <1>2, <1>3 DEF NewSchedule, WithLinks
<1>7. CASE sch.graphChanged
  BY <1>4, <1>6, <1>7, LinksOfBoth
<1>8. CASE ~sch.graphChanged
  BY <1>4, <1>5, <1>6, <1>8, LinksOfBoth
<1> QED
  BY <1>7, <1>8


LEMMA ReachablePart ==
    ASSUME NEW g, Undirected(g)
    PROVE  RemoveUnreachableNodes(g) \subseteq g /\ Undirected(RemoveUnreachableNodes(g))
<1>1. PICK reachable : RemoveUnreachableNodes(g) = {e \in g : e[1] \in reachable /\ e[2] \in reachable}
  BY DEF RemoveUnreachableNodes
<1> DEFINE h == {e \in g : e[1] \in reachable /\ e[2] \in reachable}
<1>2. Undirected(h)
  <2> SUFFICES ASSUME NEW e \in h PROVE e = <<e[1], e[2]>> /\ <<e[2], e[1]>> \in h /\ e[1] # e[2]
    BY DEF Undirected
  <2>1. e = <<e[1], e[2]>> /\ <<e[2], e[1]>> \in g /\ e[1] # e[2] /\ e[1] \in reachable /\ e[2] \in reachable
    BY DEF Undirected
  <2> QED
    BY <2>1
<1> QED
  BY <1>1, <1>2

\* What a state says of the topology, apart from the links noted or used.
TopologyBasics(t) ==
    /\ DOMAIN t = TopologyFields
    /\ Undirected(t.graph) /\ Undirected(t.weakGraph)
    /\ \A l \in t.usedLinks \cup t.newLinks : l \in Nat \X Nat /\ l[1] <= l[2]
    /\ \A l \in t.removed \cup t.added : Ordered(l)
    /\ ~net.channelSpatialReuse => t.newLinks = {}

LEMMA GraphStep ==
    ASSUME TopologyInv, SchedGraph
    PROVE  TopologyInv'
<1>1. sch.pc = "graph" /\ ~Scheduling /\ net' = net /\ published' = published
  BY DEF SchedGraph, Thread, Scheduling, SchedOnly
<1>2. TopologyBasics(topo) /\ topo.inProgress = FALSE /\ topo.removed = {} /\ topo.added = {} /\ (~topo.modified => Fits(topo))
  BY <1>1 DEF TopologyInv, TopologyOf, TopologyBasics
<1>3. PICK connected : /\ connected = IF topo.maybeCut THEN RemoveUnreachableNodes(topo.graph) ELSE topo.graph
                       /\ sch'.pc = IF connected # topo.graph THEN "writeback" ELSE "compute"
                       /\ sch'.graph = connected /\ sch'.weakGraph = topo.weakGraph
                       /\ sch'.graphChanged = topo.modified
                       /\ {"graph", "weakGraph", "graphChanged"} \subseteq DOMAIN sch'
                       /\ cutOff' = cutOff \cup (topo.graph \ connected)
  BY DEF SchedGraph
<1>4. connected \subseteq topo.graph /\ Undirected(connected)
  BY <1>2, <1>3, ReachablePart DEF TopologyBasics
<1>5. topo' = [topo EXCEPT !.inProgress = TRUE, !.modified = FALSE]
  BY DEF SchedGraph, UpdateSchedulerNetworkGraph
<1>6. /\ DOMAIN topo' = TopologyFields /\ topo'.inProgress = TRUE /\ topo'.modified = FALSE
      /\ topo'.graph = topo.graph /\ topo'.weakGraph = topo.weakGraph
      /\ topo'.usedLinks = topo.usedLinks /\ topo'.newLinks = topo.newLinks
      /\ topo'.removed = {} /\ topo'.added = {}
  BY <1>2, <1>5 DEF TopologyBasics, TopologyFields
<1>7. Scheduling'
  BY <1>3 DEF Scheduling
<1>8. ChangesNoted(topo)'
  <2>1. \A e \in sch'.graph : e \in topo'.graph
    BY <1>3, <1>4, <1>6
  <2>2. net.useWeakTopologies \/ (net.channelSpatialReuse /\ sch'.pc = "compute") =>
            \A e \in InterferenceGraph(topo)' : e \in InterferenceGraph(sch)'
    <3> SUFFICES ASSUME net.useWeakTopologies \/ (net.channelSpatialReuse /\ sch'.pc = "compute")
                 PROVE  \A e \in InterferenceGraph(topo)' : e \in InterferenceGraph(sch)'
      OBVIOUS
    <3>1. CASE net.useWeakTopologies
      BY <1>1, <1>3, <1>6, <3>1 DEF InterferenceGraph
    <3>2. CASE ~net.useWeakTopologies
      <4>1. connected = topo.graph
        BY <1>3, <3>2
      <4> QED
        BY <1>1, <1>3, <1>6, <3>2, <4>1 DEF InterferenceGraph
    <3> QED
      BY <3>1, <3>2
  <2>3. ASSUME ~topo.modified
        PROVE  /\ \A l \in topo.usedLinks : l \in connected \cup cutOff'
               /\ \A l \in topo.newLinks : l \notin InterferenceGraph(sch)'
    <3>1. \A l \in topo.usedLinks \cup topo.newLinks : l = <<l[1], l[2]>>
      BY <1>2 DEF TopologyBasics
    <3>2. Fits(topo)
      BY <1>2, <2>3
    <3>3. \A l \in topo.usedLinks : l \in topo.graph \/ l \in cutOff
      BY <3>1, <3>2 DEF Fits, HasEdge
    <3>4. \A l \in topo.newLinks : l \notin InterferenceGraph(topo)
      BY <3>1, <3>2 DEF Fits, HasEdge
    <3>5. InterferenceGraph(sch)' \subseteq InterferenceGraph(topo)
      BY <1>1, <1>3, <1>4 DEF InterferenceGraph
    <3> QED
      BY <1>3, <3>3, <3>4, <3>5
  <2> QED
    BY <1>1, <1>2, <1>3, <1>4, <1>6, <2>1, <2>2, <2>3 DEF ChangesNoted, TopologyBasics
<1>9. TopologyOf(topo)'
  BY <1>1, <1>2, <1>6, <1>7, <1>8 DEF TopologyOf, TopologyBasics
<1>10. sch'.pc # "publish" /\ sch.pc # "publish"
  BY <1>1, <1>3
<1> QED
  BY <1>1, <1>6, <1>9, <1>10 DEF TopologyInv, ScheduleTold

LEMMA WriteBackStep ==
    ASSUME TopologyInv, SchedWriteBack, "pc" \in DOMAIN sch
    PROVE  TopologyInv'
<1>1. sch.pc = "writeback" /\ Scheduling /\ net' = net /\ published' = published /\ cutOff' = cutOff
  BY DEF SchedWriteBack, Thread, Scheduling, SchedOnly
<1>2. TopologyBasics(topo) /\ topo.inProgress = TRUE /\ ChangesNoted(topo)
  BY <1>1 DEF TopologyInv, TopologyOf, TopologyBasics
<1>3. sch' = [sch EXCEPT !.pc = "compute"] /\ topo' = [topo EXCEPT !.graph = sch.graph, !.maybeCut = FALSE]
  BY <1>2 DEF SchedWriteBack, WriteBackNetworkGraph, ChangesNoted
<1>4. /\ sch'.graph = sch.graph /\ sch'.weakGraph = sch.weakGraph /\ sch'.graphChanged = sch.graphChanged
      /\ {"graph", "weakGraph", "graphChanged"} \subseteq DOMAIN sch'
  BY <1>2, <1>3 DEF ChangesNoted
<1>5. sch'.pc = "compute"
  BY <1>3
<1>6. /\ DOMAIN topo' = TopologyFields /\ topo'.inProgress = TRUE /\ topo'.modified = topo.modified
      /\ topo'.graph = sch.graph /\ topo'.weakGraph = topo.weakGraph
      /\ topo'.usedLinks = topo.usedLinks /\ topo'.newLinks = topo.newLinks
      /\ topo'.removed = topo.removed /\ topo'.added = topo.added
  BY <1>2, <1>3 DEF TopologyBasics, TopologyFields
<1>7. Scheduling'
  BY <1>5 DEF Scheduling
<1>8. ChangesNoted(topo)'
  <2>1. InterferenceGraph(sch)' = InterferenceGraph(sch)
    BY <1>1, <1>4 DEF InterferenceGraph
  <2>2. CASE net.useWeakTopologies
    <3>1. InterferenceGraph(topo)' = InterferenceGraph(topo)
      BY <1>1, <1>6, <2>2 DEF InterferenceGraph
    <3> QED
      BY <1>1, <1>2, <1>4, <1>6, <2>1, <2>2, <3>1 DEF ChangesNoted
  <2>3. CASE ~net.useWeakTopologies
    <3>1. InterferenceGraph(topo)' = InterferenceGraph(sch)
      BY <1>1, <1>4, <1>6, <2>3 DEF InterferenceGraph
    <3> QED
      BY <1>1, <1>2, <1>4, <1>6, <2>1, <2>3, <3>1 DEF ChangesNoted
  <2> QED
    BY <2>2, <2>3
<1>9. TopologyOf(topo)'
  BY <1>1, <1>2, <1>4, <1>6, <1>7, <1>8 DEF TopologyOf, TopologyBasics, ChangesNoted
<1> QED
  BY <1>1, <1>5, <1>6, <1>9 DEF TopologyInv, ScheduleTold


\* A schedule that fits the graphs of the scheduler fits the topology, unless a
\* link that was noted says that it may not.
SameButLinks(t) ==
    /\ DOMAIN t = TopologyFields /\ t.graph = topo.graph /\ t.weakGraph = topo.weakGraph
    /\ t.modified = topo.modified /\ t.removed = topo.removed /\ t.added = topo.added

LEMMA ScheduleToldFits ==
    ASSUME TopologyInv, sch.pc = "compute", net' = net, ~Scheduling', NEW used, NEW new, NEW t,
           SameButLinks(t), t.usedLinks = used, t.newLinks = new, topo' = PerformDelayedChangesChecks(t),
           \A l \in used \cup new : l \in Nat \X Nat /\ l[1] <= l[2],
           \A l \in used : l \in sch.graph \/ l \in cutOff',
           \A l \in new : l \notin InterferenceGraph(sch),
           ~net.channelSpatialReuse => new = {}
    PROVE  TopologyOf(topo)' /\ topo'.usedLinks = used /\ topo'.newLinks = new
<1>1. TopologyBasics(topo) /\ ChangesNoted(topo)
  BY DEF TopologyInv, TopologyOf, TopologyBasics, Scheduling
<1>2. /\ DOMAIN topo' = TopologyFields /\ topo'.inProgress = FALSE
      /\ topo'.graph = topo.graph /\ topo'.weakGraph = topo.weakGraph
      /\ topo'.usedLinks = used /\ topo'.newLinks = new
      /\ topo'.removed = {} /\ topo'.added = {}
      /\ topo'.modified = (topo.modified \/ topo.removed \cap used # {} \/ topo.added \cap new # {})
  BY DEF PerformDelayedChangesChecks, SameButLinks, TopologyFields
<1>3. \A l \in used \cup new : l = <<l[1], l[2]>>
  OBVIOUS
<1>4. ASSUME ~topo'.modified PROVE Fits(topo)'
  <2>1. topo.removed \cap used = {} /\ topo.added \cap new = {}
    BY <1>2, <1>4
  <2>2. ASSUME NEW l \in used PROVE HasEdge(topo'.graph, l[1], l[2]) \/ l \in cutOff'
    <3>1. CASE l \in sch.graph
      <4>1. l \in topo.graph \/ Noted(l, topo.removed)
        BY <1>1, <3>1 DEF ChangesNoted
      <4>2. Noted(l, topo.removed) => l \in topo.removed
        <5>1. \A p \in topo.removed : Ordered(p)
          BY <1>1 DEF TopologyBasics
        <5> QED
          BY <2>2, <5>1, NotedInOrder
      <4> QED
        BY <1>2, <1>3, <2>1, <2>2, <4>1, <4>2 DEF HasEdge
    <3> QED
      BY <2>2, <3>1
  <2>3. ASSUME NEW l \in new PROVE ~HasEdge(InterferenceGraph(topo)', l[1], l[2])
    <3>1. l \notin InterferenceGraph(sch) /\ net.channelSpatialReuse
      BY <2>3
    <3>2. \A e \in InterferenceGraph(topo) : e \in InterferenceGraph(sch) \/ Noted(e, topo.added)
      BY <1>1, <3>1 DEF ChangesNoted
    <3>3. InterferenceGraph(topo)' = InterferenceGraph(topo)
      BY <1>2 DEF InterferenceGraph
    <3>4. Noted(l, topo.added) => l \in topo.added
      <4>1. \A p \in topo.added : Ordered(p)
        BY <1>1 DEF TopologyBasics
      <4> QED
        BY <2>3, <4>1, NotedInOrder
    <3> QED
      BY <1>3, <2>1, <2>3, <3>1, <3>2, <3>3, <3>4 DEF HasEdge
  <2> QED
    BY <1>2, <2>2, <2>3 DEF Fits
<1>5. Undirected(topo'.graph) /\ Undirected(topo'.weakGraph)
  <2>1. Undirected(topo.graph) /\ Undirected(topo.weakGraph)
    BY <1>1 DEF TopologyBasics
  <2> QED
    BY <1>2, <2>1
<1>7. \A l \in topo'.usedLinks \cup topo'.newLinks : l \in Nat \X Nat /\ l[1] <= l[2]
  BY <1>2
<1>8. \A l \in topo'.removed \cup topo'.added : Ordered(l)
  BY <1>2
<1>9. ~net'.channelSpatialReuse => topo'.newLinks = {}
  BY <1>2
<1>6. topo'.inProgress = Scheduling'
  <2>1. Scheduling' = FALSE
    BY DEF Scheduling
  <2> QED
    BY <1>2, <2>1
<1> QED
  BY <1>2, <1>4, <1>5, <1>6, <1>7, <1>8, <1>9 DEF TopologyOf

LEMMA ComputeStep ==
    ASSUME net \in Networks, TopologyInv, DistributionTypes, SchedCompute
    PROVE  TopologyInv'
<1>1. sch.pc = "compute" /\ net' = net
  BY DEF SchedCompute, Thread, SchedOnly
<1>2. ScheduleTold(published) /\ PublishedTyped
  BY <1>1 DEF TopologyInv, DistributionTypes
<1>3. TopologyBasics(topo) /\ ChangesNoted(topo)
  BY <1>1 DEF TopologyInv, TopologyOf, TopologyBasics, Scheduling
<1>4. CASE sch.graphChanged \/ sch.added
  <2> DEFINE new == NewSchedule
             used == UsedLinks(new.schedule)
             changed == sch.graphChanged
             free == InterferenceLinks(new.schedule)
  <2>1. /\ topo' = ScheduleChanged(topo, used, new.links) /\ sch'.pc = "publish" /\ sch'.new = new
        /\ cutOff' = IF changed THEN {} ELSE cutOff
    BY <1>4 DEF SchedCompute, Told
  <2>2. PICK t : topo' = PerformDelayedChangesChecks(t) /\ SameButLinks(t) /\ t.usedLinks = used /\ t.newLinks = new.links
    <3> DEFINE t == [topo EXCEPT !.usedLinks = used, !.newLinks = new.links]
    <3>1. SameButLinks(t) /\ t.usedLinks = used /\ t.newLinks = new.links
      BY <1>3 DEF TopologyBasics, SameButLinks, TopologyFields
    <3>2. topo' = PerformDelayedChangesChecks(t)
      BY <2>1 DEF ScheduleChanged
    <3> QED
      BY <3>1, <3>2
  <2>3. new.schedule \in Seq(AllTransmissions(net))
        /\ Links(new.schedule) \subseteq sch.graph \cup (IF changed THEN {} ELSE Links(published.schedule))
    BY <1>2, NewScheduleLinks
  <2>4. "links" \in DOMAIN new /\ new.links = free \cup (IF changed THEN {} ELSE published.links)
    BY DEF NewSchedule, WithLinks
  <2> HIDE DEF new
  <2>5. \A l \in used : /\ l \in Nat \X Nat /\ l[1] <= l[2]
                        /\ l \in Links(new.schedule) \/ <<l[2], l[1]>> \in Links(new.schedule)
    <3> SUFFICES ASSUME NEW i \in DOMAIN new.schedule, NEW l, l = OrderLink(new.schedule[i].tx, new.schedule[i].rx)
                 PROVE  /\ l \in Nat \X Nat /\ l[1] <= l[2]
                        /\ l \in Links(new.schedule) \/ <<l[2], l[1]>> \in Links(new.schedule)
      BY DEF UsedLinks
    <3>1. PICK s : s = new.schedule
      OBVIOUS
    <3>2. l \in Nat \X Nat /\ l[1] <= l[2] /\ l = <<l[1], l[2]>>
          /\ l \in {<<s[i].tx, s[i].rx>>, <<s[i].rx, s[i].tx>>}
      BY <2>3, <3>1, UsedInOrder
    <3>3. <<s[i].tx, s[i].rx>> \in Links(new.schedule)
      BY <3>1 DEF Links
    <3> QED
      BY <3>2, <3>3
  <2>6. \A e \in Links(published.schedule) : OrderLink(e[1], e[2]) \in topo.usedLinks
    BY <1>2 DEF ScheduleTold, UsedLinks, Links
  <2>7. \A l \in used : l \in sch.graph \/ l \in cutOff'
    <3> SUFFICES ASSUME NEW l \in used PROVE l \in sch.graph \/ l \in cutOff'
      OBVIOUS
    <3>0. l \in Nat \X Nat /\ l[1] <= l[2] /\ (l \in Links(new.schedule) \/ <<l[2], l[1]>> \in Links(new.schedule))
      BY <2>5
    <3>1. PICK a, b : /\ a \in Nat /\ b \in Nat /\ l = <<a, b>> /\ a <= b
                      /\ <<a, b>> \in Links(new.schedule) \/ <<b, a>> \in Links(new.schedule)
      <4>1. PICK a, b : a = l[1] /\ b = l[2]
        OBVIOUS
      <4>2. a \in Nat /\ b \in Nat /\ l = <<a, b>>
        BY <3>0, <4>1
      <4> QED
        BY <3>0, <4>1, <4>2
    <3>2. OrderLink(a, b) = l /\ OrderLink(b, a) = l
      BY <3>1 DEF OrderLink
    <3>3. CASE <<a, b>> \in sch.graph \/ <<b, a>> \in sch.graph
      BY <1>3, <3>1, <3>3 DEF ChangesNoted, Undirected
    <3>4. CASE ~changed /\ (<<a, b>> \in Links(published.schedule) \/ <<b, a>> \in Links(published.schedule))
      <4>1. l \in topo.usedLinks
        BY <2>6, <3>2, <3>4
      <4> QED
        BY <1>3, <2>1, <3>4, <4>1 DEF ChangesNoted
    <3> QED
      BY <2>3, <3>1, <3>3, <3>4
  <2>8. \A l \in free : /\ l \in Nat \X Nat /\ l[1] <= l[2] /\ l \notin InterferenceGraph(sch)
                        /\ net.channelSpatialReuse
    <3> SUFFICES ASSUME NEW l \in free
                 PROVE  /\ l \in Nat \X Nat /\ l[1] <= l[2] /\ l \notin InterferenceGraph(sch)
                        /\ net.channelSpatialReuse
      OBVIOUS
    <3>1. PICK s : s = new.schedule
      OBVIOUS
    <3>2. PICK i \in DOMAIN s, j \in DOMAIN s :
              /\ l = OrderLink(s[i].tx, s[j].rx) /\ net.channelSpatialReuse
              /\ ~HasEdge(InterferenceGraph(sch), s[i].tx, s[j].rx)
      BY <3>1 DEF InterferenceLinks, InterferenceGraph
    <3>3. l \in Nat \X Nat /\ l[1] <= l[2] /\ l \in {<<s[i].tx, s[j].rx>>, <<s[j].rx, s[i].tx>>}
      BY <2>3, <3>1, <3>2, UsedInOrder
    <3>4. Undirected(InterferenceGraph(sch))
      BY <1>3 DEF ChangesNoted, InterferenceGraph
    <3>5. l \notin InterferenceGraph(sch)
      BY <3>2, <3>3, <3>4 DEF HasEdge, Undirected
    <3> QED
      BY <3>2, <3>3, <3>5
  <2>9. ~changed => published.links = topo.newLinks
                    /\ \A l \in topo.newLinks : l \in Nat \X Nat /\ l[1] <= l[2] /\ l \notin InterferenceGraph(sch)
    BY <1>2, <1>3 DEF ScheduleTold, ChangesNoted, TopologyBasics
  <2> HIDE DEF used, free, changed
  <2>10. ~Scheduling'
    BY <2>1 DEF Scheduling
  <2>11. \A l \in used \cup new.links : l \in Nat \X Nat /\ l[1] <= l[2]
    BY <2>4, <2>5, <2>8, <2>9
  <2>12. \A l \in new.links : l \notin InterferenceGraph(sch)
    BY <2>4, <2>8, <2>9
  <2>13. ~net.channelSpatialReuse => new.links = {}
    BY <1>3, <2>4, <2>8, <2>9 DEF TopologyBasics
  <2>14. TopologyOf(topo)' /\ topo'.usedLinks = used /\ topo'.newLinks = new.links
    BY <1>1, <2>2, <2>7, <2>10, <2>11, <2>12, <2>13, ScheduleToldFits
  <2>15. ScheduleTold(sch.new)'
    BY <2>1, <2>4, <2>14 DEF ScheduleTold, used
  <2> QED
    BY <2>1, <2>14, <2>15 DEF TopologyInv
<1>5. CASE ~(sch.graphChanged \/ sch.added)
  <2>1. /\ topo' = ScheduleNotChanged(topo) /\ sch'.pc = "waiting" /\ cutOff' = cutOff
        /\ published' = [published EXCEPT !.notApplied = sch.resend]
    BY <1>5 DEF SchedCompute
  <2> DEFINE used == topo.usedLinks
             new == topo.newLinks
  <2>2. SameButLinks(topo) /\ topo.usedLinks = used /\ topo.newLinks = new
    BY <1>3 DEF TopologyBasics, SameButLinks
  <2>3. topo' = PerformDelayedChangesChecks(topo)
    BY <2>1 DEF ScheduleNotChanged
  <2>4. ~Scheduling'
    BY <2>1 DEF Scheduling
  <2>5. /\ \A l \in used \cup new : l \in Nat \X Nat /\ l[1] <= l[2]
        /\ \A l \in used : l \in sch.graph \/ l \in cutOff'
        /\ \A l \in new : l \notin InterferenceGraph(sch)
        /\ ~net.channelSpatialReuse => new = {}
    BY <1>3, <1>5, <2>1 DEF TopologyBasics, ChangesNoted
  <2> HIDE DEF used, new
  <2>6. TopologyOf(topo)' /\ topo'.usedLinks = used /\ topo'.newLinks = new
    BY <1>1, <2>2, <2>3, <2>4, <2>5, ScheduleToldFits
  <2>7. published'.schedule = published.schedule /\ published'.links = published.links /\ "links" \in DOMAIN published'
    BY <1>2, <2>1 DEF ScheduleTold, PublishedTyped
  <2>8. ScheduleTold(published)'
    BY <1>2, <2>6, <2>7 DEF ScheduleTold, used, new
  <2> QED
    BY <2>1, <2>6, <2>8 DEF TopologyInv
<1> QED
  BY <1>4, <1>5


\* The steps that leave the topology alone.
LEMMA TopologyRests ==
    ASSUME TopologyInv, ~Scheduling, ~Scheduling', net' = net, topo' = topo, cutOff' = cutOff
    PROVE  TopologyOf(topo)'
<1>1. /\ TopologyBasics(topo) /\ topo.inProgress = Scheduling
      /\ topo.removed = {} /\ topo.added = {} /\ (~topo.modified => Fits(topo))
  BY DEF TopologyInv, TopologyOf, TopologyBasics
<1>2. Fits(topo)' = Fits(topo)
  BY DEF Fits, InterferenceGraph
<1>3. Scheduling = FALSE /\ Scheduling' = FALSE
  BY DEF Scheduling
<1>4. Undirected(topo'.graph) /\ Undirected(topo'.weakGraph)
  BY <1>1 DEF TopologyBasics
<1>5. \A l \in topo'.usedLinks \cup topo'.newLinks : l \in Nat \X Nat /\ l[1] <= l[2]
  BY <1>1 DEF TopologyBasics
<1>6. \A l \in topo'.removed \cup topo'.added : Ordered(l)
  BY <1>1 DEF TopologyBasics
<1>7. ~net'.channelSpatialReuse => topo'.newLinks = {}
  BY <1>1 DEF TopologyBasics
<1>8. DOMAIN topo' = TopologyFields /\ topo'.inProgress = Scheduling'
  BY <1>1, <1>3 DEF TopologyBasics
<1>9. topo'.removed = {} /\ topo'.added = {} /\ (~topo'.modified => Fits(topo)')
  BY <1>1, <1>2
<1> QED
  BY <1>4, <1>5, <1>6, <1>7, <1>8, <1>9 DEF TopologyOf

LEMMA SchedulerKeepsTopology ==
    ASSUME net \in Networks, TopologyInv, DistributionTypes, Scheduler
    PROVE  TopologyInv'
<1>1. /\ "pc" \in DOMAIN sch /\ "schedule" \in DOMAIN published
      /\ ScheduleTold(IF sch.pc = "publish" THEN sch.new ELSE published)
  BY DEF DistributionTypes, SchedulerTyped, PublishedTyped, TopologyInv
<1>2. CASE SchedWake
  <2>1. /\ sch.pc = "waiting" /\ net' = net /\ topo' = topo /\ cutOff' = cutOff
        /\ sch'.pc \in {"snapshot", "waiting"}
        /\ \E applied : published' = [published EXCEPT !.notApplied = applied]
    BY <1>2 DEF SchedWake, SchedOnly, Thread
  <2>2. /\ "links" \in DOMAIN published' /\ published'.schedule = published.schedule
        /\ published'.links = published.links
    BY <1>1, <2>1 DEF ScheduleTold
  <2>3. TopologyOf(topo)'
    BY <2>1, TopologyRests DEF Scheduling
  <2>4. ScheduleTold(published)'
    BY <1>1, <2>1, <2>2 DEF ScheduleTold, UsedLinks
  <2> QED
    BY <2>1, <2>3, <2>4 DEF TopologyInv
<1>3. CASE SchedSnapshot
  <2>1. /\ sch.pc = "snapshot" /\ net' = net /\ topo' = topo /\ cutOff' = cutOff
        /\ sch'.pc = "graph" /\ published' = published
    BY <1>3 DEF SchedSnapshot, SchedOnly, Thread
  <2>2. TopologyOf(topo)'
    BY <2>1, TopologyRests DEF Scheduling
  <2> QED
    BY <1>1, <2>1, <2>2 DEF TopologyInv, ScheduleTold
<1>4. CASE SchedPublish
  <2>1. /\ sch.pc = "publish" /\ net' = net /\ topo' = topo /\ cutOff' = cutOff
        /\ sch'.pc = "waiting" /\ published' = sch.new
    BY <1>4 DEF SchedPublish, SchedOnly, Thread
  <2>2. TopologyOf(topo)'
    BY <2>1, TopologyRests DEF Scheduling
  <2> QED
    BY <1>1, <2>1, <2>2 DEF TopologyInv, ScheduleTold, UsedLinks
<1> QED
  BY <1>1, <1>2, <1>3, <1>4, GraphStep, WriteBackStep, ComputeStep DEF Scheduler

\* The reports of an uplink.
LEMMA UplinkKeepsTopology ==
    ASSUME net \in Networks, QueuesInv, TopologyInv, DistributionTypes, UplinkPhaseStep
    PROVE  TopologyInv'
<1>1. PICK messages \in {[n \in Speakers |-> MyMessage(net, Ready(n), n)]},
           deaf \in SUBSET Hearers, packets \in 1..net.uplinkPackets : UplinkStep(messages, deaf, packets)
  BY DEF UplinkPhaseStep
<1>2. net' = net /\ published' = published /\ sch' = sch /\ cutOff' = cutOff
  BY DEF UplinkPhaseStep
<1>3. PICK queue : IsQueue(queue) /\ topo' = HandleTopologies(net, topo, queue)
  <2> DEFINE now == [n \in Nodes |-> PhaseAfter(messages, deaf, packets, n)]
  <2>1. topo' = HandleTopologies(net, topo, now[0].topologyQueue)
    BY <1>1 DEF UplinkStep, MasterTakes
  <2>2. 0 \in Nodes
    BY Configuration DEF Nodes
  <2>3. packets \in Nat \ {0}
    BY <1>1, Sizes
  <2>4. now[0] = PhaseAfter(messages, deaf, packets, 0)
    BY <2>2
  <2>5. HasQueues(now[0])
    BY <1>1, <2>2, <2>3, <2>4, PhaseAfterQueues
  <2> HIDE DEF now
  <2> QED
    BY <2>1, <2>5 DEF HasQueues
<1>4. TopologyOf(topo') /\ SameDemands(topo, topo')
  BY <1>3, ReportsKeep DEF TopologyInv
<1>5. TopologyOf(topo)'
  BY <1>2, <1>4 DEF TopologyOf, ChangesNoted, Scheduling, InterferenceGraph, Fits
<1> QED
  BY <1>2, <1>4, <1>5 DEF TopologyInv, ScheduleTold, SameDemands, UsedLinks


\* The steps of the network that bring no reports.
LEMMA OthersKeepTopology ==
    ASSUME TopologyInv, DistributionTypes, net' = net, topo' = topo, sch' = sch, cutOff' = cutOff,
           \/ published' = published
           \/ published' = ScheduleSentAndApplied(published)
    PROVE  TopologyInv'
<1>1. /\ "schedule" \in DOMAIN published
      /\ ScheduleTold(IF sch.pc = "publish" THEN sch.new ELSE published)
  BY DEF DistributionTypes, PublishedTyped, TopologyInv
<1>2. TopologyOf(topo)'
  BY DEF TopologyInv, TopologyOf, ChangesNoted, Scheduling, InterferenceGraph, Fits
<1>3. sch.pc # "publish" => ScheduleTold(published)'
  <2> SUFFICES ASSUME sch.pc # "publish" PROVE ScheduleTold(published)'
    OBVIOUS
  <2>1. /\ "links" \in DOMAIN published' /\ published'.schedule = published.schedule
        /\ published'.links = published.links
    BY <1>1 DEF ScheduleTold, ScheduleSentAndApplied
  <2> QED
    BY <1>1, <2>1 DEF ScheduleTold, UsedLinks
<1> QED
  BY <1>1, <1>2, <1>3 DEF TopologyInv, ScheduleTold, UsedLinks

LEMMA TopologyInvInit == Init => TopologyInv
<1> SUFFICES ASSUME Init PROVE TopologyInv
  OBVIOUS
<1>1. /\ topo = EmptyTopology /\ cutOff = {} /\ sch.pc = "waiting"
      /\ "links" \in DOMAIN published /\ published.schedule = <<>> /\ published.links = {}
  BY DEF Init
<1>2. /\ DOMAIN topo = TopologyFields /\ topo.graph = {} /\ topo.weakGraph = {} /\ topo.inProgress = FALSE
      /\ topo.usedLinks = {} /\ topo.newLinks = {} /\ topo.removed = {} /\ topo.added = {}
  BY <1>1 DEF EmptyTopology, NoEdges, TopologyFields
<1>3. ~Scheduling /\ Scheduling = FALSE
  BY <1>1 DEF Scheduling
<1>4. Undirected(topo.graph) /\ Undirected(topo.weakGraph)
  BY <1>2 DEF Undirected
<1>5. Fits(topo)
  BY <1>2 DEF Fits
<1>6. UsedLinks(published.schedule) = {}
  BY <1>1 DEF UsedLinks
<1> QED
  BY <1>1, <1>2, <1>3, <1>4, <1>5, <1>6 DEF TopologyInv, TopologyOf, ScheduleTold

LEMMA TopologyInvNext ==
    ASSUME net \in Networks, DistributionTypes, QueuesInv, TopologyInv, [Next]_vars
    PROVE  TopologyInv'
<1>1. CASE TimesyncPhase
  BY <1>1, OthersKeepTopology DEF TimesyncPhase, schedVars
<1>2. CASE DownlinkPhase
  <2>1. PICK packet, got : DownlinkStep(packet, got)
    BY <1>2 DEF DownlinkPhase
  <2>2. published' \in {published, ScheduleSentAndApplied(published)}
    BY <2>1 DEF DownlinkStep
  <2>3. net' = net /\ topo' = topo /\ sch' = sch /\ cutOff' = cutOff
    BY <1>2 DEF DownlinkPhase
  <2> QED
    BY <2>2, <2>3, OthersKeepTopology
<1>3. CASE Connect \/ LinksChange \/ RateChanges \/ UNCHANGED vars
  BY <1>3, OthersKeepTopology DEF Connect, LinksChange, RateChanges, vars, schedVars
<1> QED
  BY <1>1, <1>2, <1>3, SchedulerKeepsTopology, UplinkKeepsTopology DEF Next

\* When the scheduler rests and the topology asks for nothing, the schedule in use
\* fits the topology that the nodes have reported, except for links that were
\* found cut off: for every network, whatever is reported while the scheduler
\* computes, and whether or not the graph it worked on is written back.
THEOREM ScheduleFitsTheorem == Spec => []ScheduleFits
<1>1. Init => TimeInv /\ DistributionTypes /\ QueuesInv /\ TopologyInv
  BY TimeInvInit, TypesInit, QueuesInit, TopologyInvInit
<1>2. TimeInv /\ DistributionTypes /\ QueuesInv /\ TopologyInv /\ [Next]_vars
        => (TimeInv /\ DistributionTypes /\ QueuesInv /\ TopologyInv)'
  <2> SUFFICES ASSUME TimeInv, DistributionTypes, QueuesInv, TopologyInv, [Next]_vars
               PROVE  (TimeInv /\ DistributionTypes /\ QueuesInv /\ TopologyInv)'
    OBVIOUS
  <2>1. net \in Networks
    BY DEF TimeInv
  <2> QED
    BY <2>1, TimeInvNext, TypesNext, QueuesNext, TopologyInvNext
<1>3. TopologyInv => ScheduleFits
  BY DEF TopologyInv, TopologyOf, Scheduling, ScheduleFits
<1> QED
  BY <1>1, <1>2, <1>3, PTL DEF Spec

-----------------------------------------------------------------------------
(***************************************************************************)
(* The tile of activation is a number: the loop that looks for it ends,    *)
(* because a schedule is sent in a downlink that is not a timesync.        *)
(***************************************************************************)
LEMMA DownlinkSlots ==
    ASSUME NEW c \in Networks, NEW t \in Nat, DownlinkTile(c, t), ~TimesyncTile(c, t)
    PROVE  /\ CountDownlinkSlots(c) \in Nat \ {0}
           /\ CountDownlinkSlots(c) >= 2 \/ c.superframesPerSync >= 2
<1> DEFINE up == {i \in 0..(Size(c) - 1) : IsControlUplink(c, i)}
           all == 0..(Size(c) - 1)
           j == t % Size(c)
<1>1. Size(c) \in Nat \ {0} /\ c.superframesPerSync \in Nat \ {0} /\ IsControlDownlink(c, 0)
  BY Configuration
<1>2. CountDownlinkSlots(c) = Size(c) - Cardinality(up)
  BY DEF CountDownlinkSlots, CountUplinkSlots, CountUplinks
<1>3. IsFiniteSet(all) /\ Cardinality(all) = Size(c)
  <2>1. PICK n \in Nat : n = Size(c) - 1
    BY <1>1
  <2>2. IsFiniteSet(0..n) /\ Cardinality(0..n) = n + 1
    <3>1. ~(0 > n) /\ n - 0 + 1 = n + 1
      BY <2>1
    <3> QED
      BY <3>1, FS_Interval
  <2> QED
    BY <1>1, <2>1, <2>2
<1>4. j \in all /\ 0 \in all /\ j \notin up /\ 0 \notin up
  BY <1>1, DivMod DEF DownlinkTile, IsControlUplink
<1>5. up \subseteq all \ {0} /\ up \subseteq (all \ {0}) \ {j}
  BY <1>4
<1> HIDE DEF up, j
<1>6. IsFiniteSet(all \ {0}) /\ Cardinality(all \ {0}) = Size(c) - 1
  <2> HIDE DEF all
  <2> QED
    BY <1>3, <1>4, FS_RemoveElement
<1>7. Cardinality(up) \in Nat /\ Cardinality(up) <= Size(c) - 1
  <2> HIDE DEF all
  <2>1. IsFiniteSet(up) /\ Cardinality(up) <= Cardinality(all \ {0})
    BY <1>5, <1>6, FS_Subset
  <2> QED
    BY <1>6, <2>1, FS_CardinalityType
<1>8. CASE j # 0
  <2> HIDE DEF all
  <2>1. IsFiniteSet((all \ {0}) \ {j}) /\ Cardinality((all \ {0}) \ {j}) = Size(c) - 2
    <3>1. PICK rest : rest = all \ {0}
      OBVIOUS
    <3>2. IsFiniteSet(rest \ {j}) /\ Cardinality(rest \ {j}) = Cardinality(rest) - 1
      BY <1>4, <1>6, <1>8, <3>1, FS_RemoveElement
    <3> QED
      BY <1>1, <1>6, <3>1, <3>2
  <2>2. Cardinality(up) <= Size(c) - 2
    BY <1>5, <2>1, FS_Subset
  <2> QED
    BY <1>1, <1>2, <1>7, <2>2
<1>9. CASE j = 0
  <2>1. c.superframesPerSync # 1
    <3> SUFFICES ASSUME c.superframesPerSync = 1 PROVE FALSE
      OBVIOUS
    <3>1. TilesPerTimesync(c) = Size(c)
      BY <1>1 DEF TilesPerTimesync
    <3> QED
      BY <1>9, <3>1 DEF TimesyncTile, j
  <2> QED
    BY <1>1, <1>2, <1>7, <2>1
<1> QED
  BY <1>8, <1>9

\* The timesyncs in the next k superframes.
Passed(c, t, k) == NumTimesyncs(c, t + k * Size(c)) - NumTimesyncs(c, t)

LEMMA TimesyncsPassed ==
    ASSUME NEW c \in Networks, NEW t \in Nat, NEW k \in Nat
    PROVE  /\ NumTimesyncs(c, t) \in Nat /\ NumTimesyncs(c, t + k * Size(c)) \in Nat
           /\ Passed(c, t, k) \in 0..k
           /\ (c.superframesPerSync >= 2 /\ k >= 2) => Passed(c, t, k) <= k - 1
<1> DEFINE size == Size(c)
           s == c.superframesPerSync
           p == TilesPerTimesync(c)
           a == t + p - 1
           d == k * size
<1>1. size \in Nat \ {0} /\ s \in Nat \ {0} /\ p \in Nat \ {0} /\ p = size * s
  BY Configuration DEF TilesPerTimesync
<1> HIDE DEF size, s, p
<1>2. a \in Nat /\ d \in Nat /\ k * p \in Nat
  BY <1>1
<1>3. NumTimesyncs(c, t) = a \div p /\ NumTimesyncs(c, t + d) = (a + d) \div p
  <2>1. (t + d) + p - 1 = a + d
    BY <1>1, <1>2
  <2> QED
    BY <2>1 DEF NumTimesyncs, p
<1>4. d <= k * p
  <2>1. size <= p
    BY <1>1, Product
  <2> QED
    BY <1>1, <2>1
<1>5. s >= 2 /\ k >= 2 => (k - 1) \in Nat /\ d <= (k - 1) * p
  <2> SUFFICES ASSUME s >= 2, k >= 2 PROVE (k - 1) \in Nat /\ d <= (k - 1) * p
    OBVIOUS
  <2>1. p >= 2 * size
    <3>1. PICK r \in Nat : s = 2 + r
      BY <1>1
    <3>2. p = 2 * size + size * r /\ size * r \in Nat
      BY <1>1, <3>1
    <3> QED
      BY <1>1, <3>2
  <2>2. PICK m \in Nat : k = m + 2
    OBVIOUS
  <2>3. (k - 1) * p = m * p + p /\ k * size = m * size + 2 * size
    BY <1>1, <2>2
  <2>4. m * size <= m * p
    BY <1>1, <2>1, <2>2
  <2> QED
    BY <1>1, <2>1, <2>2, <2>3, <2>4
<1> HIDE DEF a, d
<1>6. /\ (a + d) \div p \in Nat /\ a \div p \in Nat
      /\ a \div p <= (a + d) \div p /\ (a + d) \div p <= (a \div p) + k
  BY <1>1, <1>2, <1>4, StepsPassed
<1>7. s >= 2 /\ k >= 2 => (a + d) \div p <= (a \div p) + (k - 1)
  BY <1>1, <1>2, <1>5, StepsPassed
<1> QED
  BY <1>3, <1>6, <1>7 DEF d, s, size, Passed

\* A pass of the loop: superframes for the packets, which leave the packets that
\* timesyncs took the place of.
AfterSuperframes(c, s) ==
    LET down == CountDownlinkSlots(c)
        rest == s.numDownlinks % down
    IN  s.tile + (s.numDownlinks \div down) * Size(c) + (IF rest > 0 THEN Size(c) ELSE 0)
RemainingDownlinks(c, s) ==
    LET down == CountDownlinkSlots(c)
        rest == s.numDownlinks % down
    IN  IF rest > 0 THEN down - rest ELSE 0
TimesyncsFound(c, s) == NumTimesyncs(c, AfterSuperframes(c, s)) - NumTimesyncs(c, s.begin)
LoopState == [tile : Nat, numDownlinks : Nat, begin : Nat]

LEMMA LoopPass ==
    ASSUME NEW c \in Networks, NEW down, down = CountDownlinkSlots(c), down \in Nat \ {0}, NEW s \in LoopState
    PROVE  \E k \in Nat :
            /\ AfterSuperframes(c, s) = s.tile + k * Size(c) /\ AfterSuperframes(c, s) \in Nat
            /\ RemainingDownlinks(c, s) \in Nat /\ RemainingDownlinks(c, s) = k * down - s.numDownlinks
            /\ TimesyncsFound(c, s) \in Int
            /\ (s.numDownlinks = 0 => k = 0)
            /\ s.numDownlinks > 0 => k > 0
            /\ down = 1 => k = s.numDownlinks
<1>1. Size(c) \in Nat \ {0} /\ s.tile \in Nat /\ s.numDownlinks \in Nat /\ s.begin \in Nat
  BY Configuration DEF LoopState
<1>2. PICK q, r : q = s.numDownlinks \div down /\ r = s.numDownlinks % down
  OBVIOUS
<1>3. q \in Nat /\ r \in 0..(down - 1) /\ s.numDownlinks = down * q + r
  BY <1>1, <1>2, DivMod
<1>4. PICK k : k = IF r > 0 THEN q + 1 ELSE q
  OBVIOUS
<1>5. k \in Nat
  BY <1>3, <1>4
<1>6. AfterSuperframes(c, s) = s.tile + k * Size(c)
  <2>1. AfterSuperframes(c, s) = s.tile + q * Size(c) + (IF r > 0 THEN Size(c) ELSE 0)
    BY <1>2 DEF AfterSuperframes
  <2>2. (q + 1) * Size(c) = q * Size(c) + Size(c) /\ q * Size(c) \in Nat
    BY <1>1, <1>3
  <2> QED
    BY <1>1, <1>3, <1>4, <2>1, <2>2
<1>7. AfterSuperframes(c, s) \in Nat
  <2>1. k * Size(c) \in Nat
    BY <1>1, <1>5
  <2> QED
    BY <1>1, <1>6, <2>1
<1>8. RemainingDownlinks(c, s) = IF r > 0 THEN down - r ELSE 0
  BY <1>2 DEF RemainingDownlinks
<1>9. RemainingDownlinks(c, s) \in Nat /\ RemainingDownlinks(c, s) = k * down - s.numDownlinks
  <2>1. (q + 1) * down = down * q + down /\ q * down = down * q /\ down * q \in Nat
    BY <1>3
  <2> QED
    BY <1>1, <1>3, <1>4, <1>8, <2>1
<1>10. TimesyncsFound(c, s) \in Int
  <2>1. NumTimesyncs(c, s.begin) \in Nat /\ NumTimesyncs(c, AfterSuperframes(c, s)) \in Nat
    BY <1>1, <1>7, NextNumTimesyncs
  <2> QED
    BY <2>1 DEF TimesyncsFound
<1>11. s.numDownlinks = 0 => k = 0
  <2> SUFFICES ASSUME s.numDownlinks = 0 PROVE k = 0
    OBVIOUS
  <2>1. down * q \in Nat /\ down * q = 0 /\ r = 0
    BY <1>1, <1>3
  <2>2. q = 0
    BY <1>3, <2>1
  <2> QED
    BY <1>4, <2>1, <2>2
<1>12. s.numDownlinks > 0 => k > 0
  BY <1>1, <1>3, <1>4
<1>13. down = 1 => k = s.numDownlinks
  BY <1>1, <1>3, <1>4
<1> QED
  BY <1>5, <1>6, <1>7, <1>9, <1>10, <1>11, <1>12, <1>13

\* What is left of a pass is less than before, or the next superframe brings no
\* timesync.
Work(c, s) == 2 * s.numDownlinks + Passed(c, s.tile, 1)

LEMMA WorkShrinks ==
    ASSUME NEW c \in Networks, NEW down, down = CountDownlinkSlots(c), down \in Nat \ {0},
           down >= 2 \/ c.superframesPerSync >= 2,
           NEW s \in LoopState, s.begin = s.tile, TimesyncsFound(c, s) > RemainingDownlinks(c, s),
           NEW next \in LoopState, next.tile = AfterSuperframes(c, s),
           next.numDownlinks = TimesyncsFound(c, s) - RemainingDownlinks(c, s)
    PROVE  Work(c, next) \in Nat /\ Work(c, s) \in Nat /\ Work(c, next) < Work(c, s)
<1>1. s.tile \in Nat /\ s.numDownlinks \in Nat /\ next.tile \in Nat /\ next.numDownlinks \in Nat
  BY DEF LoopState
<1>2. PICK k \in Nat :
        /\ next.tile = s.tile + k * Size(c)
        /\ RemainingDownlinks(c, s) \in Nat /\ RemainingDownlinks(c, s) = k * down - s.numDownlinks
        /\ (s.numDownlinks = 0 => k = 0)
        /\ (s.numDownlinks > 0 => k > 0)
        /\ (down = 1 => k = s.numDownlinks)
  BY LoopPass
<1>3. PICK found, soon, later :
        found = Passed(c, s.tile, k) /\ soon = Passed(c, s.tile, 1) /\ later = Passed(c, next.tile, 1)
  OBVIOUS
<1>4. soon \in 0..1 /\ later \in 0..1
  BY <1>1, <1>3, TimesyncsPassed
<1>5. found = TimesyncsFound(c, s)
  BY <1>2, <1>3 DEF TimesyncsFound, Passed
<1>6. /\ found \in 0..k
      /\ c.superframesPerSync >= 2 /\ k >= 2 => found <= k - 1
  BY <1>1, <1>3, TimesyncsPassed
<1>7. Work(c, s) = 2 * s.numDownlinks + soon /\ Work(c, next) = 2 * (found - (k * down - s.numDownlinks)) + later
  BY <1>2, <1>3, <1>5 DEF Work
<1>8. k > 0
  <2>1. found > 0
    BY <1>2, <1>5, <1>6
  <2> QED
    BY <1>6, <2>1
<1>9. CASE down >= 2
  <2>1. k * down >= 2 * k /\ k * down \in Nat
    BY <1>9
  <2> QED
    BY <1>1, <1>2, <1>4, <1>5, <1>6, <1>7, <1>8, <2>1
<1>10. CASE down = 1 /\ k >= 2
  <2>1. k * down = k
    BY <1>10
  <2> QED
    BY <1>1, <1>2, <1>4, <1>5, <1>6, <1>7, <1>10, <2>1
<1>11. CASE down = 1 /\ k = 1
  <2>1. found = soon
    BY <1>3, <1>11
  <2>2. soon = 1
    BY <1>2, <1>4, <1>5, <1>11, <2>1
  <2>3. Passed(c, s.tile, 2) <= 1
    <3>1. PICK two \in Nat : two = 2
      OBVIOUS
    <3>2. c.superframesPerSync >= 2
      BY <1>11
    <3>3. PICK t \in Nat : t = s.tile
      BY <1>1
    <3>4. (c.superframesPerSync >= 2 /\ two >= 2) => Passed(c, t, two) <= two - 1
      BY TimesyncsPassed, Zenon
    <3> QED
      BY <3>1, <3>2, <3>3, <3>4
  <2>4. Passed(c, s.tile, 2) = Passed(c, s.tile, 1) + Passed(c, next.tile, 1)
    <3>1. PICK size \in Nat : size = Size(c)
      BY Configuration
    <3>2. PICK t, u, v : t = s.tile /\ u = t + size /\ v = u + size
      OBVIOUS
    <3>3. s.tile + 1 * Size(c) = u /\ s.tile + 2 * Size(c) = v /\ next.tile = u /\ next.tile + 1 * Size(c) = v
      BY <1>1, <1>2, <1>11, <3>1, <3>2
    <3>4. NumTimesyncs(c, t) \in Nat /\ NumTimesyncs(c, u) \in Nat /\ NumTimesyncs(c, v) \in Nat
      BY <1>1, <3>1, <3>2, NextNumTimesyncs
    <3> QED
      BY <3>2, <3>3, <3>4 DEF Passed
  <2>5. later = 0
    BY <1>3, <1>4, <2>2, <2>3, <2>4
  <2>6. k * down = 1
    BY <1>11
  <2> QED
    BY <1>1, <1>2, <1>7, <2>1, <2>2, <2>5, <2>6
<1> QED
  BY <1>8, <1>9, <1>10, <1>11

\* What the loop returns when no packet is left, and what it goes on with otherwise.
LoopOut(c, s) ==
    IF IsTimesync(c, AfterSuperframes(c, s)) THEN AfterSuperframes(c, s) + Size(c) ELSE AfterSuperframes(c, s)
LoopNext(c, s) ==
    [tile |-> AfterSuperframes(c, s), numDownlinks |-> TimesyncsFound(c, s) - RemainingDownlinks(c, s),
     begin |-> AfterSuperframes(c, s)]

\* What holds of the tile that the loop returns in the end, and is handed back by
\* each pass, holds of the tile that it returns for every state.
LEMMA ActivationLoopKeeps ==
    ASSUME NEW c \in Networks, NEW down, down = CountDownlinkSlots(c), down \in Nat \ {0},
           down >= 2 \/ c.superframesPerSync >= 2, NEW I,
           \A s \in LoopState : ~(TimesyncsFound(c, s) > RemainingDownlinks(c, s)) => <<s, LoopOut(c, s)>> \in I,
           \A s \in LoopState, r \in Nat :
                (TimesyncsFound(c, s) > RemainingDownlinks(c, s) /\ <<LoopNext(c, s), r>> \in I) => <<s, r>> \in I
    PROVE  \A s \in LoopState : ActivationLoop(c)[s] \in Nat /\ <<s, ActivationLoop(c)[s]>> \in I
<1> DEFINE loop == ActivationLoop(c)
           size == Size(c)
           found(s) == TimesyncsFound(c, s)
           remaining(s) == RemainingDownlinks(c, s)
           tileOf(s) == AfterSuperframes(c, s)
           Is(f) == f = [s \in LoopState |->
                            LET rest == s.numDownlinks % CountDownlinkSlots(c)
                                reached == s.tile + (s.numDownlinks \div CountDownlinkSlots(c)) * Size(c)
                                               + (IF rest > 0 THEN Size(c) ELSE 0)
                                left == IF rest > 0 THEN CountDownlinkSlots(c) - rest ELSE 0
                                numTimesyncs == NumTimesyncs(c, reached) - NumTimesyncs(c, s.begin)
                            IN  IF numTimesyncs > left
                                THEN f[[tile |-> reached, numDownlinks |-> numTimesyncs - left, begin |-> reached]]
                                ELSE IF IsTimesync(c, reached) THEN reached + Size(c) ELSE reached]
           f == CHOOSE h : Is(h)
           after(s) == [tile |-> tileOf(s), numDownlinks |-> found(s) - remaining(s), begin |-> tileOf(s)]
           last == {s \in LoopState : ~(found(s) > remaining(s))}
           next == [s \in LoopState |-> IF s \in last THEN s ELSE after(s)]
           out == [s \in LoopState |-> IF s \in last THEN IF IsTimesync(c, tileOf(s)) THEN tileOf(s) + size ELSE tileOf(s) ELSE 0]
           measure == [s \in LoopState |-> IF s.begin = s.tile THEN Work(c, s)
                                           ELSE IF s \in last THEN 0 ELSE 1 + Work(c, after(s))]
<1>2. loop = f
  BY DEF ActivationLoop, LoopState
<1>3. \A h : Is(h) <=> h = [s \in LoopState |-> IF found(s) > remaining(s) THEN h[after(s)]
                                              ELSE IF IsTimesync(c, tileOf(s)) THEN tileOf(s) + size ELSE tileOf(s)]
  BY DEF TimesyncsFound, RemainingDownlinks, AfterSuperframes
<1>4. ASSUME NEW s \in LoopState
      PROVE  /\ tileOf(s) \in Nat /\ remaining(s) \in Nat /\ found(s) \in Int
             /\ found(s) > remaining(s) => after(s) \in LoopState
  <2>1. tileOf(s) \in Nat /\ remaining(s) \in Nat /\ found(s) \in Int
    BY LoopPass
  <2> HIDE DEF tileOf, remaining, found
  <2> QED
    BY <2>1 DEF LoopState
<1>5. ASSUME NEW s \in LoopState PROVE Work(c, s) \in Nat
  <2>1. s.tile \in Nat /\ s.numDownlinks \in Nat
    BY DEF LoopState
  <2>2. Passed(c, s.tile, 1) \in Nat
    <3>1. PICK time \in Nat, one \in Nat : time = s.tile /\ one = 1
      BY <2>1
    <3>2. Passed(c, time, one) \in 0..one
      BY TimesyncsPassed
    <3> QED
      BY <3>1, <3>2
  <2> QED
    BY <2>1, <2>2 DEF Work
<1>6. size \in Nat
  BY Configuration
<1> HIDE DEF found, remaining, tileOf, size
<1>7. out \in [LoopState -> Nat] /\ next \in [LoopState -> LoopState]
  <2> HIDE DEF after
  <2> QED
    BY <1>4, <1>6
<1>8. measure \in [LoopState -> Nat]
  <2> HIDE DEF after
  <2> QED
    BY <1>4, <1>5
<1>9. \A s \in LoopState : s \notin last => measure[next[s]] < measure[s]
  <2> SUFFICES ASSUME NEW s \in LoopState, found(s) > remaining(s) PROVE measure[next[s]] < measure[s]
    OBVIOUS
  <2>1. PICK e : e = after(s)
    OBVIOUS
  <2>2. /\ e \in LoopState /\ next[s] = e /\ e.begin = e.tile /\ e.tile = tileOf(s)
        /\ e.numDownlinks = found(s) - remaining(s)
    BY <1>4, <2>1
  <2>3. measure[e] = Work(c, e) /\ Work(c, e) \in Nat
    BY <1>5, <2>2
  <2>4. CASE s.begin = s.tile
    <3>1. measure[s] = Work(c, s)
      BY <2>4
    <3>2. Work(c, e) < Work(c, s)
      BY <2>2, <2>4, WorkShrinks DEF found, remaining, tileOf
    <3> QED
      BY <2>2, <2>3, <3>1, <3>2
  <2>5. CASE s.begin # s.tile
    <3>1. measure[s] = 1 + Work(c, e)
      BY <2>1, <2>5
    <3> QED
      BY <2>2, <2>3, <3>1
  <2> QED
    BY <2>4, <2>5
<1>10. PICK h : IsLoop(h, LoopState, Nat, last, out, next)
  <2> HIDE DEF last, out, next, measure
  <2> QED
    BY <1>7, <1>8, <1>9, LoopEnds
<1> DEFINE Step(h1, s) == IF found(s) > remaining(s) THEN h1[after(s)]
                         ELSE IF IsTimesync(c, tileOf(s)) THEN tileOf(s) + size ELSE tileOf(s)
<1>11. \A h1 : Is(h1) <=> h1 = [s \in LoopState |-> Step(h1, s)]
  BY <1>3
<1>12. \A h1, s : s \in LoopState => Step(h1, s) = IF s \in last THEN out[s] ELSE h1[next[s]]
  <2> HIDE DEF after
  <2> QED
    OBVIOUS
<1> HIDE DEF Is, Step, last, out, next, measure, f, after
<1>13. Is(h)
  <2>1. h = [s \in LoopState |-> h[s]] /\ \A s \in LoopState : h[s] = Step(h, s)
    BY <1>10, <1>12 DEF IsLoop
  <2> QED
    BY <1>11, <2>1
<1>14. Is(f)
  BY <1>13 DEF f
<1>15. IsLoop(f, LoopState, Nat, last, out, next)
  <2>1. f = [s \in LoopState |-> Step(f, s)]
    BY <1>11, <1>14
  <2>2. f = [s \in LoopState |-> IF s \in last THEN out[s] ELSE f[next[s]]]
    BY <1>12, <2>1
  <2> QED
    BY <1>7, <1>8, <1>9, <2>2, LoopTyped
<1>16. \A s \in LoopState : s \in last => <<s, out[s]>> \in I
  BY DEF last, out, LoopOut, found, remaining, tileOf, size
<1>17. \A s \in LoopState, r \in Nat : (s \notin last /\ <<next[s], r>> \in I) => <<s, r>> \in I
  <2>1. \A s \in LoopState : s \notin last => next[s] = LoopNext(c, s) /\ found(s) > remaining(s)
    BY DEF last, next, after, LoopNext, found, remaining, tileOf
  <2> QED
    BY <2>1 DEF found, remaining
<1>18. \A s \in LoopState : <<s, f[s]>> \in I
  BY <1>7, <1>8, <1>9, <1>15, <1>16, <1>17, LoopKeeps
<1> QED
  BY <1>2, <1>15, <1>18 DEF IsLoop

LEMMA ActivationIsNumber ==
    ASSUME NEW c \in Networks, NEW t \in Nat, DownlinkTile(c, t), ~TimesyncTile(c, t), NEW n \in Nat
    PROVE  GetActivationTile(c, t, n) \in Nat
<1> DEFINE loop == ActivationLoop(c)
           All == LoopState \X Nat
<1>1. PICK down : down = CountDownlinkSlots(c) /\ down \in Nat \ {0} /\ (down >= 2 \/ c.superframesPerSync >= 2)
  BY DownlinkSlots
<1>2. \A s \in LoopState : ~(TimesyncsFound(c, s) > RemainingDownlinks(c, s)) => <<s, LoopOut(c, s)>> \in All
  <2>1. \A s \in LoopState : AfterSuperframes(c, s) \in Nat
    BY <1>1, LoopPass
  <2>2. Size(c) \in Nat
    BY Configuration
  <2> QED
    BY <2>1, <2>2 DEF LoopOut
<1>3. \A s \in LoopState : loop[s] \in Nat
  <2>1. \A s \in LoopState, r \in Nat : <<s, r>> \in All
    OBVIOUS
  <2> HIDE DEF All
  <2> QED
    BY <1>1, <1>2, <2>1, ActivationLoopKeeps
<1> HIDE DEF loop
<1>4. PICK first, aligned, left : first = t + 1 /\ aligned = Align(t + 1, Size(c)) /\ left = DownlinksLeft(c, t + 1)
  OBVIOUS
<1>5. aligned \in Nat
  <2>1. PICK a, b : b = Size(c) /\ a = t + 1 + b - 1
    OBVIOUS
  <2>2. a \in Nat /\ b \in Nat \ {0}
    BY <2>1, Configuration
  <2>3. a \div b \in Nat
    BY <2>2, DivMod
  <2>4. aligned = (a \div b) * b
    BY <1>4, <2>1 DEF Align
  <2> QED
    BY <2>2, <2>3, <2>4
<1>6. left \in Nat
  <2> DEFINE rest == ((t + 1) % Size(c))..(Size(c) - 1)
             slots == {i \in rest : IsControlDownlink(c, i)}
  <2>1. (t + 1) % Size(c) \in Int /\ Size(c) - 1 \in Int
    <3>1. PICK a, b : a = t + 1 /\ b = Size(c)
      OBVIOUS
    <3>2. a \in Nat /\ b \in Nat \ {0}
      BY <3>1, Configuration
    <3>3. a % b \in 0..(b - 1)
      BY <3>2, DivMod
    <3> QED
      BY <3>1, <3>2, <3>3
  <2>2. IsFiniteSet(rest)
    BY <2>1, FS_Interval
  <2>3. IsFiniteSet(slots)
    BY <2>2, FS_Subset
  <2> QED
    BY <1>4, <2>3, FS_CardinalityType DEF DownlinksLeft
<1>7. GetActivationTile(c, t, n) =
            IF first % Size(c) = 0 THEN loop[[tile |-> first, numDownlinks |-> n, begin |-> first]]
            ELSE loop[[tile |-> aligned, numDownlinks |-> IF left > n THEN 0 ELSE n - left, begin |-> first]]
  BY <1>4 DEF GetActivationTile, loop
<1>8. /\ [tile |-> first, numDownlinks |-> n, begin |-> first] \in LoopState
       /\ [tile |-> aligned, numDownlinks |-> IF left > n THEN 0 ELSE n - left, begin |-> first] \in LoopState
  BY <1>4, <1>5, <1>6 DEF LoopState
<1> QED
  BY <1>3, <1>7, <1>8

\* The tiles of a schedule.
LEMMA LcmTyped ==
    ASSUME NEW a \in Nat \ {0}, NEW b \in Nat \ {0}
    PROVE  Lcm(a, b) \in Nat \ {0} /\ Divides(a, Lcm(a, b))
<1> DEFINE Common(m) == Divides(a, m) /\ Divides(b, m)
           M == {m \in 1..(a * b) : Common(m)}
           LeastMultiple(m) == Divides(a, m) /\ Divides(b, m) /\ \A k \in 1..(m - 1) : ~(Divides(a, k) /\ Divides(b, k))
<1>1. a * b \in Nat \ {0} /\ a <= a * b /\ b <= a * b
  BY Product
<1>2. Common(a * b)
  <2>1. Divides(a, a * b)
    <3>1. b \in 1..(a * b) /\ a * b = a * b
      BY <1>1
    <3> QED
      BY <3>1 DEF Divides
  <2>2. Divides(b, a * b)
    <3>1. a \in 1..(a * b) /\ b * a = a * b
      BY <1>1
    <3> QED
      BY <3>1 DEF Divides
  <2> QED
    BY <2>1, <2>2
<1> HIDE DEF Common
<1>3. a * b \in M
  BY <1>1, <1>2
<1>4. PICK m \in M : \A k \in M : m <= k
  <2>1. M \subseteq Nat /\ M # {}
    BY <1>1, <1>3
  <2> HIDE DEF M
  <2> QED
    BY <2>1, LeastNumber
<1>5. \A k \in 1..(m - 1) : ~Common(k)
  <2> SUFFICES ASSUME NEW k \in 1..(m - 1), Common(k) PROVE FALSE
    OBVIOUS
  <2>1. m \in 1..(a * b) /\ k \in 1..(a * b) /\ k < m
    BY <1>1
  <2>2. m <= k
    BY <1>4, <2>1
  <2> QED
    BY <2>1, <2>2
<1>6. m \in 1..(a * b) /\ Common(m)
  OBVIOUS
<1>7. LeastMultiple(m)
  BY <1>5, <1>6 DEF Common
<1>8. Lcm(a, b) = CHOOSE k \in 1..(a * b) : LeastMultiple(k)
  BY DEF Lcm
<1>9. \A k : LeastMultiple(k) => Divides(a, k)
  OBVIOUS
<1> HIDE DEF LeastMultiple
<1>10. Lcm(a, b) \in 1..(a * b) /\ LeastMultiple(Lcm(a, b))
  BY <1>6, <1>7, <1>8
<1> QED
  BY <1>1, <1>9, <1>10

LEMMA PeriodsTyped ==
    ASSUME NEW c \in Networks, NEW e \in AllTransmissions(c)
    PROVE  e.period \in Nat \ {0}
<1>1. Periods \subseteq Nat \ {0}
  BY DEF Periods, ToInt
<1>2. PICK s \in Streams(c) : e.period = s.period
  BY DEF AllTransmissions, ScheduleElement
<1> QED
  BY <1>1, <1>2 DEF Streams

LEMMA TilesTyped ==
    ASSUME net \in Networks, NEW schedule \in Seq(AllTransmissions(net)), NEW tiles \in Nat \ {0}
    PROVE  TilesFor(schedule, tiles) \in Nat \ {0} /\ \E k \in Nat : TilesFor(schedule, tiles) = tiles * k
<1> DEFINE N == Len(schedule)
           S == {x \in Nat \ {0} : \E k \in Nat : x = tiles * k}
           Further(t, k) == Lcm(t, schedule[k].period)
           Is(after) == after = [k \in 0..N |-> IF k = 0 THEN tiles ELSE Lcm(after[k - 1], schedule[k].period)]
           step == [x \in S \X (1..N) |-> Further(x[1], x[2])]
           f == CHOOSE after : Is(after)
<1>1. N \in Nat /\ \A k \in 1..N : schedule[k].period \in Nat \ {0}
  BY PeriodsTyped
<1>2. \A t \in S, k \in 1..N : Further(t, k) \in S
  <2> SUFFICES ASSUME NEW t \in S, NEW k \in 1..N PROVE Further(t, k) \in S
    OBVIOUS
  <2>1. t \in Nat \ {0} /\ schedule[k].period \in Nat \ {0}
    BY <1>1
  <2>2. PICK m : m = Further(t, k)
    OBVIOUS
  <2>3. m \in Nat \ {0} /\ Divides(t, m)
    BY <2>1, <2>2, LcmTyped
  <2>4. PICK i \in Nat : m = t * i
    BY <2>3 DEF Divides
  <2>5. PICK j \in Nat : t = tiles * j
    OBVIOUS
  <2>6. m = tiles * (j * i) /\ j * i \in Nat
    <3>1. m = (tiles * j) * i
      BY <2>4, <2>5
    <3> QED
      BY <3>1, Associative
  <2> QED
    BY <2>2, <2>3, <2>6
<1>3. TilesFor(schedule, tiles) = f[N]
  BY DEF TilesFor
<1> HIDE DEF S, N
<1>4. tiles \in S /\ step \in [S \X (1..N) -> S]
  <2>1. tiles = tiles * 1
    OBVIOUS
  <2>2. tiles \in S
    BY <2>1 DEF S
  <2> HIDE DEF Further
  <2> QED
    BY <1>2, <2>2
<1>5. \E after : Is(after)
  <2>1. PICK h : IsIteration(h, N, S, tiles, step)
    <3> HIDE DEF step
    <3> QED
      BY <1>1, <1>4, IterationExists
  <2>2. \A n \in 1..N : n - 1 \in 0..N /\ n \in 0..N
    BY <1>1
  <2>3. \A n \in 1..N : h[n] = Further(h[n - 1], n)
    <3> HIDE DEF Further
    <3> QED
      BY <2>1, <2>2 DEF IsIteration
  <2>4. Is(h)
    BY <2>1, <2>3 DEF IsIteration
  <2> QED
    BY <2>4
<1>6. Is(f)
  <2> HIDE DEF Is
  <2> QED
    BY <1>5
<1>7. f[0] = tiles /\ \A n \in 1..N : f[n] = Further(f[n - 1], n)
  <2> HIDE DEF f
  <2>1. \A n \in 1..N : n \in 0..N /\ n # 0
    BY <1>1
  <2>2. 0 \in 0..N
    BY <1>1
  <2> QED
    BY <1>6, <2>1, <2>2
<1> HIDE DEF f, step, Is, Further
<1>8. \A n \in 0..N : f[n] \in S
  <2>1. \A n \in 1..N : f[n - 1] \in S => f[n] \in S
    BY <1>2, <1>7
  <2> QED
    BY <1>1, <1>4, <1>7, <2>1, IterationStays, Zenon
<1>9. N \in 0..N
  BY <1>1
<1> QED
  BY <1>3, <1>8, <1>9 DEF S

-----------------------------------------------------------------------------
(***************************************************************************)
(* Where in a schedule the master and the nodes are.                       *)
(***************************************************************************)
LEMMA TwoBytes ==
    ASSUME NEW x \in Nat
    PROVE  x % 2^16 \in Nat /\ (x < 2^16 => x % 2^16 = x)
<1>1. 2^16 \in Nat \ {0}
  OBVIOUS
<1>2. PICK k \in Nat \ {0} : k = 2^16
  BY <1>1
<1>3. x % k \in Nat
  BY DivMod
<1>4. ASSUME x < k PROVE x % k = x
  <2>1. x \in 0..(k - 1) /\ x = k * 0 + x
    BY <1>4
  <2> QED
    BY <2>1, DivModUnique
<1> QED
  BY <1>2, <1>3, <1>4

LEMMA PacketSentIs ==
    ASSUME NEW c \in Networks, NEW m, MasterFields(c, m), HeaderTyped(m.header), NEW new, new = PacketSent(c, m)
    PROVE  /\ HeaderTyped(new.header) /\ new.schedule = m.schedule /\ new.status = m.status
           /\ new.header.id = m.header.id /\ new.header.activation = m.header.activation
           /\ new.header.tiles = m.header.tiles /\ new.header.total = m.header.total
           /\ IF (m.header.current + 1) % 2^16 < m.header.total
              THEN /\ new.header.current = (m.header.current + 1) % 2^16
                   /\ new.header.repetition = m.header.repetition
                   /\ new.position = m.position + Len(NextElements(c, m))
              ELSE /\ new.header.current = 0 /\ new.position = 0
                   /\ new.header.repetition = (m.header.repetition + 1) % 2^8
<1> DEFINE count == Len(NextElements(c, m))
           next == IncrementPacketCounter(m.header)
           sent == [m EXCEPT !.position = @ + count, !.header = next]
           first == [sent.header EXCEPT !.current = 0]
           again == [sent EXCEPT !.position = 0, !.header = IncrementRepetition(first)]
<1>1. PICK word : word = (m.header.current + 1) % 2^16
  OBVIOUS
<1>2. /\ DOMAIN next = DOMAIN m.header /\ next.id = m.header.id /\ next.activation = m.header.activation
      /\ next.tiles = m.header.tiles /\ next.total = m.header.total /\ next.current = word
      /\ next.repetition = m.header.repetition
  BY <1>1 DEF HeaderTyped, HeaderFields, IncrementPacketCounter
<1>3. new = IF sent.header.current < sent.header.total THEN sent ELSE again
  BY DEF PacketSent, MasterFields
<1> HIDE DEF count, next
<1>4. /\ sent.schedule = m.schedule /\ sent.status = m.status /\ sent.header = next
      /\ sent.position = m.position + count /\ DOMAIN sent = DOMAIN m
  BY DEF MasterFields
<1> HIDE DEF sent
<1>5. PICK last : last = IncrementRepetition(first)
  OBVIOUS
<1>6. /\ DOMAIN last = DOMAIN m.header /\ last.id = m.header.id /\ last.activation = m.header.activation
      /\ last.tiles = m.header.tiles /\ last.total = m.header.total /\ last.current = 0
      /\ last.repetition = (m.header.repetition + 1) % 2^8
  <2>1. /\ DOMAIN first = DOMAIN m.header /\ first.id = m.header.id /\ first.activation = m.header.activation
        /\ first.tiles = m.header.tiles /\ first.total = m.header.total /\ first.current = 0
        /\ first.repetition = m.header.repetition /\ "repetition" \in DOMAIN first
    BY <1>2, <1>4 DEF HeaderTyped, HeaderFields
  <2> HIDE DEF first
  <2> QED
    BY <1>5, <2>1 DEF IncrementRepetition
<1>7. /\ again.schedule = m.schedule /\ again.status = m.status /\ again.header = last /\ again.position = 0
  BY <1>4, <1>5 DEF MasterFields
<1> HIDE DEF again
<1>8. CASE word < m.header.total
  <2>1. new = sent
    BY <1>2, <1>3, <1>4, <1>8
  <2> QED
    BY <1>1, <1>2, <1>4, <1>8, <2>1 DEF HeaderTyped, count
<1>9. CASE ~(word < m.header.total)
  <2>1. new = again
    BY <1>2, <1>3, <1>4, <1>9
  <2> QED
    BY <1>1, <1>6, <1>7, <1>9, <2>1 DEF HeaderTyped
<1> QED
  BY <1>8, <1>9

LEMMA AdvancedIs ==
    ASSUME NEW d, PlayTyped(d)
    PROVE  /\ PlayTyped(Advanced(d, 1)) /\ Advanced(d, 1).id = d.id /\ Advanced(d, 1).tiles = d.tiles
           /\ Advanced(d, 1).schedule = d.schedule
           /\ Advanced(d, 1).pos = IF d.tiles = 0 THEN 0 ELSE (d.pos + 1) % d.tiles
<1>1. PICK k \in Nat : k = d.pos + 1
  BY DEF PlayTyped
<1>2. d.tiles # 0 => k % d.tiles \in 0..(d.tiles - 1)
  BY DivMod DEF PlayTyped
<1>3. Advanced(d, 1) = [d EXCEPT !.pos = IF d.tiles = 0 THEN 0 ELSE k % d.tiles]
  BY <1>1 DEF Advanced, PlayTyped, PlayFields
<1> QED
  BY <1>1, <1>2, <1>3 DEF PlayTyped, PlayFields

LEMMA PlayIs ==
    ASSUME NEW h, HeaderFields \subseteq DOMAIN h, h.tiles \in Nat, h.activation \in Int, NEW s, NEW t \in Int
    PROVE  /\ PlayTyped(Play(h, s, t)) /\ Play(h, s, t).id = h.id /\ Play(h, s, t).tiles = h.tiles
           /\ Play(h, s, t).schedule = s
           /\ Play(h, s, t).pos = IF h.tiles = 0 THEN 0 ELSE (t - h.activation) % h.tiles
<1>1. PICK k \in Int : k = t - h.activation
  OBVIOUS
<1>2. h.tiles # 0 => k % h.tiles \in 0..(h.tiles - 1)
  BY IntDivMod
<1>3. PICK pos : pos = IF h.tiles = 0 THEN 0 ELSE k % h.tiles
  OBVIOUS
<1>4. 0 + k = k
  OBVIOUS
<1>5. Play(h, s, t) = [id |-> h.id, tiles |-> h.tiles, pos |-> pos, schedule |-> s]
  BY <1>1, <1>3, <1>4 DEF Play, Advanced
<1> QED
  BY <1>1, <1>2, <1>3, <1>5 DEF PlayTyped, PlayFields

LEMMA NothingIsPlayed == PlayTyped(PlaysNothing) /\ PlaysNothing.id = 0
  BY DEF PlayTyped, PlayFields, PlaysNothing

\* The master counts tiles rightly.
LEMMA MasterTile ==
    ASSUME TimeInv
    PROVE  /\ tile \in Nat /\ NodeTile(0) \in Int
           /\ ~TimesyncTile(net, tile) => NodeTile(0) = tile
<1>1. net \in Networks /\ tile \in Nat /\ sync[0].counter = NumTimesyncs(net, tile) - 1
  BY DEF TimeInv, MasterInTime
<1>2. PICK p \in Nat \ {0} : p = TilesPerTimesync(net)
  BY <1>1, Configuration
<1>3. PICK q, r : q = tile \div p /\ r = tile % p
  OBVIOUS
<1>4. q \in Nat /\ r \in 0..(p - 1) /\ tile = p * q + r
  BY <1>1, <1>3, DivMod
<1>5. NumTimesyncs(net, tile) \in Nat
  BY <1>1, NextNumTimesyncs
<1>6. PICK k \in Int : k = NumTimesyncs(net, tile) - 1
  BY <1>5
<1>7. NodeTile(0) = k * p + r
  BY <1>1, <1>2, <1>3, <1>6 DEF NodeTile
<1>8. ASSUME ~TimesyncTile(net, tile) PROVE k = q
  <2>1. r # 0
    BY <1>2, <1>3, <1>8 DEF TimesyncTile
  <2>2. tile + p - 1 = p * (q + 1) + (r - 1) /\ r - 1 \in 0..(p - 1)
    BY <1>4, <2>1
  <2>3. (p * (q + 1) + (r - 1)) \div p = q + 1
    BY <1>4, <2>2, DivModUnique
  <2> QED
    BY <1>2, <1>4, <1>6, <2>2, <2>3 DEF NumTimesyncs
<1>9. k * p \in Int
  OBVIOUS
<1>10. q * p = p * q
  BY <1>4
<1> QED
  BY <1>1, <1>4, <1>7, <1>8, <1>9, <1>10

LEMMA PacketsAreEnough ==
    ASSUME NEW c \in Networks, NEW S, NEW schedule \in Seq(S), NEW n, n = PacketsFor(c, schedule),
           NEW capacity, capacity = GetPacketCapacity(c)
    PROVE  /\ capacity \in Nat \ {0} /\ n \in Nat \ {0}
           /\ Len(schedule) <= n * capacity
           /\ n > 1 => (n - 1) * capacity < Len(schedule)
<1>1. capacity \in Nat \ {0}
  <2>1. c.maxPktSize \in Nat /\ capacity > 0
    BY ConfigurationAssumption
  <2>2. PICK room \in Int : room = c.maxPktSize - (panHeaderSize + HeaderSize)
    BY <2>1 DEF panHeaderSize, HeaderSize
  <2>3. capacity = room \div ElementSize /\ ElementSize \in Nat \ {0}
    BY <2>2 DEF GetPacketCapacity, ElementSize
  <2>4. capacity \in Int
    BY <2>3, IntDivMod
  <2> QED
    BY <2>1, <2>4
<1>2. Len(schedule) \in Nat
  OBVIOUS
<1>3. CASE schedule = <<>>
  <2>1. n = 1 /\ Len(schedule) = 0
    BY <1>3 DEF PacketsFor
  <2> QED
    BY <1>1, <2>1
<1>4. CASE schedule # <<>>
  <2>1. PICK l \in Nat \ {0} : l = Len(schedule)
    BY <1>4
  <2>2. PICK a \in Nat : a = l + capacity - 1
    BY <1>1
  <2>3. n = a \div capacity
    <3>1. n = (Len(schedule) + capacity - 1) \div capacity
      BY <1>4 DEF PacketsFor
    <3> QED
      BY <2>1, <2>2, <3>1
  <2>4. n \in Nat /\ \E r \in 0..(capacity - 1) : a = capacity * n + r
    <3>1. /\ a \div capacity \in Nat /\ a % capacity \in 0..(capacity - 1)
          /\ a = capacity * (a \div capacity) + (a % capacity)
      BY <1>1, <2>2, DivMod
    <3>2. PICK r : r = a % capacity
      OBVIOUS
    <3>3. r \in 0..(capacity - 1) /\ a = capacity * n + r /\ n \in Nat
      BY <2>3, <3>1, <3>2
    <3> QED
      BY <3>3
  <2>5. PICK r \in 0..(capacity - 1) : a = capacity * n + r
    BY <2>4
  <2>6. n # 0
    BY <1>1, <2>1, <2>2, <2>4, <2>5
  <2>7. PICK k \in Nat : n = k + 1
    BY <2>4, <2>6
  <2>8. PICK whole \in Nat : whole = k * capacity
    BY <1>1
  <2>9. capacity * n = whole + capacity /\ n * capacity = whole + capacity /\ (n - 1) * capacity = whole
    BY <1>1, <2>7, <2>8
  <2>10. l <= whole + capacity /\ whole < l
    BY <1>1, <2>1, <2>2, <2>5, <2>9
  <2> QED
    BY <1>1, <2>1, <2>4, <2>6, <2>9, <2>10
<1> QED
  BY <1>3, <1>4

LEMMA NewHeaderIs ==
    ASSUME NEW c \in Networks, NEW S, NEW schedule \in Seq(S), NEW last, HeaderTyped(last), NEW id, NEW tiles \in Nat,
           NEW t \in Nat, DownlinkTile(c, t), ~TimesyncTile(c, t),
           NEW h, h = NewHeader(c, last, schedule, id, tiles, t)
    PROVE  /\ HeaderTyped(h) /\ h.id = id /\ h.tiles = tiles % 2^16
           /\ h.total = PacketsFor(c, schedule) % 2^16 /\ h.current = 0
           /\ last.tiles > 0 => \E k \in Int : h.activation = last.activation + k * last.tiles
<1>1. PICK packets \in Nat : packets = PacketsFor(c, schedule)
  BY PacketsAreEnough
<1>2. PICK n \in Nat : n = ScheduleRepetitions * packets
  BY RepetitionsAssumption
<1>3. PICK earliest \in Nat : earliest = GetActivationTile(c, t, n)
  BY ActivationIsNumber
<1>4. PICK activation : activation = IF last.tiles > 0
                                     THEN AlignedActivation(c, earliest, last.activation, last.tiles) ELSE earliest
  OBVIOUS
<1>5. h = ScheduleHeader(packets, 0, id, activation, tiles, 0)
  BY <1>1, <1>2, <1>3, <1>4 DEF NewHeader
<1>6. last.tiles \in Nat /\ last.activation \in Int
  BY DEF HeaderTyped
<1>7. last.tiles > 0 => \E k \in Int : activation = last.activation + k * last.tiles
  <2> SUFFICES ASSUME last.tiles > 0 PROVE \E k \in Int : activation = last.activation + k * last.tiles
    OBVIOUS
  <2>1. PICK b \in Nat \ {0}, a \in Int : b = last.tiles /\ a = last.activation
    BY <1>6
  <2>2. PICK v \in Int : v = earliest - a + b - 1
    OBVIOUS
  <2>3. PICK q \in Int : q = v \div b
    BY IntDivMod
  <2>4. Align(earliest - a, b) = q * b
    BY <2>2, <2>3 DEF Align
  <2>5. activation \in {a + q * b, (a + q * b) + b}
    BY <1>4, <2>1, <2>4 DEF AlignedActivation
  <2>6. q * b \in Int /\ (q + 1) * b = q * b + b
    BY <2>1
  <2>7. \A w \in Int : (a + w) + b = a + (w + b)
    BY <2>1
  <2>8. activation = a + q * b \/ activation = a + (q + 1) * b
    BY <2>5, <2>6, <2>7, Zenon
  <2> QED
    BY <2>1, <2>8
<1>8. activation \in Int
  <2>1. CASE last.tiles > 0
    <3>1. PICK k \in Int : activation = last.activation + k * last.tiles
      BY <1>7, <2>1
    <3>2. k * last.tiles \in Int
      BY <1>6
    <3> QED
      BY <1>6, <3>1, <3>2
  <2>2. CASE ~(last.tiles > 0)
    BY <1>4, <2>2
  <2> QED
    BY <2>1, <2>2
<1>9. packets % 2^16 \in Nat /\ tiles % 2^16 \in Nat /\ 0 % 2^16 = 0
  <2>1. 0 % 2^16 = 0
    OBVIOUS
  <2> QED
    BY <2>1, TwoBytes
<1>10. /\ HeaderFields \subseteq DOMAIN h /\ h.activation = activation /\ h.tiles = tiles % 2^16 /\ h.id = id
       /\ h.total = packets % 2^16 /\ h.current = 0
  BY <1>5, <1>9 DEF ScheduleHeader, HeaderFields
<1>11. HeaderTyped(h)
  <2>1. PICK word \in Nat : word = tiles % 2^16
    BY <1>9
  <2>2. PICK total \in Nat : total = packets % 2^16
    BY <1>9
  <2> QED
    BY <1>8, <1>10, <2>1, <2>2 DEF HeaderTyped
<1> QED
  BY <1>1, <1>7, <1>10, <1>11

\* A downlink of the master.
LEMMA MasterExecuteIs ==
    ASSUME NEW c \in Networks, NEW m, MasterFields(c, m), HeaderTyped(m.header), NEW p, p.schedule \in Seq(AllTransmissions(c)),
           p.tiles \in Nat, NEW t \in Nat, DownlinkTile(c, t), ~TimesyncTile(c, t), NEW new, new = MasterExecute(c, m, p, t)
    PROVE  /\ HeaderTyped(new.header)
           /\ m.status = "APPLIED_SCHEDULE" =>
                \/ new = m
                \/ /\ new.status = "SENDING_SCHEDULE" /\ new.schedule = p.schedule /\ new.position = 0
                   /\ new.header = NewHeader(c, m.header, p.schedule, p.id, p.tiles, t)
           /\ Sending(m) => new = PacketSent(c, m)
           /\ (m.status # "APPLIED_SCHEDULE" /\ ~Sending(m)) =>
                /\ new.header = m.header /\ new.schedule = m.schedule /\ new.position = m.position
                /\ new.status \in {"APPLIED_SCHEDULE", "AWAITING_ACTIVATION"}
<1> DEFINE sent == GetScheduleAndComputeActivation(c, m, GetSchedule(p), t)
           activated == [m EXCEPT !.status = "APPLIED_SCHEDULE"]
           waiting == [m EXCEPT !.status = "AWAITING_ACTIVATION"]
<1>1. /\ sent.status = "SENDING_SCHEDULE" /\ sent.schedule = p.schedule /\ sent.position = 0
      /\ sent.header = NewHeader(c, m.header, p.schedule, p.id, p.tiles, t)
  BY DEF GetScheduleAndComputeActivation, GetSchedule
<1>2. HeaderTyped(sent.header)
  BY <1>1, NewHeaderIs
<1>3. /\ activated.header = m.header /\ activated.schedule = m.schedule /\ activated.position = m.position
      /\ activated.status = "APPLIED_SCHEDULE"
      /\ waiting.header = m.header /\ waiting.schedule = m.schedule /\ waiting.position = m.position
      /\ waiting.status = "AWAITING_ACTIVATION"
  BY DEF MasterFields
<1> HIDE DEF sent, activated, waiting
<1>4. CASE m.status = "APPLIED_SCHEDULE"
  <2>1. ~Sending(m) /\ ~MasterActivates(m, t)
    BY <1>4 DEF Sending, MasterActivates
  <2>2. new \in {m, sent}
    BY <1>4, <2>1 DEF MasterExecute, sent
  <2> QED
    BY <1>1, <1>2, <1>4, <2>1, <2>2
<1>5. CASE m.status # "APPLIED_SCHEDULE" /\ Sending(m)
  <2>1. new = PacketSent(c, m)
    BY <1>5 DEF MasterExecute, MasterActivates
  <2> QED
    BY <1>5, <2>1, PacketSentIs
<1>6. CASE m.status # "APPLIED_SCHEDULE" /\ ~Sending(m)
  <2>1. new \in {activated, waiting}
    BY <1>6 DEF MasterExecute, activated, waiting
  <2> QED
    BY <1>3, <1>6, <2>1
<1> QED
  BY <1>4, <1>5, <1>6

LEMMA NumbersInvInit == Init => NumbersInv
<1> SUFFICES ASSUME Init PROVE NumbersInv
  OBVIOUS
<1>1. PublishedNumbers
  <2>1. /\ published = [schedule |-> <<>>, id |-> 0, tiles |-> Size(net), links |-> {}, notApplied |-> FALSE]
        /\ sch.pc = "waiting" /\ net \in Networks
    BY DEF Init
  <2>2. Size(net) \in Nat \ {0}
    BY <2>1, Configuration
  <2> QED
    BY <2>1, <2>2 DEF PublishedNumbers, PublishedFields
<1>2. HeaderTyped(md.header)
  <2>1. md.header = NoHeader
    BY DEF Init, MasterDistribution
  <2>2. 0 % 2^16 = 0
    OBVIOUS
  <2>3. NoHeader.total = 0 /\ NoHeader.tiles = 0 /\ NoHeader.activation = 0 /\ HeaderFields \subseteq DOMAIN NoHeader
    BY <2>2 DEF NoHeader, ScheduleHeader, HeaderFields
  <2> QED
    BY <2>1, <2>3 DEF HeaderTyped
<1>3. \A n \in Dynamic : dist[n].status = "APPLIED_SCHEDULE"
  BY DEF Init, NodeDistribution
<1>4. \A n \in Nodes : PlayTyped(data[n])
  <2>1. \A n \in Nodes : data[n] = PlaysNothing
    BY DEF Init
  <2> QED
    BY <2>1, NothingIsPlayed
<1> QED
  BY <1>1, <1>2, <1>3, <1>4 DEF NumbersInv

\* The schedule that the scheduler makes.
LEMMA NewScheduleNumbers ==
    ASSUME net \in Networks, DistributionTypes, PublishedNumbers
    PROVE  \E s \in Seq(AllTransmissions(net)) :
            /\ NewSchedule = WithLinks(s) /\ NewSchedule.schedule = s /\ NewSchedule.id = published.id + 1
            /\ NewSchedule.tiles \in Nat \ {0} /\ PublishedFields \subseteq DOMAIN NewSchedule
<1> DEFINE kept == Schedule(sch.established, sch.graph)
           added == Schedule(IF sch.added THEN sch.accepted ELSE {}, sch.graph)
           more == Schedule(sch.accepted, sch.graph)
           start == IF sch.graphChanged THEN Size(net) ELSE published.tiles
<1>1. kept \in Seq(AllTransmissions(net)) /\ added \in Seq(AllTransmissions(net))
      /\ more \in Seq(AllTransmissions(net)) /\ published.schedule \in Seq(AllTransmissions(net))
  BY ScheduleTyped DEF DistributionTypes, PublishedTyped
<1>2. NewSchedule = WithLinks(IF sch.graphChanged THEN kept \o added ELSE published.schedule \o more)
  BY DEF NewSchedule
<1> HIDE DEF kept, added, more
<1>3. kept \o added \in Seq(AllTransmissions(net)) /\ published.schedule \o more \in Seq(AllTransmissions(net))
  BY <1>1
<1>4. PICK s \in Seq(AllTransmissions(net)) : NewSchedule = WithLinks(s)
  BY <1>2, <1>3
<1>5. start \in Nat \ {0}
  BY Configuration DEF PublishedNumbers
<1> HIDE DEF start
<1>6. TilesFor(s, start) \in Nat \ {0}
  BY <1>5, TilesTyped
<1>7. /\ NewSchedule.schedule = s /\ NewSchedule.id = published.id + 1
      /\ NewSchedule.tiles = TilesFor(s, start) /\ PublishedFields \subseteq DOMAIN NewSchedule
  BY <1>4 DEF WithLinks, start, PublishedFields
<1> QED
  BY <1>4, <1>6, <1>7

LEMMA SchedulerKeepsNumbers ==
    ASSUME net \in Networks, DistributionTypes, PublishedNumbers, Scheduler
    PROVE  PublishedNumbers'
<1> DEFINE PublicationTyped(p) == PublishedFields \subseteq DOMAIN p /\ p.id \in Nat /\ p.tiles \in Nat \ {0}
<1>1. PublicationTyped(published)
  BY DEF PublishedNumbers
<1>2. ASSUME NEW applied, published' = [published EXCEPT !.notApplied = applied] PROVE PublicationTyped(published')
  BY <1>1, <1>2 DEF PublishedFields
<1>3. ASSUME PublicationTyped(published'), sch'.pc # "publish" PROVE PublishedNumbers'
  BY <1>3 DEF PublishedNumbers
<1> HIDE DEF PublicationTyped
<1>4. CASE SchedWake
  BY <1>2, <1>3, <1>4 DEF SchedWake
<1>5. CASE SchedSnapshot
  BY <1>1, <1>3, <1>5 DEF SchedSnapshot
<1>6. CASE SchedGraph
  BY <1>1, <1>3, <1>6 DEF SchedGraph
<1>7. CASE SchedWriteBack
  <2>1. published' = published /\ sch' = [sch EXCEPT !.pc = "compute"] /\ "pc" \in DOMAIN sch
    BY <1>7 DEF SchedWriteBack, DistributionTypes, SchedulerTyped
  <2> QED
    BY <1>1, <1>3, <2>1
<1>8. CASE SchedCompute
  <2>1. CASE sch.graphChanged \/ sch.added
    <3>1. Told(NewSchedule)
      BY <1>8, <2>1 DEF SchedCompute
    <3>2. published' = published /\ sch'.pc = "publish" /\ sch'.new = NewSchedule
      BY <3>1 DEF Told
    <3>3. /\ NewSchedule.id = published.id + 1 /\ NewSchedule.tiles \in Nat \ {0}
          /\ PublishedFields \subseteq DOMAIN NewSchedule
      BY NewScheduleNumbers
    <3> QED
      BY <3>2, <3>3 DEF PublishedNumbers
  <2>2. CASE ~(sch.graphChanged \/ sch.added)
    BY <1>2, <1>3, <1>8, <2>2 DEF SchedCompute
  <2> QED
    BY <2>1, <2>2
<1>9. CASE SchedPublish
  <2>1. published' = sch.new /\ sch.pc = "publish" /\ sch'.pc = "waiting"
    BY <1>9 DEF SchedPublish, Thread
  <2>2. PublicationTyped(published')
    BY <2>1 DEF PublishedNumbers, PublicationTyped
  <2> QED
    BY <1>3, <2>1, <2>2
<1> QED
  BY <1>4, <1>5, <1>6, <1>7, <1>8, <1>9 DEF Scheduler

\* A node that receives a schedule has the time, and awaits what the master sends.
LEMMA NodeAwaits ==
    ASSUME ScheduleInv, NEW n \in Dynamic, dist[n].status = "SENDING_SCHEDULE"
    PROVE  n \in InTime /\ AwaitsActivation(n)
<1>1. dist[n] # NodeDistribution
  BY DEF NodeDistribution
<1> QED
  BY <1>1 DEF ScheduleInv, HoldsSchedule

LEMMA ReceivedHeader ==
    ASSUME NEW c, NEW d, NodeFields(d), NEW pkt, {"header", "elements"} \subseteq DOMAIN pkt,
           NodeReceives(c, d, pkt).status = "SENDING_SCHEDULE"
    PROVE  \/ d.status = "SENDING_SCHEDULE" /\ NodeReceives(c, d, pkt).header = d.header
           \/ IsSchedulePacket(pkt.header) /\ NodeReceives(c, d, pkt).header = pkt.header
<1> DEFINE plain == WithoutInfo(pkt)
           started == InitSchedule(d, plain)
           continued == AppendToSchedule(d, plain)
<1>1. plain.header = pkt.header
  BY DEF WithoutInfo
<1> HIDE DEF plain
<1>2. started.header = pkt.header
  BY <1>1 DEF NodeFields, InitSchedule
<1>3. continued.status = d.status /\ continued.header \in {d.header, pkt.header}
  BY <1>1 DEF NodeFields, AppendToSchedule
<1> HIDE DEF started, continued
<1>4. NodeReceives(c, d, pkt) =
        IF ~IsSchedulePacket(pkt.header) THEN NodeHearsNothing(c, d)
        ELSE IF pkt.header.id # d.header.id THEN started
        ELSE IF d.status = "SENDING_SCHEDULE" THEN continued ELSE d
  BY DEF NodeReceives, started, continued, plain
<1> QED
  BY <1>2, <1>3, <1>4, HearsNothingKeeps

\* In a downlink: the master, and a node that goes on receiving.
LEMMA MasterInDownlink ==
    ASSUME TimeInv, DistributionTypes, NumbersInv, DownlinkPhase, NEW pkt, NEW got, DownlinkStep(pkt, got)
    PROVE  /\ md' = MasterExecute(net, md, published, tile) /\ NodeTile(0) = tile /\ tile \in Nat
           /\ HeaderTyped(md'.header)
           /\ md.status = "APPLIED_SCHEDULE" =>
                \/ md' = md
                \/ /\ md'.status = "SENDING_SCHEDULE" /\ md'.schedule = published.schedule /\ md'.position = 0
                   /\ md'.header = NewHeader(net, md.header, published.schedule, published.id, published.tiles, tile)
           /\ Sending(md) => md' = PacketSent(net, md)
           /\ (md.status # "APPLIED_SCHEDULE" /\ ~Sending(md)) =>
                /\ md'.header = md.header /\ md'.schedule = md.schedule /\ md'.position = md.position
                /\ md'.status \in {"APPLIED_SCHEDULE", "AWAITING_ACTIVATION"}
           /\ md.status # "APPLIED_SCHEDULE" => /\ md'.header.tiles = md.header.tiles
                                                /\ md'.header.total = md.header.total
                                                /\ md'.schedule = md.schedule
<1>1. net \in Networks /\ tile \in Nat /\ DownlinkTile(net, tile) /\ ~TimesyncTile(net, tile)
  BY DEF TimeInv, DownlinkPhase
<1>2. NodeTile(0) = tile
  BY <1>1, MasterTile
<1>3. md' = MasterExecute(net, md, published, tile)
  BY <1>2 DEF DownlinkStep
<1>4. MasterFields(net, md) /\ HeaderTyped(md.header)
  BY DEF DistributionTypes, MasterTyped, NumbersInv
<1>5. published.schedule \in Seq(AllTransmissions(net)) /\ published.tiles \in Nat
  BY DEF DistributionTypes, PublishedTyped, NumbersInv, PublishedNumbers
<1>6. /\ HeaderTyped(md'.header)
      /\ md.status = "APPLIED_SCHEDULE" =>
           \/ md' = md
           \/ /\ md'.status = "SENDING_SCHEDULE" /\ md'.schedule = published.schedule /\ md'.position = 0
              /\ md'.header = NewHeader(net, md.header, published.schedule, published.id, published.tiles, tile)
      /\ Sending(md) => md' = PacketSent(net, md)
      /\ (md.status # "APPLIED_SCHEDULE" /\ ~Sending(md)) =>
           /\ md'.header = md.header /\ md'.schedule = md.schedule /\ md'.position = md.position
           /\ md'.status \in {"APPLIED_SCHEDULE", "AWAITING_ACTIVATION"}
  BY <1>1, <1>3, <1>4, <1>5, MasterExecuteIs
<1>7. md.status # "APPLIED_SCHEDULE" => /\ md'.header.tiles = md.header.tiles
                                        /\ md'.header.total = md.header.total
                                        /\ md'.schedule = md.schedule
  <2>1. Sending(md) => /\ md'.header.tiles = md.header.tiles /\ md'.header.total = md.header.total
                       /\ md'.schedule = md.schedule
    BY <1>1, <1>4, <1>6, PacketSentIs
  <2> QED
    BY <1>6, <2>1
<1> QED
  BY <1>1, <1>2, <1>3, <1>6, <1>7

LEMMA DownlinkKeepsNumbers ==
    ASSUME TimeInv, DistributionTypes, ScheduleInv, NumbersInv, DownlinkPhase
    PROVE  NumbersInv'
<1>1. PICK pkt, got : /\ {"header", "elements"} \subseteq DOMAIN pkt
                      /\ IsSchedulePacket(pkt.header) => Sending(md) /\ pkt.header = md.header
                      /\ got \subseteq Listening /\ DownlinkStep(pkt, got)
  BY OnePacketOnAir DEF TimeInv
<1>2. Dynamic' = Dynamic /\ Nodes' = Nodes /\ net' = net /\ sch' = sch
  BY DEF DownlinkPhase, Dynamic, Nodes
<1>3. HeaderTyped(md.header) /\ HeaderTyped(md'.header)
      /\ (md.status # "APPLIED_SCHEDULE" => md'.header.tiles = md.header.tiles) /\ NodeTile(0) \in Int
  <2>1. HeaderTyped(md.header)
    BY DEF NumbersInv
  <2> QED
    BY <1>1, <2>1, MasterInDownlink
<1>4. PublishedNumbers'
  <2>1. published' \in {published, [published EXCEPT !.notApplied = FALSE]}
    BY <1>1 DEF DownlinkStep, ScheduleSentAndApplied
  <2>2. PublishedNumbers
    BY DEF NumbersInv
  <2>3. /\ published'.id = published.id /\ published'.tiles = published.tiles
        /\ PublishedFields \subseteq DOMAIN published'
    BY <2>1, <2>2 DEF PublishedNumbers, PublishedFields
  <2> QED
    BY <1>2, <2>2, <2>3 DEF PublishedNumbers
<1>5. ASSUME NEW n \in Dynamic, dist'[n].status = "SENDING_SCHEDULE"
      PROVE  HeaderFields \subseteq DOMAIN dist'[n].header /\ dist'[n].header.tiles = md'.header.tiles
  <2>1. NodeFields(dist[n])
    BY DEF DistributionTypes, NodesTyped
  <2>2. ~Activating(n)
    BY <1>1, <1>5, <2>1, NodeInDownlink, ActivationKeeps
  <2>3. \/ dist[n].status = "SENDING_SCHEDULE" /\ dist'[n].header = dist[n].header
        \/ Sending(md) /\ dist'[n].header = md.header
    <3>1. CASE n \in got
      <4>1. dist'[n] = NodeReceives(net, dist[n], pkt)
        BY <1>1, <3>1, NodeInDownlink
      <4> QED
        BY <1>1, <1>5, <2>1, <4>1, ReceivedHeader
    <3>2. CASE n \notin got
      <4>1. dist'[n] \in {dist[n], NodeHearsNothing(net, dist[n])}
        BY <1>1, <2>2, <3>2, NodeInDownlink
      <4> QED
        BY <1>5, <2>1, <4>1, HearsNothingKeeps
    <3> QED
      BY <3>1, <3>2
  <2>4. CASE dist[n].status = "SENDING_SCHEDULE" /\ dist'[n].header = dist[n].header
    <3>1. md.status # "APPLIED_SCHEDULE"
      BY <2>4, NodeAwaits DEF AwaitsActivation
    <3> QED
      BY <1>3, <2>4, <3>1 DEF NumbersInv
  <2>5. CASE Sending(md) /\ dist'[n].header = md.header
    BY <1>3, <2>5 DEF Sending, HeaderTyped
  <2> QED
    BY <2>3, <2>4, <2>5
<1>6. ASSUME NEW n \in Dynamic PROVE PlayTyped(data'[n])
  <2>1. PlayTyped(data[n])
    BY DEF NumbersInv, Dynamic
  <2>2. CASE ~Activating(n)
    BY <1>1, <2>1, <2>2, NodeInDownlink, AdvancedIs
  <2>3. CASE Activating(n)
    <3>1. dist[n].status = "SENDING_SCHEDULE"
      BY <2>3 DEF Activating, Activates
    <3>2. n \in InTime /\ dist[n].header.activation = md.header.activation
      BY <3>1, NodeAwaits DEF AwaitsActivation
    <3>3. PICK t \in Int : t = NodeTile(n)
      BY <1>3, <3>2, SameTile
    <3>4. PICK h : h = dist[n].header
      OBVIOUS
    <3>5. HeaderFields \subseteq DOMAIN h /\ h.tiles \in Nat /\ h.activation \in Int
      BY <1>3, <3>1, <3>2, <3>4 DEF NumbersInv, HeaderTyped
    <3>6. PlayTyped(Play(h, dist[n].schedule, t))
      BY <3>5, PlayIs
    <3>7. PlayTyped(PlaysAfterActivation(dist[n], NodeTile(n)))
      BY <3>3, <3>4, <3>6, NothingIsPlayed DEF PlaysAfterActivation
    <3> QED
      BY <1>1, <2>3, <3>7, NodeInDownlink, AdvancedIs
  <2> QED
    BY <2>2, <2>3
<1>7. ASSUME 0 \in Nodes PROVE PlayTyped(data'[0])
  <2>1. PlayTyped(data[0])
    BY <1>7 DEF NumbersInv
  <2>2. \/ data'[0] = Advanced(data[0], 1)
        \/ data'[0] = Advanced(Play(md.header, md.schedule, NodeTile(0)), 1)
    BY <1>1, <1>7 DEF DownlinkStep
  <2>3. PlayTyped(Play(md.header, md.schedule, NodeTile(0)))
    BY <1>3, PlayIs DEF HeaderTyped
  <2> QED
    BY <2>1, <2>2, <2>3, AdvancedIs
<1>8. \A n \in Nodes : PlayTyped(data'[n])
  BY <1>6, <1>7 DEF Dynamic
<1> QED
  BY <1>2, <1>3, <1>4, <1>5, <1>8 DEF NumbersInv

LEMMA NumbersInvNext ==
    ASSUME TimeInv, DistributionTypes, ScheduleInv, NumbersInv, [Next]_vars
    PROVE  NumbersInv'
<1>1. net \in Networks /\ PublishedNumbers
  BY DEF TimeInv, NumbersInv
<1>2. CASE TimesyncPhase
  <2>1. PICK deaf : TimesyncStep(deaf)
    BY <1>2 DEF TimesyncPhase
  <2>2. UNCHANGED <<net, md, published, sch>> /\ Dynamic' = Dynamic /\ Nodes' = Nodes
    BY <1>2 DEF TimesyncPhase, schedVars, Dynamic, Nodes
  <2>3. \A n \in Nodes : data'[n] \in {PlaysNothing, Advanced(data[n], 1)}
    BY <2>1 DEF TimesyncStep
  <2>4. \A n \in Nodes : PlayTyped(data'[n])
    BY <2>3, NothingIsPlayed, AdvancedIs DEF NumbersInv
  <2>5. \A n \in Dynamic : dist'[n] \in {NodeDistribution, dist[n]}
    BY <2>1 DEF TimesyncStep
  <2>6. NodeDistribution.status # "SENDING_SCHEDULE"
    BY DEF NodeDistribution
  <2>7. \A n \in Dynamic : dist'[n].status = "SENDING_SCHEDULE" =>
            HeaderFields \subseteq DOMAIN dist'[n].header /\ dist'[n].header.tiles = md.header.tiles
    BY <2>5, <2>6 DEF NumbersInv
  <2> QED
    BY <1>1, <2>2, <2>4, <2>7 DEF NumbersInv, PublishedNumbers
<1>3. CASE UplinkPhaseStep
  <2>1. PICK messages, deaf, packets : UplinkStep(messages, deaf, packets)
    BY <1>3 DEF UplinkPhaseStep
  <2>2. UNCHANGED <<net, md, published, sch, dist>> /\ Dynamic' = Dynamic /\ Nodes' = Nodes
    BY <1>3 DEF UplinkPhaseStep, Dynamic, Nodes
  <2>3. \A n \in Nodes : data'[n] = Advanced(data[n], 1)
    BY <2>1 DEF UplinkStep
  <2>4. \A n \in Nodes : PlayTyped(data'[n])
    BY <2>3, AdvancedIs DEF NumbersInv
  <2> QED
    BY <2>2, <2>4 DEF NumbersInv, PublishedNumbers
<1>4. CASE ~TimesyncPhase /\ ~DownlinkPhase /\ ~UplinkPhaseStep
  <2>1. UNCHANGED <<net, dist, md, data>>
    BY <1>4, OtherStepsTakeNoTime DEF nodeVars
  <2>2. Dynamic' = Dynamic /\ Nodes' = Nodes
    BY <2>1 DEF Dynamic, Nodes
  <2>3. PublishedNumbers'
    <3>1. CASE Scheduler
      BY <1>1, <3>1, SchedulerKeepsNumbers
    <3>2. CASE ~Scheduler
      <4>1. UNCHANGED <<published, sch>>
        BY <1>4, <3>2 DEF Next, Connect, LinksChange, RateChanges, vars, schedVars
      <4> QED
        BY <1>1, <4>1 DEF PublishedNumbers
    <3> QED
      BY <3>1, <3>2
  <2> QED
    BY <2>1, <2>2, <2>3 DEF NumbersInv
<1> QED
  BY <1>2, <1>3, <1>4, DownlinkKeepsNumbers

-----------------------------------------------------------------------------
(***************************************************************************)
(* The types of the state.                                                 *)
(***************************************************************************)
Bounds == tile \in 0..MaxTile /\ age \in 0..MaxDelay

LEMMA BoundsInit == Init => Bounds
  BY BoundsAssumption DEF Init, Bounds

LEMMA BoundsNext == Bounds /\ [Next]_vars => Bounds'
<1> SUFFICES ASSUME Bounds, [Next]_vars PROVE Bounds'
  OBVIOUS
<1> USE BoundsAssumption DEF Bounds
<1>1. ASSUME TimePasses PROVE Bounds'
  BY <1>1 DEF TimePasses
<1>2. ASSUME UNCHANGED tile, age' \in {0, age} PROVE Bounds'
  BY <1>2
<1>3. CASE TimesyncPhase \/ DownlinkPhase \/ UplinkPhaseStep
  BY <1>1, <1>3 DEF TimesyncPhase, DownlinkPhase, UplinkPhaseStep
<1>4. CASE Connect \/ LinksChange \/ RateChanges \/ UNCHANGED vars
  BY <1>2, <1>4 DEF Connect, LinksChange, RateChanges, vars
<1>5. CASE SchedWake \/ SchedSnapshot \/ SchedGraph \/ SchedWriteBack
  BY <1>2, <1>5 DEF SchedWake, SchedSnapshot, SchedGraph, SchedWriteBack, SchedOnly
<1>6. CASE SchedCompute
  BY <1>2, <1>6 DEF SchedCompute, SchedOnly, Told
<1>7. CASE SchedPublish
  BY <1>2, <1>7 DEF SchedPublish, SchedOnly
<1> QED
  BY <1>3, <1>4, <1>5, <1>6, <1>7 DEF Next, Scheduler

\* A node that has the time may miss one more timesync.
SyncTyped(c, s) ==
    /\ {"status", "hop", "missed"} \subseteq DOMAIN s /\ s.status \in {"DESYNCHRONIZED", "SYNCING", "IN_SYNC"}
    /\ s.hop \in 0..c.maxHops /\ s.missed \in 0..c.maxMissedTimesyncs
    /\ Synchronized(s) => s.missed < c.maxMissedTimesyncs
SyncsInv == \A n \in Nodes : SyncTyped(net, sync[n])

LEMMA SyncNumbers ==
    ASSUME NEW c \in Networks
    PROVE  c.maxHops \in Nat /\ c.maxMissedTimesyncs \in Nat \ {0}
<1>1. c.maxHops \in 0..255 /\ c.maxMissedTimesyncs \in 0..255 /\ c.maxMissedTimesyncs > 0
  BY ConfigurationAssumption DEF ConfigurationFields, Byte
<1> QED
  BY <1>1

LEMMA SyncsInit == Init => SyncsInv
<1> SUFFICES ASSUME Init, NEW n \in Nodes PROVE SyncTyped(net, sync[n])
  BY DEF SyncsInv
<1>1. sync[n] \in {MasterSync, Desynchronized} /\ net \in Networks
  BY DEF Init
<1>2. SyncTyped(net, Desynchronized)
  BY <1>1, SyncNumbers DEF SyncTyped, Desynchronized, Synchronized
<1>3. SyncTyped(net, MasterSync)
  BY <1>1, SyncNumbers DEF SyncTyped, MasterSync, SetTimesyncPacketCounter, Desynchronized, Synchronized
<1> QED
  BY <1>1, <1>2, <1>3

LEMMA SyncsNext ==
    ASSUME net \in Networks, SyncsInv, [Next]_vars
    PROVE  SyncsInv'
<1>1. CASE TimesyncPhase
  <2>1. PICK deaf : TimesyncStep(deaf)
    BY <1>1 DEF TimesyncPhase
  <2>2. PICK wave : wave = TimesyncWave(deaf)
    OBVIOUS
  <2> SUFFICES ASSUME NEW n \in Nodes PROVE SyncTyped(net, sync'[n])
    BY <1>1 DEF TimesyncPhase, SyncsInv, Nodes
  <2>3. sync'[n] = AfterTimesync(wave, n)
    BY <2>1, <2>2 DEF TimesyncStep
  <2>4. SyncTyped(net, sync[n])
    BY DEF SyncsInv
  <2>5. SyncTyped(net, NextTimesync(sync[n]))
    BY <2>4 DEF SyncTyped, NextTimesync, IncrementTimesyncPacketCounter, Synchronized
  <2>6. ASSUME Resyncs(wave, n) PROVE SyncTyped(net, ResyncTime(SyncPacket(HopIn(wave, n) - 1, TimesyncCounter)))
    <3>1. HopIn(wave, n) \in 1..net.maxHops
      BY <2>6 DEF Resyncs, GetsTimesync, HopIn
    <3>2. PICK h \in 1..net.maxHops : h = HopIn(wave, n)
      BY <3>1
    <3>3. SyncPacket(h - 1, TimesyncCounter).hop + 1 = h
      BY SyncNumbers DEF SyncPacket
    <3> QED
      BY <3>2, <3>3, SyncNumbers DEF SyncTyped, ResyncTime, Desynchronized, Synchronized
  <2>7. SyncTyped(net, PeriodicSync(sync[n], Offset(n)))
    BY <2>4, SyncNumbers DEF SyncTyped, PeriodicSync, Synchronized
  <2>8. ASSUME Synchronized(sync[n]) PROVE SyncTyped(net, MissedPacket(net, sync[n], Offset(n)))
    <3>1. PICK m \in Nat : m = sync[n].missed /\ m + 1 <= net.maxMissedTimesyncs
      BY <2>4, <2>8, SyncNumbers DEF SyncTyped
    <3>2. SyncTyped(net, OutOfTime(sync[n]))
      BY <2>4, <3>1, SyncNumbers DEF SyncTyped, OutOfTime, Synchronized
    <3>3. m + 1 < net.maxMissedTimesyncs => SyncTyped(net, StillInTime(sync[n], Offset(n)))
      BY <2>4, <3>1, SyncNumbers DEF SyncTyped, StillInTime, Synchronized
    <3> QED
      BY <3>1, <3>2, <3>3, SyncNumbers DEF MissedPacket
  <2>9. CASE n = 0
    <3>1. sync'[n] = NextTimesync(sync[n])
      BY <2>3, <2>9 DEF AfterTimesync, Resyncs
    <3> QED
      BY <2>5, <3>1
  <2>10. CASE n # 0
    BY <2>3, <2>4, <2>6, <2>7, <2>8, <2>10 DEF AfterTimesync, Resyncs
  <2> QED
    BY <2>9, <2>10
<1>2. CASE DownlinkPhase \/ UplinkPhaseStep
  BY <1>2 DEF DownlinkPhase, UplinkPhaseStep, SyncsInv, Nodes
<1>3. CASE ~TimesyncPhase /\ ~DownlinkPhase /\ ~UplinkPhaseStep
  <2>1. UNCHANGED <<net, sync>>
    BY <1>3, OtherStepsTakeNoTime DEF nodeVars
  <2> QED
    BY <2>1 DEF SyncsInv, Nodes
<1> QED
  BY <1>1, <1>2, <1>3

\* The turn, and what a node knows of its neighbors.
GoodTable(c, t) ==
    /\ {"neighbors", "strong", "weak", "predecessors", "badAssignee"} \subseteq DOMAIN t
    /\ c.useWeakTopologies => t.strong \subseteq t.weak
GoodUplink(c, u) ==
    /\ {"next", "table"} \subseteq DOMAIN u /\ u.next \in NodeIds(c) /\ GoodTable(c, u.table)
UplinksInv == \A n \in Nodes : GoodUplink(net, uplink[n])

LEMMA UpdateTopologyElementTable ==
    ASSUME NEW c, NEW t, GoodTable(c, t), NEW node
    PROVE  GoodTable(c, UpdateTopologyElement(c, t, node))
<1> DEFINE status == t.neighbors[node].status
           In(set, yes) == IF yes THEN set \cup {node} ELSE set \ {node}
           strong == In(t.strong, status = "STRONG")
           weak == IF c.useWeakTopologies THEN In(t.weak, status # "UNKNOWN") ELSE t.weak
<1>1. c.useWeakTopologies => strong \subseteq weak
  BY DEF GoodTable
<1> HIDE DEF strong, weak
<1>2. UpdateTopologyElement(c, t, node) = [t EXCEPT !.strong = strong, !.weak = weak]
  BY DEF UpdateTopologyElement, strong, weak, GoodTable
<1> QED
  BY <1>1, <1>2 DEF GoodTable

LEMMA PredecessorsTable ==
    ASSUME NEW c, NEW t, GoodTable(c, t), NEW x
    PROVE  GoodTable(c, [t EXCEPT !.predecessors = x]) /\ GoodTable(c, [t EXCEPT !.badAssignee = x])
           /\ GoodTable(c, [t EXCEPT !.neighbors = x])
  BY DEF GoodTable

LEMMA BadAssigneeTable ==
    ASSUME NEW c, NEW t, GoodTable(c, t), NEW me
    PROVE  GoodTable(c, ComputeBadAssignee(c, me, t))
<1>1. PICK x : x = (me # 0 /\ (HasPredecessor(t) => BestPredecessor(t).rssi < c.minNeighborRSSI))
  OBVIOUS
<1>2. ComputeBadAssignee(c, me, t) = [t EXCEPT !.badAssignee = x]
  BY <1>1 DEF ComputeBadAssignee
<1>3. GoodTable(c, [t EXCEPT !.badAssignee = x])
  BY DEF GoodTable
<1> QED
  BY <1>2, <1>3

LEMMA ReceivedMessageTable ==
    ASSUME NEW c, NEW me, NEW t, GoodTable(c, t), NEW hop, NEW rssi, NEW bad, NEW sender
    PROVE  GoodTable(c, ReceivedMessage(c, me, t, hop, rssi, bad, sender))
<1> DEFINE node == sender.id
           heard1 == [t EXCEPT !.neighbors[node] = UpdateReceived(c, @, rssi, me \in sender.strong,
                                                     c.useWeakTopologies /\ me \in sender.weak)]
           known == UpdateTopologyElement(c, heard1, node)
           added == AddPredecessor(known, node, IF bad THEN rssi - 128 ELSE rssi, c.strongTimeout)
           out == ForcePredecessorOut(known, node)
           placed == CASE known.neighbors[node].status = "UNKNOWN" -> known
                       [] OTHER -> IF hop < t.myHop THEN added ELSE out
<1>1. GoodTable(c, heard1)
  BY DEF GoodTable
<1> HIDE DEF heard1
<1>2. GoodTable(c, known)
  BY <1>1, UpdateTopologyElementTable
<1> HIDE DEF known
<1>3. GoodTable(c, added) /\ GoodTable(c, out)
  <2>1. \A x : GoodTable(c, [known EXCEPT !.predecessors = x])
    BY <1>2, PredecessorsTable
  <2> QED
    BY <2>1, Zenon DEF AddPredecessor, ForcePredecessorOut
<1> HIDE DEF added, out
<1>4. GoodTable(c, placed)
  BY <1>2, <1>3
<1>5. ReceivedMessage(c, me, t, hop, rssi, bad, sender) = ComputeBadAssignee(c, me, placed)
  BY DEF ReceivedMessage, known, heard1, added, out
<1> HIDE DEF placed
<1> QED
  BY <1>4, <1>5, BadAssigneeTable

LEMMA MissedMessageTable ==
    ASSUME NEW c, NEW me, NEW t, GoodTable(c, t), NEW node
    PROVE  GoodTable(c, MissedMessage(c, me, t, node))
<1> DEFINE missed == [t EXCEPT !.neighbors[node] = UpdateMissed(c, @)]
           known == UpdateTopologyElement(c, missed, node)
           left == MissPredecessor(known, node)
<1>1. GoodTable(c, missed)
  BY DEF GoodTable
<1> HIDE DEF missed
<1>2. GoodTable(c, known)
  BY <1>1, UpdateTopologyElementTable
<1> HIDE DEF known
<1>3. GoodTable(c, left)
  BY <1>2, PredecessorsTable DEF MissPredecessor
<1>4. MissedMessage(c, me, t, node) = ComputeBadAssignee(c, me, left)
  BY DEF MissedMessage, left, known, missed
<1> HIDE DEF left
<1> QED
  BY <1>3, <1>4, BadAssigneeTable

LEMMA NodeAfterTyped ==
    ASSUME NEW c \in Networks, NEW n \in NodeIds(c)
    PROVE  NodeAfter(c, n) \in NodeIds(c)
  BY Configuration DEF NodeAfter, NodeIds

LEMMA AlignTyped ==
    ASSUME NEW c \in Networks, NEW t \in Nat
    PROVE  AlignToNetworkTime(c, t) \in NodeIds(c)
<1>1. PICK S \in Nat \ {0}, M \in Nat \ {0} : S = Size(c) /\ M = c.maxNodes
  BY Configuration
<1>2. PICK q \in Nat, r \in Nat : q = t \div S /\ r = t % S
  <2>1. t \div S \in Nat /\ t % S \in 0..(S - 1)
    BY <1>1, DivMod
  <2>2. t % S \in Nat
    BY <1>1, <2>1
  <2> QED
    BY <2>1, <2>2
<1>3. PICK a \in Nat, b \in Nat : a = CountUplinkSlots(c) /\ b = CountUplinks(c, r)
  BY <1>1, NextCountUplinks DEF CountUplinkSlots
<1>4. PICK phase \in Nat : phase = q * a + b
  OBVIOUS
<1>5. phase % M \in 0..(M - 1)
  BY <1>1, DivMod
<1>6. AlignToNetworkTime(c, t) = M - 1 - (phase % M)
  BY <1>1, <1>2, <1>3, <1>4 DEF AlignToNetworkTime
<1> QED
  BY <1>1, <1>5, <1>6 DEF NodeIds

LEMMA AdvanceGood ==
    ASSUME NEW c \in Networks, NEW u, GoodUplink(c, u)
    PROVE  GoodUplink(c, Advance(c, u))
<1>1. PICK next : next = NodeAfter(c, u.next) /\ next \in NodeIds(c)
  BY NodeAfterTyped DEF GoodUplink
<1>2. Advance(c, u) = [u EXCEPT !.next = next]
  BY <1>1 DEF Advance
<1> QED
  BY <1>1, <1>2 DEF GoodUplink

LEMMA QueuesGood ==
    ASSUME NEW c, NEW u, GoodUplink(c, u), NEW x, NEW y
    PROVE  /\ GoodUplink(c, [u EXCEPT !.topologyQueue = x])
           /\ GoodUplink(c, [u EXCEPT !.smeQueue = x])
           /\ GoodUplink(c, [u EXCEPT !.topologyQueue = x, !.smeQueue = y])
  BY DEF GoodUplink

LEMMA AfterMyUplinkGood ==
    ASSUME NEW c \in Networks, NEW u, GoodUplink(c, u), NEW me, NEW message
    PROVE  GoodUplink(c, AfterMyUplink(c, u, me, message))
<1> DEFINE last == message[Len(message)]
           own == [u EXCEPT !.topologyQueue = Enqueue(@, 0, MyTopologyElement(0, u.table))]
           left == [u EXCEPT !.topologyQueue = last.topologyQueue, !.smeQueue = last.smeQueue]
<1>1. GoodUplink(c, left)
  <2>1. PICK x, y : x = last.topologyQueue /\ y = last.smeQueue
    OBVIOUS
  <2> QED
    BY <2>1, QueuesGood
<1>2. GoodUplink(c, own)
  <2>1. PICK x : x = Enqueue(u.topologyQueue, 0, MyTopologyElement(0, u.table))
    OBVIOUS
  <2>2. own = [u EXCEPT !.topologyQueue = x]
    BY <2>1
  <2> QED
    BY <2>2, QueuesGood
<1>3. AfterMyUplink(c, u, me, message) = Advance(c, IF me = 0 THEN own ELSE left)
  BY DEF AfterMyUplink
<1> HIDE DEF own, left
<1> QED
  BY <1>1, <1>2, <1>3, AdvanceGood

LEMMA MissUplinkGood ==
    ASSUME NEW c \in Networks, NEW u, GoodUplink(c, u), NEW me
    PROVE  GoodUplink(c, MissUplink(c, u, me))
<1>1. PICK table : table = MissedMessage(c, me, u.table, u.next)
  OBVIOUS
<1>2. GoodTable(c, table)
  BY <1>1, MissedMessageTable DEF GoodUplink
<1>3. GoodUplink(c, [u EXCEPT !.table = table])
  BY <1>2 DEF GoodUplink
<1>4. MissUplink(c, u, me) = Advance(c, [u EXCEPT !.table = table])
  BY <1>1 DEF MissUplink
<1> QED
  BY <1>3, <1>4, AdvanceGood

LEMMA ReceiveUplinkGood ==
    ASSUME NEW c \in Networks, NEW u, GoodUplink(c, u), NEW me, NEW packets, NEW rssi
    PROVE  GoodUplink(c, ReceiveUplink(c, u, me, packets, rssi))
<1> DEFINE header == HeaderIn(packets[1])
           sender == [SenderIn(packets[1]) EXCEPT !.id = u.next]
           table == ReceivedMessage(c, me, u.table, GetHop(header), rssi, GetBadAssignee(header), sender)
           known == [u EXCEPT !.table = table]
           queued == [known EXCEPT !.topologyQueue = Enqueue(@, u.next, sender)]
           taken == TakeOverAll(c, queued, header, packets)
<1>1. GoodTable(c, table)
  BY ReceivedMessageTable DEF GoodUplink
<1>2. Heard(c, u, me, packets, rssi) = Advance(c, IF header.assignee = me THEN taken ELSE known)
  BY DEF Heard
<1> HIDE DEF table
<1>3. GoodUplink(c, known)
  BY <1>1 DEF GoodUplink
<1> HIDE DEF known
<1>4. GoodUplink(c, queued)
  <2>1. PICK x : x = Enqueue(known.topologyQueue, u.next, sender)
    OBVIOUS
  <2>2. queued = [known EXCEPT !.topologyQueue = x]
    BY <2>1
  <2> QED
    BY <1>3, <2>2, QueuesGood
<1> HIDE DEF queued
<1>5. GoodUplink(c, taken)
  <2>1. PICK last : taken = [queued EXCEPT !.topologyQueue = last.topologyQueue, !.smeQueue = last.smeQueue]
    BY Zenon DEF TakeOverAll
  <2>2. ASSUME NEW x, NEW y PROVE GoodUplink(c, [queued EXCEPT !.topologyQueue = x, !.smeQueue = y])
    BY <1>4, QueuesGood
  <2>3. GoodUplink(c, [queued EXCEPT !.topologyQueue = last.topologyQueue, !.smeQueue = last.smeQueue])
    BY <2>2, Zenon
  <2> QED
    BY <2>1, <2>3, Zenon
<1> HIDE DEF taken
<1>6. GoodUplink(c, Advance(c, taken)) /\ GoodUplink(c, Advance(c, known)) /\ GoodUplink(c, MissUplink(c, u, me))
  BY <1>3, <1>5, AdvanceGood, MissUplinkGood
<1> QED
  BY <1>2, <1>6 DEF ReceiveUplink

LEMMA UplinksInit == Init => UplinksInv
<1> SUFFICES ASSUME Init, NEW n \in Nodes PROVE GoodUplink(net, EmptyUplink(net, 0))
  BY DEF UplinksInv, Init
<1>1. net.maxNodes - 1 \in NodeIds(net)
  BY Configuration DEF Init, NodeIds
<1> QED
  BY <1>1 DEF EmptyUplink, EmptyTable, GoodUplink, GoodTable

LEMMA UplinksNext ==
    ASSUME net \in Networks, tile \in Nat, UplinksInv, [Next]_vars
    PROVE  UplinksInv'
<1>1. CASE TimesyncPhase
  <2>1. PICK deaf : TimesyncStep(deaf)
    BY <1>1 DEF TimesyncPhase
  <2> SUFFICES ASSUME NEW n \in Nodes PROVE GoodUplink(net, uplink'[n])
    BY <1>1 DEF TimesyncPhase, UplinksInv, Nodes
  <2>2. GoodUplink(net, uplink[n])
    BY DEF UplinksInv
  <2>3. PICK now \in Nat : now = TimesyncCounter * TilesPerTimesync(net)
    <3>1. PICK p \in Nat \ {0} : p = TilesPerTimesync(net)
      BY Configuration
    <3>2. tile \div p \in Nat
      BY <3>1, DivMod
    <3> QED
      BY <3>1, <3>2 DEF TimesyncCounter
  <2>4. \E hop : uplink'[n] \in {Resync(net, uplink[n], hop, now), uplink[n]}
    <3> DEFINE wave == TimesyncWave(deaf)
    <3>1. uplink'[n] \in {Resync(net, uplink[n], HopIn(wave, n), now), uplink[n]}
      BY <2>1, <2>3 DEF TimesyncStep
    <3> QED
      BY <3>1
  <2>5. ASSUME NEW hop PROVE GoodUplink(net, Resync(net, uplink[n], hop, now))
    <3>1. PICK next : next = AlignToNetworkTime(net, now) /\ next \in NodeIds(net)
      BY AlignTyped
    <3>2. PICK table : table = ClearTable(uplink[n].table, hop)
      OBVIOUS
    <3>3. GoodTable(net, table)
      BY <2>2, <3>2 DEF ClearTable, GoodTable, GoodUplink
    <3>4. Resync(net, uplink[n], hop, now) =
            [uplink[n] EXCEPT !.next = next, !.topologyQueue = EmptyQueue, !.smeQueue = EmptyQueue, !.table = table]
      BY <3>1, <3>2 DEF Resync
    <3> QED
      BY <2>2, <3>1, <3>3, <3>4 DEF GoodUplink
  <2> QED
    BY <2>2, <2>4, <2>5
<1>2. CASE DownlinkPhase
  BY <1>2 DEF DownlinkPhase, UplinksInv, Nodes
<1>3. CASE UplinkPhaseStep
  <2>1. PICK messages, deaf, packets : UplinkStep(messages, deaf, packets)
    BY <1>3 DEF UplinkPhaseStep
  <2> DEFINE now == [n \in Nodes |-> PhaseAfter(messages, deaf, packets, n)]
  <2>2. ASSUME NEW n \in Nodes PROVE GoodUplink(net, PhaseAfter(messages, deaf, packets, n))
    <3> DEFINE received == Received(messages, packets, n)
               strength == Audible[<<SpeakerTo(n), n>>]
    <3>1. GoodUplink(net, uplink[n])
      BY DEF UplinksInv
    <3>2. GoodUplink(net, Ready(n))
      BY <3>1 DEF Ready, GoodUplink
    <3> HIDE DEF received, strength
    <3>3. GoodUplink(net, Advance(net, uplink[n]))
      BY <3>1, AdvanceGood
    <3>4. GoodUplink(net, AfterMyUplink(net, Ready(n), n, messages[n]))
      BY <3>2, AfterMyUplinkGood
    <3>5. GoodUplink(net, ReceiveUplink(net, uplink[n], n, received, strength))
      BY <3>1, ReceiveUplinkGood
    <3>6. GoodUplink(net, MissUplink(net, uplink[n], n))
      BY <3>1, MissUplinkGood
    <3>7. \/ PhaseAfter(messages, deaf, packets, n) = uplink[n]
          \/ PhaseAfter(messages, deaf, packets, n) = Advance(net, uplink[n])
          \/ PhaseAfter(messages, deaf, packets, n) = AfterMyUplink(net, Ready(n), n, messages[n])
          \/ PhaseAfter(messages, deaf, packets, n) = ReceiveUplink(net, uplink[n], n, received, strength)
          \/ PhaseAfter(messages, deaf, packets, n) = MissUplink(net, uplink[n], n)
      BY DEF PhaseAfter, received, strength
    <3> QED
      BY <3>1, <3>3, <3>4, <3>5, <3>6, <3>7
  <2>3. \A n \in Nodes : GoodUplink(net, now[n])
    BY <2>2
  <2>4. uplink' = [now EXCEPT ![0].topologyQueue = EmptyQueue, ![0].smeQueue = EmptyQueue]
    BY <2>1 DEF UplinkStep, MasterTakes
  <2>5. DOMAIN now = Nodes
    OBVIOUS
  <2> HIDE DEF now
  <2> SUFFICES ASSUME NEW n \in Nodes PROVE GoodUplink(net, uplink'[n])
    BY <1>3 DEF UplinkPhaseStep, UplinksInv, Nodes
  <2>6. n # 0 => uplink'[n] = now[n]
    BY <2>4, <2>5
  <2>7. n = 0 => uplink'[0] = [now[0] EXCEPT !.topologyQueue = EmptyQueue, !.smeQueue = EmptyQueue]
    BY <2>4, <2>5
  <2>8. n = 0 => GoodUplink(net, uplink'[0])
    <3>1. PICK u : u = now[0]
      OBVIOUS
    <3>2. n = 0 => GoodUplink(net, u)
      BY <2>3, <3>1
    <3>3. GoodUplink(net, u) =>
            GoodUplink(net, [u EXCEPT !.topologyQueue = EmptyQueue, !.smeQueue = EmptyQueue])
      BY QueuesGood
    <3> QED
      BY <2>7, <3>1, <3>2, <3>3
  <2> QED
    BY <2>3, <2>6, <2>8
<1>4. CASE ~TimesyncPhase /\ ~DownlinkPhase /\ ~UplinkPhaseStep
  <2>1. UNCHANGED <<net, uplink>>
    BY <1>4, OtherStepsTakeNoTime DEF nodeVars
  <2> QED
    BY <2>1 DEF UplinksInv, Nodes
<1> QED
  BY <1>1, <1>2, <1>3, <1>4

\* The status of the master.
MasterStatus == md.status \in {"APPLIED_SCHEDULE", "SENDING_SCHEDULE", "AWAITING_ACTIVATION"}

LEMMA MasterStatusNext ==
    ASSUME TimeInv, DistributionTypes, NumbersInv, MasterStatus, [Next]_vars
    PROVE  MasterStatus'
<1>1. CASE DownlinkPhase
  <2>1. PICK pkt, got : DownlinkStep(pkt, got)
    BY <1>1, OnePacketOnAir DEF TimeInv
  <2>2. Sending(md) => md'.status = "SENDING_SCHEDULE"
    <3>1. md' = MasterExecute(net, md, published, NodeTile(0))
      BY <2>1 DEF DownlinkStep
    <3>2. net \in Networks /\ MasterFields(net, md) /\ published.schedule \in Seq(AllTransmissions(net))
      BY DEF TimeInv, DistributionTypes, MasterTyped, PublishedTyped
    <3> QED
      BY <3>1, <3>2, MasterExecuteKeeps
  <2> QED
    BY <1>1, <2>1, <2>2, MasterInDownlink DEF MasterStatus
<1>2. CASE ~DownlinkPhase
  <2>1. md' = md
    BY <1>2, OtherStepsTakeNoTime DEF TimesyncPhase, UplinkPhaseStep
  <2> QED
    BY <2>1 DEF MasterStatus
<1> QED
  BY <1>1, <1>2

\* Types that the steps of all components keep: for every network, with any
\* packets lost and links that come and go, a node that has the time has missed
\* fewer timesyncs than it may, queues hold each key once, weak neighbors include
\* the strong ones, and what is played is at a tile of it.
THEOREM TypeOKTheorem == Spec => []TypeOK
<1> DEFINE Inv == /\ TimeInv /\ DistributionTypes /\ ScheduleInv /\ NumbersInv /\ QueuesInv
                  /\ Bounds /\ SyncsInv /\ UplinksInv /\ MasterStatus
<1>1. Init => Inv
  <2>1. Init => MasterStatus
    BY DEF Init, MasterDistribution, MasterStatus
  <2> QED
    BY <2>1, TimeInvInit, TypesInit, ScheduleInvInit, NumbersInvInit, QueuesInit, BoundsInit, SyncsInit, UplinksInit
<1>2. Inv /\ [Next]_vars => Inv'
  <2> SUFFICES ASSUME Inv, [Next]_vars PROVE Inv'
    OBVIOUS
  <2>1. net \in Networks /\ tile \in Nat
    BY DEF TimeInv
  <2>2. (TimeInv /\ DistributionTypes /\ ScheduleInv /\ NumbersInv)'
    BY <2>1, TimeInvNext, TypesNext, ScheduleInvNext, NumbersInvNext
  <2>3. (QueuesInv /\ Bounds /\ SyncsInv /\ UplinksInv)'
    BY <2>1, QueuesNext, BoundsNext, SyncsNext, UplinksNext
  <2>4. MasterStatus'
    BY MasterStatusNext
  <2> QED
    BY <2>2, <2>3, <2>4
<1>3. Inv => TypeOK
  <2> SUFFICES ASSUME Inv PROVE TypeOK
    OBVIOUS
  <2>1. tile \in 0..MaxTile /\ age \in 0..MaxDelay
    BY DEF Bounds
  <2>2. ASSUME NEW n \in Nodes
        PROVE  /\ sync[n].status \in {"DESYNCHRONIZED", "SYNCING", "IN_SYNC"}
               /\ sync[n].hop \in 0..net.maxHops /\ sync[n].missed \in 0..net.maxMissedTimesyncs
               /\ uplink[n].next \in NodeIds(net)
               /\ UniqueKeys(uplink[n].topologyQueue) /\ UniqueKeys(uplink[n].smeQueue)
               /\ uplink[n].table.strong \subseteq uplink[n].table.weak \/ ~net.useWeakTopologies
               /\ data[n].tiles = 0 \/ data[n].pos < data[n].tiles
    <3>1. SyncTyped(net, sync[n]) /\ GoodUplink(net, uplink[n]) /\ HasQueues(uplink[n]) /\ PlayTyped(data[n])
      BY DEF SyncsInv, UplinksInv, QueuesInv, NumbersInv
    <3> QED
      BY <3>1 DEF SyncTyped, GoodUplink, GoodTable, HasQueues, IsQueue, PlayTyped
  <2>3. md.header.total > 0 => md.header.current < md.header.total
    BY DEF NumbersInv, HeaderTyped
  <2>4. \A n \in Dynamic : dist[n].status \in {"APPLIED_SCHEDULE", "SENDING_SCHEDULE", "INCOMPLETE_SCHEDULE"}
    BY DEF ScheduleInv
  <2> QED
    BY <2>1, <2>2, <2>3, <2>4 DEF TypeOK, MasterStatus
<1> QED
  BY <1>1, <1>2, <1>3, PTL DEF Spec

-----------------------------------------------------------------------------
(***************************************************************************)
(* Nodes play together.                                                    *)
(***************************************************************************)

\* No transmission is from a node to itself.
LEMMA ApartLinks ==
    ASSUME NEW s, \A l \in Links(s) : l[1] # l[2]
    PROVE  Apart(s)
<1> SUFFICES ASSUME NEW i \in DOMAIN s PROVE s[i].tx # s[i].rx
  BY DEF Apart
<1>1. PICK a, b : a = s[i].tx /\ b = s[i].rx
  OBVIOUS
<1>2. <<a, b>> \in Links(s)
  BY <1>1 DEF Links
<1>3. <<a, b>>[1] # <<a, b>>[2]
  BY <1>2
<1> QED
  BY <1>1, <1>3

LEMMA LinksApart ==
    ASSUME NEW s, Apart(s)
    PROVE  \A l \in Links(s) : l[1] # l[2]
<1> SUFFICES ASSUME NEW l \in Links(s) PROVE l[1] # l[2]
  OBVIOUS
<1>1. PICK i \in DOMAIN s : l = <<s[i].tx, s[i].rx>>
  BY DEF Links
<1> QED
  BY <1>1 DEF Apart

LEMMA ApartInvInit == Init => ApartInv
<1> SUFFICES ASSUME Init PROVE ApartInv
  OBVIOUS
<1>1. published.schedule = <<>> /\ md.schedule = <<>> /\ sch.pc # "publish"
  BY DEF Init, MasterDistribution
<1> QED
  BY <1>1 DEF ApartInv, Apart

LEMMA ApartInvNext ==
    ASSUME TimeInv, DistributionTypes, NumbersInv, TopologyInv, ApartInv, [Next]_vars
    PROVE  ApartInv'
<1>1. net \in Networks /\ PublishedTyped
  BY DEF TimeInv, DistributionTypes
<1>2. Apart(published.schedule) /\ Apart(md.schedule) /\ (sch.pc = "publish" => Apart(sch.new.schedule))
  BY DEF ApartInv
<1>3. \A s : Apart(s)' <=> Apart(s)
  BY DEF Apart
<1>4. ASSUME NEW applied, published' = [published EXCEPT !.notApplied = applied]
      PROVE  published'.schedule = published.schedule
  BY <1>1, <1>4 DEF PublishedTyped
<1>5. CASE DownlinkPhase
  <2>1. PICK pkt, got : DownlinkStep(pkt, got)
    BY <1>1, <1>5, OnePacketOnAir
  <2>2. md'.schedule \in {md.schedule, published.schedule}
    BY <1>5, <2>1, MasterInDownlink
  <2>3. published'.schedule = published.schedule
    BY <1>4, <2>1 DEF DownlinkStep, ScheduleSentAndApplied
  <2>4. sch' = sch
    BY <1>5 DEF DownlinkPhase
  <2> QED
    BY <1>2, <2>2, <2>3, <2>4 DEF ApartInv, Apart
<1>6. CASE TimesyncPhase \/ UplinkPhaseStep
  <2>1. UNCHANGED <<md, published, sch>>
    BY <1>6 DEF TimesyncPhase, UplinkPhaseStep, schedVars
  <2> QED
    BY <1>2, <2>1 DEF ApartInv, Apart
<1>7. CASE ~TimesyncPhase /\ ~DownlinkPhase /\ ~UplinkPhaseStep
  <2>1. md' = md
    BY <1>7, OtherStepsTakeNoTime
  <2>2. CASE SchedCompute /\ (sch.graphChanged \/ sch.added)
    <3>1. Told(NewSchedule) /\ sch.pc = "compute"
      BY <2>2 DEF SchedCompute, Thread
    <3>2. published' = published /\ sch'.new = NewSchedule
      BY <3>1 DEF Told
    <3>3. Links(NewSchedule.schedule) \subseteq
              sch.graph \cup (IF sch.graphChanged THEN {} ELSE Links(published.schedule))
      BY <1>1, NewScheduleLinks
    <3>4. Undirected(sch.graph)
      BY <3>1 DEF TopologyInv, TopologyOf, Scheduling, ChangesNoted
    <3>5. \A l \in sch.graph : l[1] # l[2]
      BY <3>4 DEF Undirected
    <3>6. \A l \in Links(published.schedule) : l[1] # l[2]
      BY <1>2, LinksApart
    <3>7. Apart(NewSchedule.schedule)
      BY <3>3, <3>5, <3>6, ApartLinks
    <3>8. PICK s : s = NewSchedule.schedule
      OBVIOUS
    <3> QED
      BY <1>2, <2>1, <3>2, <3>7, <3>8 DEF ApartInv, Apart
  <2>3. CASE SchedPublish
    <3>1. published' = sch.new /\ sch.pc = "publish" /\ sch'.pc = "waiting"
      BY <2>3 DEF SchedPublish, Thread
    <3> QED
      BY <1>2, <2>1, <3>1 DEF ApartInv, Apart
  <2>4. CASE ~(SchedCompute /\ (sch.graphChanged \/ sch.added)) /\ ~SchedPublish
    <3>1. published'.schedule = published.schedule /\ (sch' = sch \/ sch'.pc # "publish")
      <4>1. CASE SchedWake
        BY <1>4, <4>1 DEF SchedWake
      <4>2. CASE SchedSnapshot \/ SchedGraph
        BY <4>2 DEF SchedSnapshot, SchedGraph
      <4>3. CASE SchedWriteBack
        <5>1. "pc" \in DOMAIN sch
          BY DEF DistributionTypes, SchedulerTyped
        <5> QED
          BY <4>3, <5>1 DEF SchedWriteBack
      <4>4. CASE SchedCompute
        BY <1>4, <2>4, <4>4 DEF SchedCompute
      <4>5. CASE ~Scheduler
        BY <1>7, <4>5 DEF Next, Connect, LinksChange, RateChanges, vars, schedVars
      <4> QED
        BY <2>4, <4>1, <4>2, <4>3, <4>4, <4>5 DEF Scheduler
    <3> QED
      BY <1>2, <2>1, <3>1 DEF ApartInv, Apart
  <2> QED
    BY <2>2, <2>3, <2>4
<1> QED
  BY <1>5, <1>6, <1>7

\* What a schedule packet brings is got back as it was put.
LEMMA SerializedElements ==
    ASSUME NEW c, NEW header, NEW E, NEW elements \in Seq(E)
    PROVE  Deserialize(Serialize(c, header, elements)).elements = elements
<1> DEFINE pan == PutPanHeader(EmptyPacket, c.panId)
           headed == Put(pan, header, HeaderSize)
           rest == [i \in DOMAIN elements |-> [value |-> elements[i], bytes |-> ElementSize]]
           pkt == PutAll(headed, elements, ElementSize)
           plain == RemovePanHeader(pkt)
           body == Gone(plain, HeaderSize)
           n == Len(elements)
           first == [value |-> PanHeader(c.panId), bytes |-> panHeaderSize]
           second == [value |-> header, bytes |-> HeaderSize]
           V == [value : E \cup {PanHeader(c.panId), header}, bytes : {panHeaderSize, HeaderSize, ElementSize}]
<1>0. n \in Nat /\ DOMAIN elements = 1..n
  OBVIOUS
<1>1. /\ pan.items = <<first>> /\ pan.dataSize = 5 /\ pan.dataStart = 0
      /\ {"items", "dataSize", "dataStart"} \subseteq DOMAIN pan
  BY DEF PutPanHeader, Put, EmptyPacket, panHeaderSize
<1> HIDE DEF pan
<1>2. /\ headed.items = Append(<<first>>, second) /\ headed.dataSize = 20 /\ headed.dataStart = 0
      /\ {"items", "dataSize", "dataStart"} \subseteq DOMAIN headed
  BY <1>1 DEF Put, HeaderSize
<1> HIDE DEF headed
<1>3. first \in V /\ second \in V
  OBVIOUS
<1>4. rest \in Seq(V) /\ Len(rest) = n /\ \A i \in 1..n : rest[i].value = elements[i]
  <2>1. \A i \in 1..n : rest[i] \in V /\ rest[i].value = elements[i]
    BY <1>0
  <2>2. DOMAIN rest = 1..n
    BY <1>0
  <2>3. rest \in [1..n -> V]
    BY <2>1, <2>2
  <2> HIDE DEF V, rest, n
  <2>4. rest \in Seq(V)
    BY <1>0, <2>3
  <2>5. Len(rest) = n
    BY <1>0, <2>2, <2>4
  <2> QED
    BY <2>1, <2>4, <2>5
<1>5. /\ pkt.items = Append(<<first>>, second) \o rest /\ pkt.dataSize = 20 + n * ElementSize /\ pkt.dataStart = 0
      /\ {"items", "dataSize", "dataStart"} \subseteq DOMAIN pkt
  BY <1>2 DEF PutAll, rest
<1> HIDE DEF first, second, rest, V, pkt
<1>6. Tail(Tail(pkt.items)) = rest
  <2>1. Tail(Tail(Append(<<first>>, second) \o rest)) = rest
    BY <1>3, <1>4, SMTT(30)
  <2> QED
    BY <1>5, <2>1, Zenon
<1>7. /\ plain.items = Tail(pkt.items) /\ plain.dataSize = pkt.dataSize /\ plain.dataStart = 5
      /\ {"items", "dataSize", "dataStart"} \subseteq DOMAIN plain
  BY <1>5 DEF RemovePanHeader, Gone, panHeaderSize
<1> HIDE DEF plain
<1>8. body.items = rest /\ body.dataSize = 20 + n * ElementSize /\ body.dataStart = 20
  <2>1. body.items = Tail(plain.items) /\ body.dataSize = plain.dataSize /\ body.dataStart = 5 + 15
    BY <1>7 DEF Gone, HeaderSize
  <2>2. body.items = rest
    BY <1>6, <1>7, <2>1, Zenon
  <2>3. body.dataSize = 20 + n * ElementSize
    BY <1>5, <1>7, <2>1, Zenon
  <2>4. body.dataStart = 20
    BY <2>1
  <2> QED
    BY <2>2, <2>3, <2>4, Zenon
<1> HIDE DEF body, n
<1>9. PacketSize(body) \div ElementSize = n
  <2>1. PacketSize(body) = 10 * n
    BY <1>0, <1>8 DEF PacketSize, ElementSize
  <2>2. (10 * n + 0) \div 10 = n
    <3>1. PICK ten \in Nat \ {0} : ten = 10
      OBVIOUS
    <3>2. (ten * n + 0) \div ten = n
      BY <1>0, DivModUnique
    <3> QED
      BY <3>1, <3>2
  <2>3. 10 * n + 0 = 10 * n
    BY <1>0
  <2> QED
    BY <2>1, <2>2, <2>3 DEF ElementSize
<1>10. Deserialize(Serialize(c, header, elements)).elements = [i \in 1..(PacketSize(body) \div ElementSize) |-> body.items[i].value]
  BY DEF Deserialize, Serialize, body, plain, pkt, headed, pan
<1>11. \A i \in 1..n : body.items[i].value = elements[i]
  BY <1>4, <1>8
<1>12. elements = [i \in 1..n |-> elements[i]]
  BY <1>0
<1> QED
  BY <1>9, <1>10, <1>11, <1>12

LEMMA PieceApart ==
    ASSUME NEW c \in Networks, NEW m, MasterFields(c, m), Apart(m.schedule)
    PROVE  \A i \in DOMAIN NextElements(c, m) : ~IsInfo(NextElements(c, m)[i])
<1> DEFINE capacity == GetPacketCapacity(c)
           end == m.position + capacity
           last == IF end < Len(m.schedule) THEN end ELSE Len(m.schedule)
<1>1. capacity \in Int
  BY StreamsOfNetwork DEF GetPacketCapacity, panHeaderSize, HeaderSize, ElementSize
<1> HIDE DEF capacity
<1>2. PICK s \in Seq(AllTransmissions(c)), p \in Nat : s = m.schedule /\ p = m.position
  BY DEF MasterFields
<1>3. last \in Int /\ last <= Len(s)
  BY <1>1, <1>2
<1>4. NextElements(c, m) = SubSeq(s, p + 1, last)
  BY <1>2 DEF NextElements, capacity
<1> HIDE DEF last
<1>5. \A i \in (p + 1)..last : i \in 1..Len(s)
  BY <1>3
<1>6. \A i \in DOMAIN SubSeq(s, p + 1, last) : i + p \in 1..Len(s) /\ SubSeq(s, p + 1, last)[i] = s[i + p]
  BY <1>3, <1>5
<1>7. \A i \in 1..Len(s) : ~IsInfo(s[i])
  BY <1>2 DEF Apart, IsInfo
<1> QED
  BY <1>4, <1>6, <1>7

\* The first piece of information ends the transmissions.
LEMMA PlainElements ==
    ASSUME NEW S, NEW piece \in Seq(S), NEW I, NEW infos \in Seq(I),
           \A i \in DOMAIN piece : ~IsInfo(piece[i]), \A i \in DOMAIN infos : IsInfo(infos[i]),
           NEW pkt, {"header", "elements"} \subseteq DOMAIN pkt, pkt.elements = piece \o infos
    PROVE  WithoutInfo(pkt).elements = piece
<1> DEFINE all == pkt.elements
           k == Len(piece)
           n == SelectInSeq(all, IsInfo)
           Is == {i \in 1..Len(all) : IsInfo(all[i])}
<1>1. /\ k \in Nat /\ Len(infos) \in Nat /\ Len(all) = k + Len(infos)
      /\ \A i \in 1..k : all[i] = piece[i] /\ ~IsInfo(all[i])
      /\ \A i \in 1..Len(infos) : all[k + i] = infos[i] /\ IsInfo(all[k + i])
  <2>1. \A i \in 1..k : all[i] = piece[i]
    OBVIOUS
  <2>2. \A i \in 1..Len(infos) : all[k + i] = infos[i]
    OBVIOUS
  <2>3. \A i \in 1..Len(infos) : IsInfo(infos[i])
    OBVIOUS
  <2>4. \A i \in 1..k : ~IsInfo(piece[i])
    OBVIOUS
  <2>5. k \in Nat /\ Len(infos) \in Nat /\ Len(all) = k + Len(infos)
    OBVIOUS
  <2> HIDE DEF all
  <2> QED
    BY <2>1, <2>2, <2>3, <2>4, <2>5
<1>2. n = IF Is # {} THEN Min(Is) ELSE 0
  BY DEF SelectInSeq
<1>3. CASE infos = <<>>
  <2>1. Is = {}
    BY <1>1, <1>3
  <2>2. n = 0
    BY <1>2, <2>1
  <2>3. WithoutInfo(pkt) = pkt
    BY <2>2 DEF WithoutInfo
  <2> QED
    BY <1>3, <2>3
<1>4. CASE infos # <<>>
  <2>1. Len(infos) >= 1
    BY <1>4
  <2>2. k + 1 \in Is /\ \A i \in Is : k + 1 <= i
    <3>1. 1 \in 1..Len(infos) /\ k + 1 \in 1..Len(all)
      BY <1>1, <2>1
    <3>2. IsInfo(all[k + 1])
      BY <1>1, <3>1
    <3>3. \A i \in 1..Len(all) : IsInfo(all[i]) => k + 1 <= i
      BY <1>1
    <3> HIDE DEF all
    <3> QED
      BY <3>1, <3>2, <3>3
  <2>3. Is \subseteq Int
    OBVIOUS
  <2> HIDE DEF Is
  <2>4. Min(Is) = k + 1
    <3>1. Min(Is) \in Is /\ Min(Is) <= k + 1
      BY <2>2 DEF Min
    <3>2. PICK m \in Int : m = Min(Is)
      BY <2>3, <3>1
    <3>3. k \in Nat /\ m <= k + 1 /\ k + 1 <= m
      BY <1>1, <2>2, <3>1, <3>2
    <3> QED
      BY <3>2, <3>3
  <2>5. n = k + 1 /\ n - 1 = k /\ n # 0
    BY <1>1, <1>2, <2>2, <2>4
  <2> HIDE DEF n
  <2>6. WithoutInfo(pkt).elements = SubSeq(all, 1, k)
    BY <2>5 DEF WithoutInfo, n
  <2>7. SubSeq(piece \o infos, 1, k) = piece
    OBVIOUS
  <2> QED
    BY <2>6, <2>7
<1> QED
  BY <1>3, <1>4

\* The packet on the air of a downlink, and what it brings besides information.
LEMMA PieceOnAir ==
    ASSUME net \in Networks, DistributionTypes, Apart(md.schedule), DownlinkPhase
    PROVE  \E pkt, got : /\ {"header", "elements"} \subseteq DOMAIN pkt
                         /\ IsSchedulePacket(pkt.header) =>
                                /\ Sending(md) /\ pkt.header = md.header
                                /\ WithoutInfo(pkt).elements = NextElements(net, md)
                         /\ got \subseteq Listening /\ DownlinkStep(pkt, got)
<1> DEFINE air == SchedulePacket(net, md, InfosNow)
           reached == IF OnAir /\ CheckPanHeader(air, net.panId) THEN Flood(Listening) ELSE {}
           pkt == Deserialize(air)
           piece == NextElements(net, md)
<1>1. PICK deaf \in SUBSET reached : DownlinkStep(pkt, Flood(Listening \ deaf) \cap reached)
  BY DEF DownlinkPhase
<1>2. Flood(Listening) \subseteq Listening
  BY DEF Flood
<1>3. Flood(Listening \ deaf) \cap reached \subseteq Listening
  BY <1>2
<1>4. {"header", "elements"} \subseteq DOMAIN pkt
  BY DEF Deserialize
<1>0. PICK I : InfosNow \in Seq(I)
  BY InfosTypedNow
<1>5. PICK infos \in Seq(I) : infos = InfosNow
  BY <1>0
<1>6. /\ MasterFields(net, md) /\ md.schedule \in Seq(AllTransmissions(net)) /\ md.position \in Nat
      /\ net.maxPktSize \in Nat
  BY StreamsOfNetwork DEF DistributionTypes, MasterTyped, MasterFields
<1>7. IsSchedulePacket(pkt.header) => Sending(md) /\ pkt.header = md.header
  <2>1. pkt.header = IF Sending(md) THEN md.header ELSE ScheduleHeader(0, 0, md.header.id, 0, 0, 0)
    BY <1>5, <1>6, PacketHeader
  <2> HIDE DEF pkt
  <2> QED
    BY <2>1, NoSchedulePacket
<1>8. \A i \in DOMAIN infos : IsInfo(infos[i])
  <2>1. \A id, type : IsInfo(InfoElement(id, type))
    BY DEF IsInfo, InfoElement
  <2>2. PICK vals : infos = [i \in DOMAIN vals |-> InfoElement(vals[i].id, vals[i].type)]
    BY <1>5 DEF InfosNow
  <2> QED
    BY <2>1, <2>2
<1>9. piece \in Seq(AllTransmissions(net)) /\ \A i \in DOMAIN piece : ~IsInfo(piece[i])
  BY <1>6, PieceOfSchedule, PieceApart
<1>10. ASSUME Sending(md) PROVE pkt.elements = piece \o infos
  <2>1. PICK E, e : E = AllTransmissions(net) \cup I /\ e = piece \o infos
    OBVIOUS
  <2> HIDE DEF piece
  <2>2. e \in Seq(E)
    BY <1>9, <2>1
  <2>3. Deserialize(Serialize(net, md.header, e)).elements = e
    BY <2>2, SerializedElements
  <2>4. air = Serialize(net, md.header, e)
    BY <1>5, <1>10, <2>1 DEF SchedulePacket, piece
  <2> QED
    BY <2>1, <2>3, <2>4
<1> HIDE DEF pkt, reached, piece, air
<1>11. IsSchedulePacket(pkt.header) => WithoutInfo(pkt).elements = piece
  <2> SUFFICES ASSUME IsSchedulePacket(pkt.header) PROVE WithoutInfo(pkt).elements = piece
    OBVIOUS
  <2>1. pkt.elements = piece \o infos
    BY <1>7, <1>10
  <2> QED
    BY <1>4, <1>8, <1>9, <2>1, PlainElements
<1> QED
  BY <1>1, <1>3, <1>4, <1>7, <1>11 DEF piece

\* Which piece a transmission is in.
LEMMA PieceIs ==
    ASSUME NEW capacity \in Nat \ {0}, NEW k \in Nat, NEW j \in Nat \ {0}
    PROVE  /\ ((j - 1) \div capacity) + 1 \in Nat \ {0}
           /\ ((j - 1) \div capacity) + 1 = k + 1 <=> j \in (k * capacity + 1)..(k * capacity + capacity)
           /\ \A t \in Nat : j <= t * capacity => ((j - 1) \div capacity) + 1 <= t
<1>1. PICK q, r : q = (j - 1) \div capacity /\ r = (j - 1) % capacity
  OBVIOUS
<1>2. j - 1 \in Nat
  OBVIOUS
<1>3. q \in Nat /\ r \in 0..(capacity - 1) /\ j - 1 = capacity * q + r
  BY <1>1, <1>2, DivMod
<1>4. capacity * q = q * capacity /\ q * capacity \in Nat
  BY <1>3
<1>5. ASSUME j \in (k * capacity + 1)..(k * capacity + capacity) PROVE q = k
  <2>1. PICK s \in 0..(capacity - 1) : j - 1 = k * capacity + s
    <3>1. PICK whole \in Nat : whole = k * capacity
      OBVIOUS
    <3>2. j - 1 - whole \in 0..(capacity - 1)
      BY <1>5, <3>1
    <3> QED
      BY <3>1, <3>2
  <2>2. j - 1 = capacity * k + s
    BY <2>1
  <2>3. (capacity * k + s) \div capacity = k
    BY DivModUnique
  <2> QED
    BY <1>1, <2>2, <2>3
<1>6. q = k => j \in (k * capacity + 1)..(k * capacity + capacity)
  <2>1. PICK whole \in Nat : whole = q * capacity
    BY <1>4
  <2>2. j = whole + r + 1
    BY <1>3, <1>4, <2>1
  <2> QED
    BY <1>3, <2>1, <2>2
<1>7. ASSUME NEW t \in Nat, j <= t * capacity PROVE q + 1 <= t
  <2> SUFFICES ASSUME t < q + 1 PROVE FALSE
    BY <1>3
  <2>1. t <= q
    BY <1>3
  <2>2. PICK u \in Nat : q = t + u
    <3>1. q - t \in Nat /\ q = t + (q - t)
      BY <1>3, <2>1
    <3> QED
      BY <3>1
  <2>3. PICK a \in Nat, b \in Nat : a = t * capacity /\ b = u * capacity
    OBVIOUS
  <2>4. q * capacity = a + b
    BY <2>2, <2>3
  <2>5. j - 1 = a + b + r
    BY <1>3, <1>4, <2>4
  <2> QED
    BY <1>3, <1>7, <2>3, <2>5
<1>8. q + 1 = k + 1 <=> q = k
  BY <1>3
<1> QED
  BY <1>1, <1>3, <1>5, <1>6, <1>7, <1>8

\* The next piece of the schedule.
LEMMA NextPiece ==
    ASSUME NEW c \in Networks, NEW m, MasterFields(c, m), NEW total, total = PacketsFor(c, m.schedule),
           NEW k \in Nat, k < total, m.position = k * GetPacketCapacity(c),
           NEW last, last = IF m.position + GetPacketCapacity(c) < Len(m.schedule)
                            THEN m.position + GetPacketCapacity(c) ELSE Len(m.schedule)
    PROVE  /\ last \in Nat /\ m.position <= last /\ last <= Len(m.schedule)
           /\ NextElements(c, m) \in Seq(AllTransmissions(c)) /\ Len(NextElements(c, m)) = last - m.position
           /\ ToSet(NextElements(c, m)) = {m.schedule[j] : j \in (m.position + 1)..last}
           /\ k + 1 < total => last - m.position = GetPacketCapacity(c)
<1>1. PICK capacity \in Nat \ {0} : capacity = GetPacketCapacity(c)
  BY PacketsAreEnough DEF MasterFields
<1>2. PICK s \in Seq(AllTransmissions(c)), p \in Nat : s = m.schedule /\ p = m.position
  BY DEF MasterFields
<1>3. PICK n \in Nat : n = Len(s)
  OBVIOUS
<1>4. /\ total \in Nat \ {0} /\ n <= total * capacity
      /\ total > 1 => (total - 1) * capacity < n
  BY <1>1, <1>2, <1>3, PacketsAreEnough
<1>5. p = k * capacity
  BY <1>1, <1>2
<1>6. last = IF p + capacity < n THEN p + capacity ELSE n
  BY <1>1, <1>2, <1>3
<1>7. p <= n /\ (k + 1 < total => p + capacity < n)
  <2>1. PICK u \in Nat : total - 1 = k + u
    <3>1. total - 1 - k \in Nat /\ total - 1 = k + (total - 1 - k)
      BY <1>4
    <3> QED
      BY <3>1
  <2>2. PICK a \in Nat, b \in Nat : a = k * capacity /\ b = u * capacity
    OBVIOUS
  <2>3. (total - 1) * capacity = a + b
    BY <2>1, <2>2
  <2>4. total > 1 => a + b < n
    BY <1>4, <2>3
  <2>5. CASE total = 1
    <3>1. k = 0
      BY <2>5
    <3>2. p = 0
      BY <1>1, <1>5, <3>1
    <3> QED
      BY <1>3, <2>5, <3>1, <3>2
  <2>6. CASE total # 1
    <3>1. a + b < n
      BY <1>4, <2>4, <2>6
    <3>2. k + 1 < total => b >= capacity
      <4> SUFFICES ASSUME k + 1 < total PROVE b >= capacity
        OBVIOUS
      <4>1. PICK v \in Nat : u = v + 1
        <5>1. u - 1 \in Nat /\ u = (u - 1) + 1
          BY <1>4, <2>1
        <5> QED
          BY <5>1
      <4>2. PICK w \in Nat : w = v * capacity
        BY <1>1, <4>1
      <4>3. u * capacity = w + capacity
        BY <1>1, <4>1, <4>2
      <4>4. b = w + capacity
        BY <2>2, <4>3, Zenon
      <4> QED
        BY <1>1, <4>2, <4>4
    <3>3. p = a
      BY <1>5, <2>2
    <3>4. a <= n
      BY <3>1
    <3>5. k + 1 < total => a + capacity < n
      BY <3>1, <3>2
    <3> QED
      BY <3>3, <3>4, <3>5
  <2> QED
    BY <2>5, <2>6
<1>8. last \in Nat /\ p <= last /\ last <= n /\ (k + 1 < total => last - p = capacity)
  <2>1. CASE p + capacity < n
    <3>1. last = p + capacity
      BY <1>6, <2>1
    <3> QED
      BY <2>1, <3>1
  <2>2. CASE ~(p + capacity < n)
    <3>1. last = n
      BY <1>6, <2>2
    <3>2. ~(k + 1 < total)
      BY <1>7, <2>2
    <3> QED
      BY <1>7, <3>1, <3>2
  <2> QED
    BY <2>1, <2>2
<1>9. NextElements(c, m) = SubSeq(s, p + 1, last)
  BY <1>1, <1>2, <1>3, <1>6 DEF NextElements
<1>10. \A j \in (p + 1)..last : j \in 1..Len(s)
  BY <1>3, <1>8
<1> DEFINE e == SubSeq(s, p + 1, last)
<1>11. e \in Seq(AllTransmissions(c)) /\ Len(e) = last - p /\ \A i \in 1..(last - p) : e[i] = s[p + i]
  <2>1. PICK T : T = AllTransmissions(c) /\ s \in Seq(T)
    OBVIOUS
  <2>2. e \in Seq(T) /\ Len(e) = (IF p + 1 <= last THEN last - p ELSE 0)
        /\ \A i \in 1..(last - p) : e[i] = s[(p + 1) + i - 1]
    BY <1>8, <1>10, <2>1, SMTT(30)
  <2>3. \A i \in 1..(last - p) : (p + 1) + i - 1 = p + i
    BY <1>8
  <2>4. Len(e) = last - p
    BY <1>8, <2>2
  <2> QED
    BY <2>1, <2>2, <2>3, <2>4
<1>12. ToSet(e) = {s[j] : j \in (p + 1)..last}
  <2> HIDE DEF e
  <2>0. DOMAIN e = 1..(last - p)
    BY <1>11
  <2>1. ToSet(e) = {e[i] : i \in 1..(last - p)}
    BY <2>0, Zenon DEF ToSet
  <2>2. \A i \in 1..(last - p) : p + i \in (p + 1)..last
    BY <1>8
  <2>3. \A j \in (p + 1)..last : j - p \in 1..(last - p) /\ p + (j - p) = j
    BY <1>8
  <2>4. ASSUME NEW i \in 1..(last - p) PROVE e[i] \in {s[j] : j \in (p + 1)..last}
    BY <1>11, <2>2
  <2>5. ASSUME NEW j \in (p + 1)..last PROVE s[j] \in {e[i] : i \in 1..(last - p)}
    BY <1>11, <2>3
  <2>6. {e[i] : i \in 1..(last - p)} \subseteq {s[j] : j \in (p + 1)..last}
    BY <2>4
  <2>7. {s[j] : j \in (p + 1)..last} \subseteq {e[i] : i \in 1..(last - p)}
    BY <2>5
  <2> QED
    BY <2>1, <2>6, <2>7
<1> HIDE DEF e
<1>13. e = NextElements(c, m)
  BY <1>9 DEF e
<1>14. NextElements(c, m) \in Seq(AllTransmissions(c)) /\ Len(NextElements(c, m)) = last - m.position
  BY <1>2, <1>11, <1>13
<1>15. ToSet(NextElements(c, m)) = {m.schedule[j] : j \in (m.position + 1)..last}
  BY <1>2, <1>12, <1>13
<1>16. k + 1 < total => last - m.position = GetPacketCapacity(c)
  BY <1>1, <1>2, <1>8
<1>17. last \in Nat /\ m.position <= last /\ last <= Len(m.schedule)
  BY <1>2, <1>3, <1>8
<1> QED
  BY <1>14, <1>15, <1>16, <1>17

\* Two that play together do so a tile later, and so do two that both play
\* together with a third one.
LEMMA TogetherAdvanced ==
    ASSUME NEW a, NEW b, PlayTyped(a), PlayTyped(b), Together(a, b)
    PROVE  Together(Advanced(a, 1), Advanced(b, 1))
<1>1. PICK x, y : x = Advanced(a, 1) /\ y = Advanced(b, 1)
  OBVIOUS
<1>2. /\ x.id = a.id /\ x.tiles = a.tiles /\ x.schedule = a.schedule
      /\ x.pos = IF a.tiles = 0 THEN 0 ELSE (a.pos + 1) % a.tiles
  BY <1>1, AdvancedIs
<1>3. /\ y.id = b.id /\ y.tiles = b.tiles /\ y.schedule = b.schedule
      /\ y.pos = IF b.tiles = 0 THEN 0 ELSE (b.pos + 1) % b.tiles
  BY <1>1, AdvancedIs
<1> QED
  BY <1>1, <1>2, <1>3 DEF Together

LEMMA TogetherThrough ==
    ASSUME NEW a, NEW b, NEW c, Together(a, c), Together(b, c), a.id = c.id
    PROVE  Together(a, b) /\ Together(b, a)
  BY DEF Together

\* What the master plays once it activates the schedule it has.
LEMMA MasterPlays ==
    ASSUME HeaderTyped(md.header), tile \in Nat
    PROVE  /\ PlayTyped(PlayOfMaster) /\ PlayOfMaster.id = md.header.id /\ PlayOfMaster.tiles = md.header.tiles
           /\ PlayOfMaster.schedule = md.schedule
           /\ PlayOfMaster.pos = IF md.header.tiles = 0 THEN 0 ELSE (tile - md.header.activation) % md.header.tiles
<1>1. PICK T \in Nat, a \in Int : T = md.header.tiles /\ a = md.header.activation
  BY DEF HeaderTyped
<1>2. tile - a \in Int
  BY <1>1
<1>3. T # 0 => (tile - a) % T \in 0..(T - 1)
  BY <1>1, <1>2, IntDivMod
<1>4. PICK p : p = IF T = 0 THEN 0 ELSE (tile - a) % T
  OBVIOUS
<1>5. p \in Nat /\ (T = 0 \/ p < T)
  BY <1>3, <1>4
<1>6. PlayOfMaster = [id |-> md.header.id, tiles |-> T, schedule |-> md.schedule, pos |-> p]
  BY <1>1, <1>4 DEF PlayOfMaster
<1> QED
  BY <1>1, <1>4, <1>5, <1>6 DEF PlayTyped, PlayFields

\* As a tile passes, with the schedule that the master has.
LEMMA MasterPlaysOn ==
    ASSUME HeaderTyped(md.header), HeaderTyped(md'.header), tile \in Nat, tile' = tile + 1,
           md'.header.id = md.header.id, md'.header.tiles = md.header.tiles, md'.schedule = md.schedule,
           md'.header.tiles > 0 =>
                \E k \in Int : md'.header.activation = md.header.activation + k * md.header.tiles,
           NEW a, Together(a, Advanced(PlayOfMaster, 1))
    PROVE  Together(a, PlayOfMaster')
<1>1. PICK T \in Nat, s \in Int, t \in Int : /\ T = md.header.tiles /\ s = md.header.activation
                                             /\ t = md'.header.activation
  BY DEF HeaderTyped
<1>2. PICK x : x = Advanced(PlayOfMaster, 1)
  OBVIOUS
<1>3. /\ PlayTyped(PlayOfMaster) /\ PlayOfMaster.id = md.header.id /\ PlayOfMaster.tiles = T
      /\ PlayOfMaster.schedule = md.schedule
      /\ PlayOfMaster.pos = IF T = 0 THEN 0 ELSE (tile - s) % T
  BY <1>1, MasterPlays
<1>4. /\ x.id = md.header.id /\ x.tiles = T /\ x.schedule = md.schedule
      /\ x.pos = IF T = 0 THEN 0 ELSE (PlayOfMaster.pos + 1) % T
  BY <1>2, <1>3, AdvancedIs
<1>5. T # 0 => (tile + 1 - t) % T = (((tile - s) % T) + 1) % T
  <2> SUFFICES ASSUME T # 0 PROVE (tile + 1 - t) % T = (((tile - s) % T) + 1) % T
    OBVIOUS
  <2>1. PICK k \in Int : t = s + k * T
    BY <1>1
  <2>2. PICK b \in Int : b = tile - s
    OBVIOUS
  <2>3. PICK kT \in Int : kT = k * T
    OBVIOUS
  <2>4. ((b % T) + 1) % T = (b + 1) % T
    BY RemainderNext
  <2>5. PICK d \in Int : d = b + 1
    OBVIOUS
  <2>6. T \in Nat \ {0}
    OBVIOUS
  <2>7. (d - (k * T)) % T = d % T
    BY <2>6, RemainderRound
  <2>8. tile + 1 - t = d - kT
    BY <2>1, <2>2, <2>3, <2>5
  <2> QED
    BY <2>2, <2>3, <2>4, <2>5, <2>7, <2>8
<1>6. /\ PlayOfMaster'.id = md.header.id /\ PlayOfMaster'.tiles = T /\ PlayOfMaster'.schedule = md.schedule
      /\ PlayOfMaster'.pos = IF T = 0 THEN 0 ELSE (tile + 1 - t) % T
  BY <1>1 DEF PlayOfMaster
<1>7. PlayOfMaster'.pos = x.pos
  BY <1>3, <1>4, <1>5, <1>6
<1> QED
  BY <1>2, <1>4, <1>6, <1>7 DEF Together

LEMMA TogetherInvInit == Init => TogetherInv
<1> SUFFICES ASSUME Init PROVE TogetherInv
  OBVIOUS
<1>1. IdsInv
  BY DEF Init, IdsInv, MasterDistribution, NoHeader, ScheduleHeader, PlaysNothing
<1>2. SendingInv
  BY DEF Init, SendingInv, MasterDistribution
<1>3. ReceivingInv
  BY DEF Init, ReceivingInv, NodeDistribution, Dynamic, Nodes
<1>4. \A n \in Nodes : data[n].id = 0
  BY DEF Init, PlaysNothing
<1>5. \A n \in Nodes : Together(data[n], PlayOfMaster)
  BY <1>4 DEF Together
<1>6. \A m, n \in Nodes : Together(data[m], data[n])
  BY <1>4 DEF Together
<1> QED
  BY <1>1, <1>2, <1>3, <1>5, <1>6 DEF TogetherInv

\* A schedule that is published has an id that no node has heard of.
LEMMA PublishedIds ==
    ASSUME IdsInv, published.id \in Nat, md' = md,
           \A n \in Nodes : data'[n].id \in {0, data[n].id}, net' = net,
           \/ published'.id = published.id + 1
           \/ /\ published'.id = published.id /\ published'.tiles = published.tiles
              /\ published'.schedule = published.schedule
    PROVE  IdsInv'
<1>1. PICK p, h : p \in Nat /\ p = published.id /\ h = md.header.id
  OBVIOUS
<1>2. h \in 0..p
  BY <1>1 DEF IdsInv
<1>3. \A n \in Nodes : data'[n].id \in 0..h
  <2> SUFFICES ASSUME NEW n \in Nodes PROVE data'[n].id \in 0..h
    OBVIOUS
  <2>1. data[n].id \in 0..h
    BY <1>1 DEF IdsInv
  <2> QED
    BY <1>2, <2>1
<1>4. h \in 0..published'.id
  BY <1>1, <1>2
<1>5. (h = published'.id /\ published'.id # 0) =>
            md.schedule = published'.schedule /\ md.header.tiles = published'.tiles % 2^16
  <2>1. CASE published'.id = published.id + 1
    BY <1>1, <1>2, <2>1
  <2>2. CASE published'.id # published.id + 1
    BY <1>1, <2>2 DEF IdsInv
  <2> QED
    BY <2>1, <2>2
<1> QED
  BY <1>1, <1>3, <1>4, <1>5 DEF IdsInv, Nodes

\* What is received while the master stays as it is.
LEMMA ReceivedStays ==
    ASSUME ReceivingInv, net' = net, md' = md,
           \A n \in Dynamic : dist'[n] = dist[n] \/ dist'[n].status # "SENDING_SCHEDULE"
    PROVE  ReceivingInv'
<1>0. Dynamic' = Dynamic
  BY DEF Dynamic, Nodes
<1> SUFFICES ASSUME NEW n \in Dynamic', (dist[n].status = "SENDING_SCHEDULE")'
             PROVE  (/\ dist[n].header.total = md.header.total
                     /\ dist[n].received \in [1..md.header.total -> BOOLEAN]
                     /\ dist[n].schedule \in Seq(AllTransmissions(net))
                     /\ Len(dist[n].schedule) = Cardinality(Got(n))
                     /\ ToSet(dist[n].schedule) = {md.schedule[j] : j \in Got(n)})'
  BY DEF ReceivingInv
<1>1. n \in Dynamic /\ dist'[n] = dist[n]
  BY <1>0
<1>2. Got(n)' = Got(n)
  BY <1>1 DEF Got, PieceOf
<1>3. /\ dist[n].header.total = md.header.total
      /\ dist[n].received \in [1..md.header.total -> BOOLEAN]
      /\ dist[n].schedule \in Seq(AllTransmissions(net))
      /\ Len(dist[n].schedule) = Cardinality(Got(n))
      /\ ToSet(dist[n].schedule) = {md.schedule[j] : j \in Got(n)}
  BY <1>1 DEF ReceivingInv
<1>4. dist'[n].header.total = md'.header.total /\ dist'[n].received \in [1..md'.header.total -> BOOLEAN]
  BY <1>1, <1>3
<1>5. dist'[n].schedule \in Seq(AllTransmissions(net'))
  BY <1>1, <1>3
<1>6. Len(dist'[n].schedule) = Cardinality(Got(n)') /\ ToSet(dist'[n].schedule) = {md'.schedule[j] : j \in Got(n)'}
  BY <1>1, <1>2, <1>3
<1> QED
  BY <1>4, <1>5, <1>6

\* A step that takes no time.
LEMMA StillTogether ==
    ASSUME NumbersInv, TogetherInv, UNCHANGED <<net, tile, nodeVars, md>>,
           \/ published'.id = published.id + 1
           \/ /\ published'.id = published.id /\ published'.tiles = published.tiles
              /\ published'.schedule = published.schedule
    PROVE  TogetherInv'
<1>0. net' = net /\ tile' = tile /\ md' = md /\ data' = data /\ dist' = dist
  BY DEF nodeVars
<1>1. IdsInv'
  BY <1>0, PublishedIds DEF TogetherInv, NumbersInv, PublishedNumbers
<1>2. SendingInv'
  BY <1>0 DEF TogetherInv, SendingInv
<1>3. ReceivingInv'
  BY <1>0, ReceivedStays DEF TogetherInv
<1>4. PlayOfMaster' = PlayOfMaster
  BY <1>0 DEF PlayOfMaster
<1>5. (\A n \in Nodes : Together(data[n], PlayOfMaster))'
  BY <1>0, <1>4 DEF TogetherInv, Nodes
<1>6. (\A m, n \in Nodes : Together(data[m], data[n]))'
  BY <1>0 DEF TogetherInv, Nodes
<1> QED
  BY <1>1, <1>2, <1>3, <1>5, <1>6 DEF TogetherInv

\* All nodes play on, some of them what the master is about to play.
LEMMA NodesPlayOn ==
    ASSUME PlayTyped(PlayOfMaster), \A m, n \in Nodes : Together(data[m], data[n]),
           NEW X, \A n \in Nodes : PlayTyped(X[n]) /\ Together(X[n], PlayOfMaster),
           \A n \in Nodes : X[n] = data[n] \/ X[n].id \in {0, PlayOfMaster.id},
           \A n \in Nodes : data'[n] = Advanced(X[n], 1)
    PROVE  /\ \A n \in Nodes : Together(data'[n], Advanced(PlayOfMaster, 1)) /\ data'[n].id = X[n].id
           /\ \A m, n \in Nodes : Together(data'[m], data'[n])
<1>1. \A n \in Nodes : Together(data'[n], Advanced(PlayOfMaster, 1)) /\ data'[n].id = X[n].id
  BY TogetherAdvanced, AdvancedIs
<1>2. ASSUME NEW m \in Nodes, NEW n \in Nodes PROVE Together(X[m], X[n])
  <2>1. CASE X[m].id = X[n].id /\ X[n].id # 0
    <3>1. CASE X[m].id = PlayOfMaster.id
      BY <3>1, TogetherThrough
    <3>2. CASE X[m].id # PlayOfMaster.id
      <4>1. X[m] = data[m] /\ X[n] = data[n]
        BY <2>1, <3>2
      <4> QED
        BY <4>1
    <3> QED
      BY <3>1, <3>2
  <2>2. CASE ~(X[m].id = X[n].id /\ X[n].id # 0)
    BY <2>2 DEF Together
  <2> QED
    BY <2>1, <2>2
<1>3. ASSUME NEW m \in Nodes, NEW n \in Nodes PROVE Together(data'[m], data'[n])
  <2>1. Together(Advanced(X[m], 1), Advanced(X[n], 1))
    BY <1>2, TogetherAdvanced
  <2> QED
    BY <2>1
<1> QED
  BY <1>1, <1>3

\* A tile in which the master says nothing about schedules.
LEMMA TileTogether ==
    ASSUME NumbersInv, TogetherInv, tile \in Nat, tile' = tile + 1, net' = net, md' = md, published' = published,
           \A n \in Dynamic : dist'[n] = dist[n] \/ dist'[n].status # "SENDING_SCHEDULE",
           NEW X, \A n \in Nodes : X[n] \in {data[n], PlaysNothing} /\ data'[n] = Advanced(X[n], 1)
    PROVE  TogetherInv'
<1>1. HeaderTyped(md.header) /\ \A n \in Nodes : PlayTyped(data[n])
  BY DEF NumbersInv
<1>2. PlayTyped(PlayOfMaster)
  BY <1>1, MasterPlays
<1>3. \A n \in Nodes : PlayTyped(X[n]) /\ Together(X[n], PlayOfMaster)
  <2> SUFFICES ASSUME NEW n \in Nodes PROVE PlayTyped(X[n]) /\ Together(X[n], PlayOfMaster)
    OBVIOUS
  <2>1. CASE X[n] = data[n]
    BY <1>1, <2>1 DEF TogetherInv
  <2>2. CASE X[n] = PlaysNothing
    BY <2>2, NothingIsPlayed DEF Together
  <2> QED
    BY <2>1, <2>2
<1>4. \A n \in Nodes : X[n] = data[n] \/ X[n].id \in {0, PlayOfMaster.id}
  BY NothingIsPlayed
<1>5. \A m, n \in Nodes : Together(data[m], data[n])
  BY DEF TogetherInv
<1>6. /\ \A n \in Nodes : Together(data'[n], Advanced(PlayOfMaster, 1)) /\ data'[n].id = X[n].id
      /\ \A m, n \in Nodes : Together(data'[m], data'[n])
  BY <1>2, <1>3, <1>4, <1>5, NodesPlayOn
<1>7. md'.header.tiles > 0 => \E k \in Int : md'.header.activation = md.header.activation + k * md.header.tiles
  <2>1. PICK T \in Nat, s \in Int : T = md.header.tiles /\ s = md.header.activation
    BY <1>1 DEF HeaderTyped
  <2>2. s = s + 0 * T /\ 0 \in Int
    OBVIOUS
  <2> QED
    BY <2>1, <2>2
<1>8. \A n \in Nodes : Together(data'[n], PlayOfMaster')
  BY <1>1, <1>6, <1>7, MasterPlaysOn
<1>9. IdsInv'
  <2>1. \A n \in Nodes : data'[n].id \in {0, data[n].id}
    BY <1>6, NothingIsPlayed
  <2> QED
    BY <2>1, PublishedIds DEF TogetherInv, NumbersInv, PublishedNumbers
<1>10. SendingInv'
  BY DEF TogetherInv, SendingInv
<1>11. ReceivingInv'
  BY ReceivedStays DEF TogetherInv
<1>12. (\A n \in Nodes : Together(data[n], PlayOfMaster))'
  BY <1>8 DEF Nodes
<1>13. (\A m, n \in Nodes : Together(data[m], data[n]))'
  BY <1>6 DEF Nodes
<1> QED
  BY <1>9, <1>10, <1>11, <1>12, <1>13 DEF TogetherInv

LEMMA TimesyncTogether ==
    ASSUME TimeInv, NumbersInv, TogetherInv, TimesyncPhase
    PROVE  TogetherInv'
<1>1. /\ tile \in Nat /\ tile' = tile + 1 /\ net' = net /\ md' = md /\ published' = published
  BY DEF TimeInv, TimesyncPhase, TimePasses, schedVars
<1>2. PICK deaf : TimesyncStep(deaf)
  BY DEF TimesyncPhase
<1>3. PICK wave : wave = TimesyncWave(deaf)
  OBVIOUS
<1> DEFINE X == [n \in Nodes |-> IF Resyncs(wave, n) THEN PlaysNothing ELSE data[n]]
<1>4. Advanced(PlaysNothing, 1) = PlaysNothing
  BY DEF Advanced, PlaysNothing
<1>5. \A n \in Nodes : data'[n] = IF Resyncs(wave, n) THEN PlaysNothing ELSE Advanced(data[n], 1)
  BY <1>2, <1>3 DEF TimesyncStep
<1>6. \A n \in Nodes : X[n] \in {data[n], PlaysNothing} /\ data'[n] = Advanced(X[n], 1)
  BY <1>4, <1>5
<1>7. \A n \in Dynamic : dist'[n] = dist[n] \/ dist'[n] = NodeDistribution
  BY <1>2 DEF TimesyncStep
<1>8. NodeDistribution.status # "SENDING_SCHEDULE"
  BY DEF NodeDistribution
<1>9. \A n \in Dynamic : dist'[n] = dist[n] \/ dist'[n].status # "SENDING_SCHEDULE"
  BY <1>7, <1>8
<1> HIDE DEF X
<1> QED
  BY <1>1, <1>6, <1>9, TileTogether

LEMMA UplinkTogether ==
    ASSUME TimeInv, NumbersInv, TogetherInv, UplinkPhaseStep
    PROVE  TogetherInv'
<1>1. /\ tile \in Nat /\ tile' = tile + 1 /\ net' = net /\ md' = md /\ published' = published /\ dist' = dist
  BY DEF TimeInv, UplinkPhaseStep, TimePasses
<1>2. data' = [n \in Nodes |-> Advanced(data[n], 1)]
  <2>1. PICK messages, deaf, packets : UplinkStep(messages, deaf, packets)
    BY DEF UplinkPhaseStep
  <2> QED
    BY <2>1 DEF UplinkStep
<1>3. PICK X : X = data
  OBVIOUS
<1>4. \A n \in Nodes : X[n] \in {data[n], PlaysNothing} /\ data'[n] = Advanced(X[n], 1)
  BY <1>2, <1>3
<1> QED
  BY <1>1, <1>4, TileTogether

\* What the scheduler publishes.
LEMMA SchedulerPublishes ==
    ASSUME PublishedNumbers, Scheduler
    PROVE  \/ published'.id = published.id + 1
           \/ /\ published'.id = published.id /\ published'.tiles = published.tiles
              /\ published'.schedule = published.schedule
<1>1. CASE published' = published
  BY <1>1
<1>2. ASSUME NEW b, published' = [published EXCEPT !.notApplied = b]
      PROVE  /\ published'.id = published.id /\ published'.tiles = published.tiles
             /\ published'.schedule = published.schedule
  BY <1>2
<1>3. CASE SchedWake
  BY <1>2, <1>3 DEF SchedWake
<1>4. CASE SchedCompute
  <2>1. CASE sch.graphChanged \/ sch.added
    BY <1>1, <1>4, <2>1 DEF SchedCompute, Told
  <2>2. CASE ~(sch.graphChanged \/ sch.added)
    BY <1>2, <1>4, <2>2 DEF SchedCompute
  <2> QED
    BY <2>1, <2>2
<1>5. CASE SchedPublish
  BY <1>5 DEF SchedPublish, Thread, PublishedNumbers
<1>6. CASE SchedSnapshot \/ SchedGraph \/ SchedWriteBack
  BY <1>1, <1>6 DEF SchedSnapshot, SchedGraph, SchedWriteBack
<1> QED
  BY <1>3, <1>4, <1>5, <1>6 DEF Scheduler

LEMMA OthersTogether ==
    ASSUME NumbersInv, TogetherInv, [Next]_vars, ~TimesyncPhase, ~DownlinkPhase, ~UplinkPhaseStep
    PROVE  TogetherInv'
<1>1. UNCHANGED <<net, tile, nodeVars, md>>
  BY OtherStepsTakeNoTime
<1>2. \/ published'.id = published.id + 1
      \/ /\ published'.id = published.id /\ published'.tiles = published.tiles
         /\ published'.schedule = published.schedule
  <2>1. CASE Scheduler
    BY <2>1, SchedulerPublishes DEF NumbersInv
  <2>2. CASE ~Scheduler
    <3>1. published' = published
      BY <2>2 DEF Next, vars, schedVars, Connect, LinksChange, RateChanges
    <3> QED
      BY <3>1
  <2> QED
    BY <2>1, <2>2
<1> QED
  BY <1>1, <1>2, StillTogether

\* The downlink of the master: it cuts the schedule in pieces, one after the other.
LEMMA DownlinkSends ==
    ASSUME TimeInv, DistributionTypes, NumbersInv, SendingInv, HeaderFits, HeaderFits', DownlinkPhase,
           NEW pkt, NEW got, DownlinkStep(pkt, got)
    PROVE  SendingInv'
<1>1. net \in Networks /\ net' = net /\ MasterFields(net, md) /\ HeaderTyped(md.header)
      /\ published.schedule \in Seq(AllTransmissions(net)) /\ published.tiles \in Nat
      /\ DownlinkTile(net, tile) /\ ~TimesyncTile(net, tile) /\ tile \in Nat
  BY DEF TimeInv, DownlinkPhase, DistributionTypes, MasterTyped, PublishedTyped, NumbersInv, PublishedNumbers
<1>2. CASE md.status = "APPLIED_SCHEDULE" /\ md' = md
  BY <1>2 DEF SendingInv
<1>3. CASE md.status = "APPLIED_SCHEDULE" /\ md' # md
  <2>1. /\ md'.status = "SENDING_SCHEDULE" /\ md'.schedule = published.schedule /\ md'.position = 0
        /\ md'.header = NewHeader(net, md.header, published.schedule, published.id, published.tiles, tile)
    BY <1>3, MasterInDownlink
  <2>2. PICK n, capacity : n = PacketsFor(net, published.schedule) /\ capacity = GetPacketCapacity(net)
    OBVIOUS
  <2>3. n \in Nat \ {0} /\ capacity \in Nat \ {0}
    BY <1>1, <2>2, PacketsAreEnough
  <2>4. n < 2^16
    BY <1>1, <2>1, <2>2 DEF HeaderFits
  <2>5. n % 2^16 = n
    BY <2>3, <2>4, TwoBytes
  <2>6. md'.header.total = n % 2^16 /\ md'.header.current = 0
    BY <1>1, <2>1, <2>2, NewHeaderIs
  <2>7. md'.header.total = n /\ PacketsFor(net', md'.schedule) = n /\ GetPacketCapacity(net') = capacity
    BY <1>1, <2>1, <2>2, <2>5, <2>6
  <2>8. 0 \in 0..(n - 1) /\ 0 = 0 * capacity
    BY <2>3
  <2> QED
    BY <2>1, <2>6, <2>7, <2>8 DEF SendingInv
<1>4. CASE md.status # "APPLIED_SCHEDULE" /\ ~Sending(md)
  <2>1. /\ md'.header = md.header /\ md'.schedule = md.schedule
        /\ md'.status \in {"APPLIED_SCHEDULE", "AWAITING_ACTIVATION"}
    BY <1>4, MasterInDownlink
  <2> QED
    BY <1>1, <1>4, <2>1 DEF SendingInv
<1>5. CASE Sending(md)
  <2>1. md.status = "SENDING_SCHEDULE" /\ md' = PacketSent(net, md)
    BY <1>5, MasterInDownlink DEF Sending
  <2>2. PICK total, capacity, k, new : /\ total = PacketsFor(net, md.schedule) /\ capacity = GetPacketCapacity(net)
                                       /\ k = md.header.current /\ new = md'
    OBVIOUS
  <2>3. md.header.total = total /\ k \in 0..(total - 1) /\ md.position = k * capacity
    BY <2>1, <2>2 DEF SendingInv
  <2>4. total \in Nat \ {0} /\ capacity \in Nat \ {0}
    BY <1>1, <2>2, PacketsAreEnough DEF MasterFields
  <2>5. total < 2^16
    BY <2>2 DEF HeaderFits
  <2>6. k + 1 \in Nat /\ (k + 1) % 2^16 = k + 1
    <3>1. PICK b \in Nat : b = 2^16
      OBVIOUS
    <3>2. k + 1 \in Nat /\ k + 1 < b
      BY <2>3, <2>4, <2>5, <3>1
    <3> QED
      BY <3>1, <3>2, TwoBytes
  <2>7. /\ new.schedule = md.schedule /\ new.status = md.status /\ new.header.total = total
        /\ IF (k + 1) % 2^16 < total
           THEN new.header.current = (k + 1) % 2^16 /\ new.position = md.position + Len(NextElements(net, md))
           ELSE new.header.current = 0 /\ new.position = 0
    BY <1>1, <2>1, <2>2, <2>3, PacketSentIs
  <2>8. k + 1 < total => Len(NextElements(net, md)) = capacity
    <3>1. k \in Nat /\ k < total
      BY <2>3, <2>4
    <3>2. PICK last : last = IF md.position + GetPacketCapacity(net) < Len(md.schedule)
                             THEN md.position + GetPacketCapacity(net) ELSE Len(md.schedule)
      OBVIOUS
    <3>3. /\ Len(NextElements(net, md)) = last - md.position
          /\ k + 1 < total => last - md.position = GetPacketCapacity(net)
      BY <1>1, <2>2, <2>3, <3>1, <3>2, NextPiece
    <3> QED
      BY <2>2, <3>3
  <2>9. new.header.current \in 0..(total - 1) /\ new.position = new.header.current * capacity
    <3>1. CASE k + 1 < total
      <4>1. new.header.current = k + 1 /\ new.position = k * capacity + capacity
        BY <2>3, <2>6, <2>7, <2>8, <3>1
      <4>2. (k + 1) * capacity = k * capacity + capacity
        BY <2>3, <2>4
      <4>3. k + 1 \in 0..(total - 1)
        BY <2>3, <2>4, <3>1
      <4> QED
        BY <4>1, <4>2, <4>3
    <3>2. CASE ~(k + 1 < total)
      <4>1. new.header.current = 0 /\ new.position = 0
        BY <2>6, <2>7, <3>2
      <4>2. 0 \in 0..(total - 1) /\ 0 * capacity = 0
        BY <2>4
      <4> QED
        BY <4>1, <4>2
    <3> QED
      BY <3>1, <3>2
  <2>10. /\ md'.header.total = PacketsFor(net', md'.schedule)
         /\ md'.header.current \in 0..(md'.header.total - 1)
         /\ md'.position = md'.header.current * GetPacketCapacity(net')
    BY <1>1, <2>2, <2>7, <2>9
  <2> QED
    BY <2>10 DEF SendingInv
<1> QED
  BY <1>2, <1>3, <1>4, <1>5 DEF Sending

\* Every transmission is in a piece.
LEMMA PieceInRange ==
    ASSUME net \in Networks, DistributionTypes, SendingInv, md.status # "APPLIED_SCHEDULE",
           NEW j \in DOMAIN md.schedule
    PROVE  PieceOf(j) \in 1..md.header.total /\ j \in Nat \ {0}
<1>1. PICK total, capacity, s, T : /\ total = PacketsFor(net, md.schedule) /\ capacity = GetPacketCapacity(net)
                                   /\ s = md.schedule /\ T = AllTransmissions(net)
  OBVIOUS
<1>2. s \in Seq(T)
  BY <1>1 DEF DistributionTypes, MasterTyped, MasterFields
<1>3. total \in Nat \ {0} /\ capacity \in Nat \ {0} /\ Len(s) <= total * capacity
  BY <1>1, <1>2, PacketsAreEnough
<1>4. j \in 1..Len(s)
  BY <1>1, <1>2
<1>5. j \in Nat \ {0} /\ j <= total * capacity
  <2>1. PICK bound \in Nat : bound = total * capacity
    BY <1>3
  <2> QED
    BY <1>2, <1>3, <1>4, <2>1
<1>6. PICK piece : piece = ((j - 1) \div capacity) + 1
  OBVIOUS
<1>7. piece \in Nat \ {0} /\ piece <= total
  BY <1>3, <1>5, <1>6, PieceIs
<1> QED
  BY <1>1, <1>5, <1>6, <1>7 DEF PieceOf, SendingInv

\* A node that has all pieces has the transmissions of the schedule.
LEMMA CompleteSchedule ==
    ASSUME net \in Networks, DistributionTypes, SendingInv, ReceivingInv, NEW n \in Dynamic,
           dist[n].status = "SENDING_SCHEDULE", md.status # "APPLIED_SCHEDULE", IsScheduleComplete(dist[n])
    PROVE  /\ Len(dist[n].schedule) = Len(md.schedule)
           /\ ToSet(dist[n].schedule) = ToSet(md.schedule)
<1>1. PICK total, capacity, s, T : /\ total = PacketsFor(net, md.schedule) /\ capacity = GetPacketCapacity(net)
                                   /\ s = md.schedule /\ T = AllTransmissions(net)
  OBVIOUS
<1>2. s \in Seq(T)
  BY <1>1 DEF DistributionTypes, MasterTyped, MasterFields
<1>3. total \in Nat \ {0} /\ capacity \in Nat \ {0} /\ Len(s) <= total * capacity
  BY <1>1, <1>2, PacketsAreEnough
<1>4. /\ md.header.total = total
      /\ dist[n].received \in [1..total -> BOOLEAN]
      /\ Len(dist[n].schedule) = Cardinality(Got(n))
      /\ ToSet(dist[n].schedule) = {s[j] : j \in Got(n)}
  BY <1>1 DEF SendingInv, ReceivingInv
<1>5. \A i \in 1..total : dist[n].received[i]
  BY <1>4 DEF IsScheduleComplete
<1>6. Got(n) = 1..Len(s)
  <2>1. \A j \in DOMAIN s : PieceOf(j) \in 1..total
    BY <1>1, <1>4, PieceInRange
  <2>2. DOMAIN s = 1..Len(s)
    BY <1>2
  <2> QED
    BY <1>1, <1>5, <2>1, <2>2 DEF Got
<1>7. PICK L \in Nat : L = Len(s)
  BY <1>2
<1>8. Cardinality(1..L) = L
  BY FS_Interval
<1>9. ToSet(s) = {s[j] : j \in 1..L}
  BY <1>2, <1>7 DEF ToSet
<1> QED
  BY <1>1, <1>4, <1>6, <1>7, <1>8, <1>9

\* What a node begins to play is what the master begins to play at that tile.
LEMMA BeginsTogether ==
    ASSUME TimeInv, DistributionTypes, ScheduleInv, NumbersInv, TogetherInv, NodeTile(0) = tile,
           NEW n \in Dynamic, Activating(n), NEW x, x = PlaysAfterActivation(dist[n], NodeTile(n))
    PROVE  PlayTyped(x) /\ Together(x, PlayOfMaster) /\ x.id \in {0, md.header.id}
<1>1. dist[n].status = "SENDING_SCHEDULE"
  BY DEF Activating, Activates
<1>2. /\ n \in InTime /\ md.status # "APPLIED_SCHEDULE"
      /\ dist[n].header.id = md.header.id /\ dist[n].header.activation = md.header.activation
  BY <1>1, NodeAwaits DEF AwaitsActivation
<1>3. NodeTile(n) = tile /\ tile \in Nat /\ net \in Networks
  BY <1>2, SameTile DEF TimeInv
<1>4. HeaderTyped(md.header) /\ HeaderFields \subseteq DOMAIN dist[n].header /\ dist[n].header.tiles = md.header.tiles
  BY <1>1 DEF NumbersInv
<1>5. CASE IsScheduleComplete(dist[n])
  <2>1. x = Play(dist[n].header, dist[n].schedule, tile)
    BY <1>3, <1>5 DEF PlaysAfterActivation
  <2>2. PICK h, s, t : h = dist[n].header /\ s = dist[n].schedule /\ t = tile /\ t \in Int
    BY <1>3
  <2>3. HeaderFields \subseteq DOMAIN h /\ h.tiles \in Nat /\ h.activation \in Int
    BY <1>2, <1>4, <2>2 DEF HeaderTyped
  <2>4. /\ PlayTyped(x) /\ x.id = h.id /\ x.tiles = h.tiles /\ x.schedule = s
        /\ x.pos = IF h.tiles = 0 THEN 0 ELSE (t - h.activation) % h.tiles
    BY <2>1, <2>2, <2>3, PlayIs
  <2>5. Len(s) = Len(md.schedule) /\ ToSet(s) = ToSet(md.schedule)
    BY <1>1, <1>2, <1>3, <1>5, <2>2, CompleteSchedule DEF TogetherInv
  <2>6. /\ PlayOfMaster.tiles = md.header.tiles /\ PlayOfMaster.schedule = md.schedule
        /\ PlayOfMaster.pos = IF md.header.tiles = 0 THEN 0 ELSE (tile - md.header.activation) % md.header.tiles
    BY <1>3, <1>4, MasterPlays
  <2>7. x.pos = PlayOfMaster.pos /\ x.tiles = PlayOfMaster.tiles
    BY <1>2, <1>4, <2>2, <2>4, <2>6
  <2>8. Together(x, PlayOfMaster)
    BY <2>4, <2>5, <2>6, <2>7 DEF Together
  <2> QED
    BY <1>2, <2>2, <2>4, <2>8
<1>6. CASE ~IsScheduleComplete(dist[n])
  <2>1. x = PlaysNothing
    BY <1>6 DEF PlaysAfterActivation
  <2> QED
    BY <2>1, NothingIsPlayed DEF Together
<1> QED
  BY <1>5, <1>6

LEMMA MasterBegins ==
    ASSUME NumbersInv, tile \in Nat, NEW x, x = Play(md.header, md.schedule, tile)
    PROVE  PlayTyped(x) /\ Together(x, PlayOfMaster) /\ x.id = md.header.id
<1>1. PICK h, s, t : h = md.header /\ s = md.schedule /\ t = tile /\ t \in Int
  OBVIOUS
<1>2. HeaderTyped(md.header)
  BY DEF NumbersInv
<1>3. HeaderFields \subseteq DOMAIN h /\ h.tiles \in Nat /\ h.activation \in Int
  BY <1>1, <1>2 DEF HeaderTyped
<1>4. /\ PlayTyped(x) /\ x.id = h.id /\ x.tiles = h.tiles /\ x.schedule = s
      /\ x.pos = IF h.tiles = 0 THEN 0 ELSE (t - h.activation) % h.tiles
  BY <1>1, <1>3, PlayIs
<1>5. /\ PlayOfMaster.tiles = md.header.tiles /\ PlayOfMaster.schedule = md.schedule
      /\ PlayOfMaster.pos = IF md.header.tiles = 0 THEN 0 ELSE (tile - md.header.activation) % md.header.tiles
  BY <1>2, MasterPlays
<1>6. x.pos = PlayOfMaster.pos /\ x.tiles = PlayOfMaster.tiles /\ x.schedule = PlayOfMaster.schedule
  BY <1>1, <1>4, <1>5
<1> QED
  BY <1>1, <1>4, <1>6 DEF Together

\* What the nodes play after a downlink.
LEMMA DownlinkPlays ==
    ASSUME TimeInv, DistributionTypes, ScheduleInv, NumbersInv, TogetherInv, NodeTile(0) = tile,
           NEW pkt, NEW got, got \subseteq Listening, DownlinkStep(pkt, got)
    PROVE  \E X : \A n \in Nodes :
                /\ PlayTyped(X[n]) /\ Together(X[n], PlayOfMaster)
                /\ X[n] = data[n] \/ X[n].id \in {0, md.header.id}
                /\ data'[n] = Advanced(X[n], 1)
<1> DEFINE X == [n \in Nodes |->
                    IF n = 0 THEN (IF MasterActivates(md, tile) THEN Play(md.header, md.schedule, tile) ELSE data[0])
                    ELSE IF Activating(n) THEN PlaysAfterActivation(dist[n], NodeTile(n)) ELSE data[n]]
           Good(n) == /\ PlayTyped(X[n]) /\ Together(X[n], PlayOfMaster)
                      /\ X[n] = data[n] \/ X[n].id \in {0, md.header.id}
                      /\ data'[n] = Advanced(X[n], 1)
<1>1. ASSUME NEW n \in Nodes, X[n] = data[n], data'[n] = Advanced(data[n], 1) PROVE Good(n)
  <2>1. PlayTyped(data[n]) /\ Together(data[n], PlayOfMaster)
    BY DEF NumbersInv, TogetherInv
  <2> HIDE DEF X
  <2> QED
    BY <1>1, <2>1
<1>2. ASSUME NEW n \in Dynamic PROVE Good(n)
  <2>1. n \in Nodes /\ n # 0
    BY DEF Dynamic
  <2>2. CASE ~Activating(n)
    <3>1. X[n] = data[n]
      BY <2>1, <2>2
    <3>2. data'[n] = Advanced(data[n], 1)
      BY <2>2, NodeInDownlink
    <3> QED
      BY <1>1, <2>1, <3>1, <3>2
  <2>3. CASE Activating(n)
    <3>1. X[n] = PlaysAfterActivation(dist[n], NodeTile(n))
      BY <2>1, <2>3
    <3> HIDE DEF X
    <3>2. PlayTyped(X[n]) /\ Together(X[n], PlayOfMaster) /\ X[n].id \in {0, md.header.id}
      BY <2>3, <3>1, BeginsTogether
    <3>3. data'[n] = Advanced(X[n], 1)
      BY <2>3, <3>1, NodeInDownlink
    <3> QED
      BY <3>2, <3>3
  <2> QED
    BY <2>2, <2>3
<1>3. ASSUME 0 \in Nodes PROVE Good(0)
  <2>1. CASE ~MasterActivates(md, tile)
    <3>1. X[0] = data[0]
      BY <1>3, <2>1
    <3>2. data'[0] = Advanced(data[0], 1)
      BY <1>3, <2>1 DEF DownlinkStep
    <3> QED
      BY <1>1, <1>3, <3>1, <3>2
  <2>2. CASE MasterActivates(md, tile)
    <3>1. X[0] = Play(md.header, md.schedule, tile)
      BY <1>3, <2>2
    <3>2. data'[0] = Advanced(Play(md.header, md.schedule, tile), 1)
      BY <1>3, <2>2 DEF DownlinkStep
    <3> HIDE DEF X
    <3>3. PlayTyped(X[0]) /\ Together(X[0], PlayOfMaster) /\ X[0].id = md.header.id
      BY <3>1, MasterBegins DEF TimeInv
    <3> QED
      BY <3>1, <3>2, <3>3
  <2> QED
    BY <2>1, <2>2
<1>4. \A n \in Nodes : Good(n)
  BY <1>2, <1>3 DEF Dynamic
<1> HIDE DEF X
<1> QED
  BY <1>4

\* The schedule the master has after a downlink: the same, or the published one,
\* set so that one of the same length goes on in step.
LEMMA MasterHas ==
    ASSUME TimeInv, DistributionTypes, NumbersInv, DownlinkPhase, NEW pkt, NEW got, DownlinkStep(pkt, got)
    PROVE  /\ (md'.header.tiles = md.header.tiles /\ md'.header.tiles > 0) =>
                \E k \in Int : md'.header.activation = md.header.activation + k * md.header.tiles
           /\ \/ /\ md'.header.id = md.header.id /\ md'.header.tiles = md.header.tiles /\ md'.schedule = md.schedule
              \/ /\ md'.header.id = published.id /\ md'.header.tiles = published.tiles % 2^16
                 /\ md'.schedule = published.schedule
<1>1. net \in Networks /\ MasterFields(net, md) /\ HeaderTyped(md.header)
      /\ published.schedule \in Seq(AllTransmissions(net)) /\ published.tiles \in Nat
      /\ DownlinkTile(net, tile) /\ ~TimesyncTile(net, tile) /\ tile \in Nat
  BY DEF TimeInv, DownlinkPhase, DistributionTypes, MasterTyped, PublishedTyped, NumbersInv, PublishedNumbers
<1>2. CASE md.status = "APPLIED_SCHEDULE" /\ md' # md
  <2>1. md'.schedule = published.schedule
        /\ md'.header = NewHeader(net, md.header, published.schedule, published.id, published.tiles, tile)
    BY <1>2, MasterInDownlink
  <2>2. PICK h, last : h = md'.header /\ last = md.header
    OBVIOUS
  <2>3. /\ h.id = published.id /\ h.tiles = published.tiles % 2^16
        /\ last.tiles > 0 => \E k \in Int : h.activation = last.activation + k * last.tiles
    BY <1>1, <2>1, <2>2, NewHeaderIs
  <2> QED
    BY <2>1, <2>2, <2>3
<1>3. CASE ~(md.status = "APPLIED_SCHEDULE" /\ md' # md)
  <2>1. /\ md'.header.id = md.header.id /\ md'.header.tiles = md.header.tiles /\ md'.schedule = md.schedule
        /\ md'.header.activation = md.header.activation
    <3>1. CASE md' = md
      BY <3>1
    <3>2. CASE Sending(md)
      BY <1>1, <3>2, MasterInDownlink, PacketSentIs
    <3>3. CASE md.status # "APPLIED_SCHEDULE" /\ ~Sending(md)
      BY <3>3, MasterInDownlink
    <3> QED
      BY <1>3, <3>1, <3>2, <3>3
  <2>2. PICK T \in Nat, s \in Int : T = md.header.tiles /\ s = md.header.activation
    BY <1>1 DEF HeaderTyped
  <2>3. s = s + 0 * T /\ 0 \in Int
    OBVIOUS
  <2> QED
    BY <2>1, <2>2, <2>3
<1> QED
  BY <1>2, <1>3

\* After a downlink nodes play together.
LEMMA DownlinkTogether ==
    ASSUME TimeInv, DistributionTypes, ScheduleInv, NumbersInv, TogetherInv, DownlinkPhase,
           NEW pkt, NEW got, got \subseteq Listening, DownlinkStep(pkt, got)
    PROVE  /\ IdsInv'
           /\ \A n \in Nodes : Together(data'[n], PlayOfMaster')
           /\ \A m, n \in Nodes : Together(data'[m], data'[n])
<1>1. /\ tile \in Nat /\ tile' = tile + 1 /\ net' = net /\ NodeTile(0) = tile
      /\ HeaderTyped(md.header) /\ HeaderTyped(md'.header)
  BY MasterInDownlink DEF DownlinkPhase, TimePasses, NumbersInv
<1>2. /\ published'.id = published.id /\ published'.tiles = published.tiles
      /\ published'.schedule = published.schedule
  <2>1. published' \in {published, [published EXCEPT !.notApplied = FALSE]}
    BY DEF DownlinkStep, ScheduleSentAndApplied
  <2>2. PublishedFields \subseteq DOMAIN published
    BY DEF NumbersInv, PublishedNumbers
  <2> QED
    BY <2>1, <2>2 DEF PublishedFields
<1>3. PICK X : \A n \in Nodes : /\ PlayTyped(X[n]) /\ Together(X[n], PlayOfMaster)
                                /\ X[n] = data[n] \/ X[n].id \in {0, md.header.id}
                                /\ data'[n] = Advanced(X[n], 1)
  BY <1>1, DownlinkPlays
<1>4. /\ \A n \in Nodes : Together(data'[n], Advanced(PlayOfMaster, 1)) /\ data'[n].id = X[n].id
      /\ \A m, n \in Nodes : Together(data'[m], data'[n])
  <2>1. PlayTyped(PlayOfMaster) /\ PlayOfMaster.id = md.header.id
    BY <1>1, MasterPlays
  <2>2. \A m, n \in Nodes : Together(data[m], data[n])
    BY DEF TogetherInv
  <2>3. \A n \in Nodes : PlayTyped(X[n]) /\ Together(X[n], PlayOfMaster)
    BY <1>3
  <2>4. \A n \in Nodes : X[n] = data[n] \/ X[n].id \in {0, PlayOfMaster.id}
    BY <1>3, <2>1
  <2>5. \A n \in Nodes : data'[n] = Advanced(X[n], 1)
    BY <1>3
  <2> QED
    BY <2>1, <2>2, <2>3, <2>4, <2>5, NodesPlayOn
<1>5. PICK p, h : /\ p \in Nat /\ p = published.id /\ h = md.header.id /\ h \in 0..p
                     /\ \A n \in Nodes : data[n].id \in 0..h
  BY DEF NumbersInv, PublishedNumbers, TogetherInv, IdsInv
<1>6. \A n \in Nodes : data'[n].id \in 0..h
  BY <1>3, <1>4, <1>5
<1>7. (h = p /\ p # 0) => md.schedule = published.schedule /\ md.header.tiles = published.tiles % 2^16
  BY <1>5 DEF TogetherInv, IdsInv
<1>8. \/ /\ md'.header.id = h /\ md'.header.tiles = md.header.tiles /\ md'.schedule = md.schedule
      \/ /\ md'.header.id = p /\ md'.header.tiles = published.tiles % 2^16 /\ md'.schedule = published.schedule
  BY <1>5, MasterHas
<1>9. IdsInv'
  <2>1. md'.header.id \in 0..p /\ h <= md'.header.id
    BY <1>5, <1>8
  <2>2. \A n \in Nodes : data'[n].id \in 0..md'.header.id
    <3>1. PICK g : g = md'.header.id
      OBVIOUS
    <3>2. 0..h \subseteq 0..g
      BY <1>5, <2>1, <3>1
    <3> QED
      BY <1>6, <3>1, <3>2
  <2>3. (md'.header.id = p /\ p # 0) =>
            md'.schedule = published.schedule /\ md'.header.tiles = published.tiles % 2^16
    BY <1>7, <1>8
  <2> QED
    BY <1>1, <1>2, <1>5, <2>1, <2>2, <2>3 DEF IdsInv, Nodes
<1>10. ASSUME NEW n \in Nodes PROVE Together(data'[n], PlayOfMaster')
  <2>1. PlayOfMaster'.id = md'.header.id
    BY DEF PlayOfMaster
  <2>2. CASE data'[n].id # md'.header.id \/ data'[n].id = 0
    BY <2>1, <2>2 DEF Together
  <2>3. CASE data'[n].id = md'.header.id /\ data'[n].id # 0
    <3>1. md'.header.id = md.header.id /\ md'.header.tiles = md.header.tiles /\ md'.schedule = md.schedule
      <4>1. data'[n].id \in 0..h
        BY <1>6
      <4>2. CASE md'.header.id = p /\ md'.header.tiles = published.tiles % 2^16 /\ md'.schedule = published.schedule
        <5>1. h = p /\ p # 0
          BY <1>5, <2>3, <4>1, <4>2
        <5> QED
          BY <1>5, <1>7, <4>2, <5>1
      <4> QED
        BY <1>5, <1>8, <4>2
    <3>2. md'.header.tiles > 0 => \E k \in Int : md'.header.activation = md.header.activation + k * md.header.tiles
      BY <3>1, MasterHas
    <3>3. PICK a : a = data'[n]
      OBVIOUS
    <3>4. Together(a, Advanced(PlayOfMaster, 1))
      BY <1>4, <3>3
    <3>5. Together(a, PlayOfMaster')
      BY <1>1, <3>1, <3>2, <3>4, MasterPlaysOn
    <3> QED
      BY <3>3, <3>5
  <2> QED
    BY <2>2, <2>3
<1> QED
  BY <1>4, <1>9, <1>10

\* The transmissions of a schedule whose pieces a node has, as the master cuts it.
PiecesOf(d) == {j \in DOMAIN md.schedule : d.received[PieceOf(j)]}
HasPieces(d) ==
    /\ d.header.total = md.header.total
    /\ d.received \in [1..md.header.total -> BOOLEAN]
    /\ d.schedule \in Seq(AllTransmissions(net))
    /\ Len(d.schedule) = Cardinality(PiecesOf(d))
    /\ ToSet(d.schedule) = {md.schedule[j] : j \in PiecesOf(d)}

\* The piece that is sent.
LEMMA PieceSent ==
    ASSUME net \in Networks, DistributionTypes, SendingInv, md.status = "SENDING_SCHEDULE",
           NEW P, P = {j \in DOMAIN md.schedule : PieceOf(j) = md.header.current + 1},
           NEW piece, piece = NextElements(net, md)
    PROVE  /\ IsFiniteSet(P) /\ Cardinality(P) = Len(piece) /\ piece \in Seq(AllTransmissions(net))
           /\ ToSet(piece) = {md.schedule[j] : j \in P}
           /\ md.header.current + 1 \in 1..md.header.total
<1>1. PICK total, capacity, k : /\ total = PacketsFor(net, md.schedule) /\ capacity = GetPacketCapacity(net)
                                /\ k = md.header.current
  OBVIOUS
<1>2. MasterFields(net, md)
  BY DEF DistributionTypes, MasterTyped
<1>3. total \in Nat \ {0} /\ capacity \in Nat \ {0}
  BY <1>1, <1>2, PacketsAreEnough DEF MasterFields
<1>4. md.header.total = total /\ k \in 0..(total - 1) /\ md.position = k * capacity
  BY <1>1 DEF SendingInv
<1>5. k \in Nat /\ k < total /\ k + 1 \in 1..total
  BY <1>3, <1>4
<1>6. PICK last : last = IF md.position + GetPacketCapacity(net) < Len(md.schedule)
                         THEN md.position + GetPacketCapacity(net) ELSE Len(md.schedule)
  OBVIOUS
<1>7. /\ last \in Nat /\ md.position <= last /\ last <= Len(md.schedule)
      /\ piece \in Seq(AllTransmissions(net)) /\ Len(piece) = last - md.position
      /\ ToSet(piece) = {md.schedule[j] : j \in (md.position + 1)..last}
  BY <1>1, <1>2, <1>4, <1>5, <1>6, NextPiece
<1>8. PICK p \in Nat, L \in Nat : p = md.position /\ L = Len(md.schedule) /\ DOMAIN md.schedule = 1..L
  BY <1>2 DEF MasterFields
<1>9. P = (p + 1)..last
  <2>1. ASSUME NEW j \in 1..L PROVE PieceOf(j) = k + 1 <=> j \in (p + 1)..last
    <3>1. PICK found : found = ((j - 1) \div capacity) + 1
      OBVIOUS
    <3>2. j \in Nat \ {0}
      OBVIOUS
    <3>3. found = k + 1 <=> j \in (k * capacity + 1)..(k * capacity + capacity)
      BY <1>3, <1>5, <3>1, <3>2, PieceIs
    <3>4. PieceOf(j) = found
      BY <1>1, <3>1 DEF PieceOf
    <3>5. k * capacity = p
      BY <1>4, <1>8
    <3>6. found = k + 1 <=> j \in (p + 1)..(p + capacity)
      BY <3>3, <3>5
    <3>7. last = IF p + capacity < L THEN p + capacity ELSE L
      BY <1>1, <1>6, <1>8
    <3> QED
      BY <1>3, <3>4, <3>6, <3>7
  <2>2. \A j \in (p + 1)..last : j \in 1..L
    BY <1>7, <1>8
  <2> QED
    BY <1>1, <1>8, <2>1, <2>2
<1>10. IsFiniteSet(P) /\ Cardinality(P) = last - p
  <2>1. p + 1 \in Int /\ last \in Int /\ p <= last
    BY <1>7, <1>8
  <2>2. PICK a \in Int, b \in Int : a = p + 1 /\ b = last
    BY <2>1
  <2>3. IsFiniteSet(a..b) /\ Cardinality(a..b) = IF a > b THEN 0 ELSE b - a + 1
    BY FS_Interval
  <2>4. P = a..b
    BY <1>9, <2>2
  <2>5. (IF a > b THEN 0 ELSE b - a + 1) = last - p
    <3>1. CASE a > b
      BY <2>1, <2>2, <3>1
    <3>2. CASE ~(a > b)
      BY <2>1, <2>2, <3>2
    <3> QED
      BY <3>1, <3>2
  <2> QED
    BY <2>3, <2>4, <2>5
<1> QED
  BY <1>1, <1>4, <1>5, <1>7, <1>8, <1>9, <1>10

\* A node begins with the piece of the packet.
LEMMA BeginsWithPiece ==
    ASSUME net \in Networks, DistributionTypes, SendingInv, md.status = "SENDING_SCHEDULE",
           NEW d, NodeFields(d), NEW pkt, pkt.header = md.header, pkt.elements = NextElements(net, md)
    PROVE  HasPieces(InitSchedule(d, pkt))
<1>1. PICK e, i : e = InitSchedule(d, pkt) /\ i = md.header.current + 1
  OBVIOUS
<1>2. /\ e.header = md.header /\ e.schedule = NextElements(net, md)
      /\ e.received = [x \in 1..md.header.total |-> x = i]
  BY <1>1 DEF InitSchedule, NodeFields
<1>3. PICK P, piece : P = {j \in DOMAIN md.schedule : PieceOf(j) = i} /\ piece = NextElements(net, md)
  OBVIOUS
<1>4. /\ Cardinality(P) = Len(piece) /\ piece \in Seq(AllTransmissions(net))
      /\ ToSet(piece) = {md.schedule[j] : j \in P}
  BY <1>1, <1>3, PieceSent
<1>5. PiecesOf(e) = P
  <2>1. \A j \in DOMAIN md.schedule : PieceOf(j) \in 1..md.header.total
    BY PieceInRange
  <2>2. \A j \in DOMAIN md.schedule : e.received[PieceOf(j)] = (PieceOf(j) = i)
    BY <1>2, <2>1
  <2> QED
    BY <1>3, <2>2 DEF PiecesOf
<1>6. e.received \in [1..md.header.total -> BOOLEAN]
  BY <1>2
<1> QED
  BY <1>1, <1>2, <1>3, <1>4, <1>5, <1>6 DEF HasPieces

LEMMA ElementsOfBoth ==
    ASSUME NEW T, NEW s \in Seq(T), NEW t \in Seq(T)
    PROVE  s \o t \in Seq(T) /\ Len(s \o t) = Len(s) + Len(t) /\ ToSet(s \o t) = ToSet(s) \cup ToSet(t)
<1>1. /\ Len(s) \in Nat /\ Len(t) \in Nat /\ DOMAIN (s \o t) = 1..(Len(s) + Len(t))
      /\ DOMAIN s = 1..Len(s) /\ DOMAIN t = 1..Len(t)
      /\ \A i \in 1..Len(s) : (s \o t)[i] = s[i]
      /\ \A i \in 1..Len(t) : (s \o t)[Len(s) + i] = t[i]
  OBVIOUS
<1> DEFINE u == s \o t
<1>2. u \in Seq(T) /\ Len(u) = Len(s) + Len(t)
  OBVIOUS
<1>3. \A i \in DOMAIN s : i \in DOMAIN u /\ u[i] = s[i]
  BY <1>1
<1>4. \A i \in DOMAIN t : Len(s) + i \in DOMAIN u /\ u[Len(s) + i] = t[i]
  BY <1>1
<1>5. \A i \in DOMAIN u : i \in DOMAIN s \/ (i - Len(s) \in DOMAIN t /\ Len(s) + (i - Len(s)) = i)
  BY <1>1
<1> HIDE DEF u
<1>6. \A i \in DOMAIN u : u[i] \in ToSet(s) \cup ToSet(t)
  BY <1>3, <1>4, <1>5 DEF ToSet
<1>7. ToSet(s) \cup ToSet(t) \subseteq ToSet(u)
  BY <1>3, <1>4 DEF ToSet
<1>8. ToSet(u) \subseteq ToSet(s) \cup ToSet(t)
  BY <1>6 DEF ToSet
<1> QED
  BY <1>2, <1>7, <1>8 DEF u

\* It goes on with it, unless it has it.
LEMMA GoesOnWithPiece ==
    ASSUME net \in Networks, DistributionTypes, SendingInv, md.status = "SENDING_SCHEDULE",
           NEW d, NodeFields(d), HasPieces(d),
           NEW pkt, pkt.header = md.header, pkt.elements = NextElements(net, md)
    PROVE  HasPieces(AppendToSchedule(d, pkt))
<1>1. PICK e, i : e = AppendToSchedule(d, pkt) /\ i = md.header.current + 1
  OBVIOUS
<1>2. CASE e = d
  BY <1>1, <1>2
<1>3. CASE e # d
  <2>1. /\ e.header = md.header
        /\ e.schedule = IF d.received[i] THEN d.schedule ELSE d.schedule \o NextElements(net, md)
        /\ e.received = [d.received EXCEPT ![i] = TRUE]
    BY <1>1, <1>3 DEF AppendToSchedule, NodeFields
  <2>2. PICK P, piece : P = {j \in DOMAIN md.schedule : PieceOf(j) = i} /\ piece = NextElements(net, md)
    OBVIOUS
  <2>3. /\ IsFiniteSet(P) /\ Cardinality(P) = Len(piece) /\ piece \in Seq(AllTransmissions(net))
        /\ ToSet(piece) = {md.schedule[j] : j \in P} /\ i \in 1..md.header.total
    BY <1>1, <2>2, PieceSent
  <2>4. \A j \in DOMAIN md.schedule : PieceOf(j) \in 1..md.header.total
    BY PieceInRange
  <2>5. d.received \in [1..md.header.total -> BOOLEAN] /\ e.received \in [1..md.header.total -> BOOLEAN]
    BY <2>1 DEF HasPieces
  <2>6. \A x \in 1..md.header.total : e.received[x] <=> x = i \/ d.received[x]
    BY <2>1, <2>3, <2>5
  <2>7. PiecesOf(e) = PiecesOf(d) \cup P
    BY <2>2, <2>4, <2>6 DEF PiecesOf
  <2>8. /\ d.schedule \in Seq(AllTransmissions(net)) /\ Len(d.schedule) = Cardinality(PiecesOf(d))
        /\ ToSet(d.schedule) = {md.schedule[j] : j \in PiecesOf(d)}
    BY DEF HasPieces
  <2>9. CASE d.received[i]
    <3>1. P \subseteq PiecesOf(d)
      BY <2>2, <2>9 DEF PiecesOf
    <3>2. PiecesOf(e) = PiecesOf(d) /\ e.schedule = d.schedule
      BY <2>1, <2>7, <2>9, <3>1
    <3> QED
      BY <1>1, <2>1, <2>5, <2>8, <3>2 DEF HasPieces
  <2>10. CASE ~d.received[i]
    <3>1. PICK Q : Q = PiecesOf(d)
      OBVIOUS
    <3>2. Q \cap P = {}
      BY <2>2, <2>10, <3>1 DEF PiecesOf
    <3>3. IsFiniteSet(Q)
      <4>1. PICK L \in Nat : DOMAIN md.schedule = 1..L
        BY DEF DistributionTypes, MasterTyped, MasterFields
      <4>2. IsFiniteSet(1..L)
        BY FS_Interval
      <4>3. Q \in SUBSET (1..L)
        BY <3>1, <4>1 DEF PiecesOf
      <4> QED
        BY <4>2, <4>3, FS_Subset
    <3>4. Cardinality(Q \cup P) = Cardinality(Q) + Cardinality(P)
      <4>1. Cardinality(Q) \in Nat /\ Cardinality(P) \in Nat
        BY <2>3, <3>3, FS_CardinalityType
      <4>2. Cardinality(Q \cup P) = Cardinality(Q) + Cardinality(P) - Cardinality(Q \cap P)
        BY <2>3, <3>3, FS_Union
      <4>3. Cardinality(Q \cap P) = 0
        BY <3>2, FS_EmptySet
      <4> QED
        BY <4>1, <4>2, <4>3
    <3>5. PICK T, s : T = AllTransmissions(net) /\ s = d.schedule
      OBVIOUS
    <3>6. s \o piece \in Seq(T) /\ Len(s \o piece) = Len(s) + Len(piece)
          /\ ToSet(s \o piece) = ToSet(s) \cup ToSet(piece)
      BY <2>3, <2>8, <3>5, ElementsOfBoth
    <3>7. e.schedule = s \o piece
      BY <2>1, <2>2, <2>10, <3>5
    <3>8. PiecesOf(e) = Q \cup P
      BY <2>7, <3>1
    <3>9. Len(e.schedule) = Cardinality(PiecesOf(e))
      BY <2>3, <2>8, <3>1, <3>4, <3>5, <3>6, <3>7, <3>8
    <3>10. ToSet(e.schedule) = {md.schedule[j] : j \in PiecesOf(e)}
      <4>1. ToSet(e.schedule) = {md.schedule[j] : j \in Q} \cup {md.schedule[j] : j \in P}
        BY <2>3, <2>8, <3>1, <3>5, <3>6, <3>7
      <4> QED
        BY <3>8, <4>1
    <3> QED
      BY <1>1, <2>1, <2>5, <3>5, <3>6, <3>7, <3>9, <3>10 DEF HasPieces
  <2> QED
    BY <2>9, <2>10
<1> QED
  BY <1>2, <1>3

\* What nodes receive in a downlink.
LEMMA DownlinkReceives ==
    ASSUME TimeInv, DistributionTypes, ScheduleInv, NumbersInv, SendingInv, ReceivingInv, DownlinkPhase,
           NEW pkt, NEW got, {"header", "elements"} \subseteq DOMAIN pkt,
           IsSchedulePacket(pkt.header) => /\ Sending(md) /\ pkt.header = md.header
                                           /\ WithoutInfo(pkt).elements = NextElements(net, md),
           got \subseteq Listening, DownlinkStep(pkt, got)
    PROVE  ReceivingInv'
<1>1. net \in Networks /\ net' = net
  BY DEF TimeInv, DownlinkPhase
<1>2. \A n \in Dynamic : NodeFields(dist[n])
  BY DEF DistributionTypes, NodesTyped
<1>3. ASSUME NEW n \in Dynamic, dist[n].status = "SENDING_SCHEDULE"
      PROVE  HasPieces(dist[n]) /\ md.status # "APPLIED_SCHEDULE"
  <2>1. md.status # "APPLIED_SCHEDULE"
    BY <1>3, NodeAwaits DEF AwaitsActivation
  <2>2. Got(n) = PiecesOf(dist[n])
    BY DEF Got, PiecesOf
  <2> QED
    BY <1>3, <2>1, <2>2 DEF ReceivingInv, HasPieces
<1>4. ASSUME NEW n \in Dynamic, dist'[n].status = "SENDING_SCHEDULE"
      PROVE  HasPieces(dist'[n]) /\ md.status # "APPLIED_SCHEDULE"
  <2>1. NodeFields(dist[n])
    BY <1>2
  <2>2. ~Activating(n)
    BY <1>4, <2>1, NodeInDownlink, ActivationKeeps
  <2>3. CASE n \in got /\ IsSchedulePacket(pkt.header)
    <3>1. md.status = "SENDING_SCHEDULE" /\ pkt.header = md.header
      BY <2>3 DEF Sending
    <3>2. PICK d, plain : d = dist[n] /\ plain = WithoutInfo(pkt)
      OBVIOUS
    <3>3. plain.header = md.header /\ plain.elements = NextElements(net, md)
      BY <2>3, <3>1, <3>2 DEF WithoutInfo
    <3>4. dist'[n] = IF pkt.header.id # d.header.id THEN InitSchedule(d, plain)
                     ELSE IF d.status = "SENDING_SCHEDULE" THEN AppendToSchedule(d, plain) ELSE d
      BY <2>3, <3>2, NodeInDownlink DEF NodeReceives
    <3>5. CASE dist'[n] = InitSchedule(d, plain)
      BY <1>1, <2>1, <3>1, <3>2, <3>3, <3>5, BeginsWithPiece
    <3>6. CASE dist'[n] = AppendToSchedule(d, plain) /\ d.status = "SENDING_SCHEDULE"
      BY <1>1, <1>3, <2>1, <3>1, <3>2, <3>3, <3>6, GoesOnWithPiece
    <3> QED
      BY <1>4, <3>4, <3>5, <3>6
  <2>4. CASE ~(n \in got /\ IsSchedulePacket(pkt.header))
    <3>1. dist'[n] \in {dist[n], NodeHearsNothing(net, dist[n])}
      BY <2>2, <2>4, NodeInDownlink DEF NodeReceives
    <3>2. dist[n].status = "SENDING_SCHEDULE"
      BY <1>4, <2>1, <3>1, HearsNothingKeeps
    <3>3. dist'[n] = dist[n]
      BY <3>1, <3>2 DEF NodeHearsNothing
    <3> QED
      BY <1>3, <3>2, <3>3
  <2> QED
    BY <2>3, <2>4
<1>5. ASSUME NEW n \in Dynamic, dist'[n].status = "SENDING_SCHEDULE"
      PROVE  /\ dist'[n].header.total = md'.header.total
             /\ dist'[n].received \in [1..md'.header.total -> BOOLEAN]
             /\ dist'[n].schedule \in Seq(AllTransmissions(net))
             /\ Len(dist'[n].schedule) = Cardinality(Got(n)')
             /\ ToSet(dist'[n].schedule) = {md'.schedule[j] : j \in Got(n)'}
  <2>1. HasPieces(dist'[n]) /\ md.status # "APPLIED_SCHEDULE"
    BY <1>4, <1>5
  <2>2. md'.header.total = md.header.total /\ md'.schedule = md.schedule
    BY <2>1, MasterInDownlink
  <2>3. Got(n)' = PiecesOf(dist'[n])
    BY <1>1, <2>2 DEF Got, PiecesOf, PieceOf
  <2> QED
    BY <2>1, <2>2, <2>3 DEF HasPieces
<1> QED
  BY <1>1, <1>5 DEF ReceivingInv, Dynamic, Nodes

LEMMA TogetherInvNext ==
    ASSUME TimeInv, DistributionTypes, ScheduleInv, NumbersInv, ApartInv, TogetherInv,
           HeaderFits, HeaderFits', [Next]_vars
    PROVE  TogetherInv'
<1>1. CASE DownlinkPhase
  <2>1. net \in Networks /\ Apart(md.schedule) /\ net' = net
    BY <1>1 DEF TimeInv, ApartInv, DownlinkPhase
  <2>2. PICK pkt, got : /\ {"header", "elements"} \subseteq DOMAIN pkt
                        /\ IsSchedulePacket(pkt.header) =>
                                /\ Sending(md) /\ pkt.header = md.header
                                /\ WithoutInfo(pkt).elements = NextElements(net, md)
                        /\ got \subseteq Listening /\ DownlinkStep(pkt, got)
    BY <1>1, <2>1, PieceOnAir
  <2>3. /\ IdsInv'
        /\ \A n \in Nodes : Together(data'[n], PlayOfMaster')
        /\ \A m, n \in Nodes : Together(data'[m], data'[n])
    BY <1>1, <2>2, DownlinkTogether
  <2>4. SendingInv'
    BY <1>1, <2>2, DownlinkSends DEF TogetherInv
  <2>5. ReceivingInv'
    BY <1>1, <2>2, DownlinkReceives DEF TogetherInv
  <2>6. (\A n \in Nodes : Together(data[n], PlayOfMaster))'
    BY <2>1, <2>3 DEF Nodes
  <2>7. (\A m, n \in Nodes : Together(data[m], data[n]))'
    BY <2>1, <2>3 DEF Nodes
  <2> QED
    BY <2>3, <2>4, <2>5, <2>6, <2>7 DEF TogetherInv
<1>2. CASE TimesyncPhase
  BY <1>2, TimesyncTogether
<1>3. CASE UplinkPhaseStep
  BY <1>3, UplinkTogether
<1>4. CASE ~TimesyncPhase /\ ~DownlinkPhase /\ ~UplinkPhaseStep
  BY <1>4, OthersTogether
<1> QED
  BY <1>1, <1>2, <1>3, <1>4

\* Nodes that play a schedule of the same id play the same transmissions and are
\* at the same tile of it: for every network, whichever packets they have lost,
\* in whatever order they got the pieces, in which distribution of the schedule,
\* and whenever they were out of time, as long as the number of packets of a
\* schedule fits in the two bytes that the header has for it.
THEOREM PlayedTogetherTheorem == Spec /\ []HeaderFits => []PlayedTogether
<1> DEFINE Inv == TimeInv /\ DistributionTypes /\ ScheduleInv /\ NumbersInv /\ QueuesInv /\ TopologyInv
                  /\ ApartInv /\ TogetherInv
<1>1. Init => Inv
  BY TimeInvInit, TypesInit, ScheduleInvInit, NumbersInvInit, QueuesInit, TopologyInvInit, ApartInvInit,
     TogetherInvInit
<1>2. Inv /\ HeaderFits /\ HeaderFits' /\ [Next]_vars => Inv'
  <2> SUFFICES ASSUME Inv, HeaderFits, HeaderFits', [Next]_vars PROVE Inv'
    OBVIOUS
  <2>1. net \in Networks
    BY DEF TimeInv
  <2>2. (TimeInv /\ DistributionTypes /\ ScheduleInv /\ NumbersInv)'
    BY <2>1, TimeInvNext, TypesNext, ScheduleInvNext, NumbersInvNext
  <2>3. (QueuesInv /\ TopologyInv)'
    BY <2>1, QueuesNext, TopologyInvNext
  <2>4. (ApartInv /\ TogetherInv)'
    BY ApartInvNext, TogetherInvNext
  <2> QED
    BY <2>2, <2>3, <2>4
<1>3. Inv => PlayedTogether
  <2> SUFFICES ASSUME TogetherInv PROVE PlayedTogether
    OBVIOUS
  <2>1. InTime \subseteq Nodes
    BY DEF InTime
  <2> QED
    BY <2>1 DEF TogetherInv, PlayedTogether
<1> QED
  BY <1>1, <1>2, <1>3, PTL DEF Spec
-----------------------------------------------------------------------------
(***************************************************************************)
(* The tile of activation leaves time for the packets: what the loop       *)
(* returns begins a superframe, and before it there are downlinks enough.  *)
(***************************************************************************)
\* How many of the numbers up to one are in a set.
CountIn(a, n, T) == Cardinality({i \in a..(n - 1) : i \in T})

LEMMA CountNext ==
    ASSUME NEW a \in Nat, NEW k \in Nat, NEW T
    PROVE  /\ CountIn(a, k, T) \in Nat
           /\ a <= k => CountIn(a, k + 1, T) = CountIn(a, k, T) + (IF k \in T THEN 1 ELSE 0)
<1> DEFINE Before(n) == {i \in a..(n - 1) : i \in T}
<1>1. IsFiniteSet(Before(k))
  <2>1. IsFiniteSet(a..(k - 1)) /\ Before(k) \subseteq a..(k - 1)
    BY FS_Interval
  <2> QED
    BY <2>1, FS_Subset
<1>2. Cardinality(Before(k)) \in Nat
  BY <1>1, FS_CardinalityType
<1>3. CountIn(a, k, T) = Cardinality(Before(k)) /\ CountIn(a, k + 1, T) = Cardinality(Before(k + 1))
  BY DEF CountIn
<1>4. CASE a <= k /\ k \in T
  <2>1. Before(k + 1) = Before(k) \cup {k} /\ k \notin Before(k)
    BY <1>4
  <2> QED
    BY <1>1, <1>2, <1>3, <1>4, <2>1, FS_AddElement
<1>5. CASE a <= k /\ k \notin T
  <2>1. Before(k + 1) = Before(k)
    BY <1>5
  <2> QED
    BY <1>2, <1>3, <1>5, <2>1
<1> QED
  BY <1>2, <1>3, <1>4, <1>5

\* Tiles that are neither uplinks nor timesyncs are downlinks for packets.
LEMMA DownlinksAre ==
    ASSUME NEW c \in Networks, NEW t \in Nat
    PROVE  /\ PacketDownlinks(c, t) \in Nat
           /\ PacketDownlinks(c, t) = t - UplinksBefore(c, t) - NumTimesyncs(c, t)
<1> DEFINE T == {i \in Nat : DownlinkTile(c, i) /\ ~TimesyncTile(c, i)}
           F(n) == PacketDownlinks(c, n)
           G(n) == n - UplinksBefore(c, n) - NumTimesyncs(c, n)
           Good == {n \in Nat : F(n) \in Nat /\ F(n) = G(n)}
           f == [n \in 0..t |-> n]
<1>1. ASSUME NEW n \in Nat PROVE F(n) = CountIn(0, n, T)
  <2>1. {i \in 0..(n - 1) : i \in T} = {i \in 0..(n - 1) : DownlinkTile(c, i) /\ ~TimesyncTile(c, i)}
    OBVIOUS
  <2> QED
    BY <2>1 DEF PacketDownlinks, CountIn
<1>2. ASSUME NEW n \in Nat PROVE F(n) \in Nat /\ F(n + 1) = F(n) + (IF n \in T THEN 1 ELSE 0)
  <2>1. F(n) = CountIn(0, n, T) /\ F(n + 1) = CountIn(0, n + 1, T) /\ 0 <= n
    BY <1>1
  <2> HIDE DEF F, T
  <2> QED
    BY <2>1, CountNext
<1>3. G(0) = 0 /\ F(0) = 0
  <2>1. PICK s, p : s = Size(c) /\ p = TilesPerTimesync(c)
    OBVIOUS
  <2>2. s \in Nat \ {0} /\ p \in Nat \ {0}
    BY <2>1, Configuration
  <2>3. 0 = s * 0 + 0 /\ 0 \in 0..(s - 1)
    BY <2>2
  <2>4. 0 \div s = 0 /\ 0 % s = 0
    BY <2>2, <2>3, DivModUnique
  <2>5. 0 + p - 1 = p * 0 + (p - 1) /\ p - 1 \in 0..(p - 1)
    BY <2>2
  <2>6. (0 + p - 1) \div p = 0
    BY <2>2, <2>5, DivModUnique
  <2>7. NumTimesyncs(c, 0) = 0
    BY <2>1, <2>6 DEF NumTimesyncs
  <2>8. CountUplinks(c, 0) = 0
    BY FS_EmptySet DEF CountUplinks
  <2>9. CountUplinkSlots(c) \in Nat
    BY <2>1, <2>2, NextCountUplinks DEF CountUplinkSlots
  <2>10. UplinksBefore(c, 0) = 0
    BY <2>1, <2>4, <2>8, <2>9 DEF UplinksBefore
  <2>11. PacketDownlinks(c, 0) = 0
    BY FS_EmptySet DEF PacketDownlinks
  <2> QED
    BY <2>7, <2>10, <2>11
<1>4. ASSUME NEW n \in Nat
      PROVE  /\ G(n) \in Int
             /\ G(n + 1) = G(n) + (IF n \in T THEN 1 ELSE 0)
  <2>1. /\ UplinksBefore(c, n) \in Nat
        /\ UplinksBefore(c, n + 1) = UplinksBefore(c, n) + (IF DownlinkTile(c, n) THEN 0 ELSE 1)
    BY NextUplink
  <2>2. /\ NumTimesyncs(c, n) \in Nat
        /\ NumTimesyncs(c, n + 1) = NumTimesyncs(c, n) + (IF TimesyncTile(c, n) THEN 1 ELSE 0)
    BY NextNumTimesyncs
  <2>3. TimesyncTile(c, n) => DownlinkTile(c, n)
    BY TimesyncIsDownlink
  <2> QED
    BY <2>1, <2>2, <2>3
<1> HIDE DEF F, G, T
<1>5. f[0] \in Good
  BY <1>3
<1>6. \A n \in 1..t : f[n - 1] \in Good => f[n] \in Good
  <2> SUFFICES ASSUME NEW n \in 1..t, n - 1 \in Good PROVE n \in Good
    OBVIOUS
  <2>1. PICK m \in Nat : m = n - 1 /\ n = m + 1
    OBVIOUS
  <2>2. F(m) \in Nat /\ F(m) = G(m) /\ n \in Nat
    BY <2>1
  <2>3. F(m + 1) = F(m) + (IF m \in T THEN 1 ELSE 0) /\ G(m + 1) = G(m) + (IF m \in T THEN 1 ELSE 0)
    BY <1>2, <1>4
  <2>4. F(m + 1) = G(m + 1) /\ F(m + 1) \in Nat
    BY <2>2, <2>3
  <2> QED
    BY <2>1, <2>2, <2>4
<1> HIDE DEF f, Good
<1>7. \A n \in 0..t : f[n] \in Good
  BY <1>5, <1>6, IterationStays
<1>8. f[t] = t /\ t \in 0..t
  BY DEF f
<1>9. t \in Good
  BY <1>7, <1>8
<1> QED
  BY <1>9 DEF Good, F, G

\* They are never fewer than before.
LEMMA DownlinksGrow ==
    ASSUME NEW c \in Networks, NEW t \in Nat, NEW u \in Nat, t <= u
    PROVE  PacketDownlinks(c, t) <= PacketDownlinks(c, u)
<1> DEFINE Before(n) == {i \in 0..(n - 1) : DownlinkTile(c, i) /\ ~TimesyncTile(c, i)}
<1>1. IsFiniteSet(0..(u - 1)) /\ Before(u) \subseteq 0..(u - 1)
  BY FS_Interval
<1>2. IsFiniteSet(Before(u)) /\ Before(t) \subseteq Before(u)
  BY <1>1, FS_Subset
<1> QED
  BY <1>2, FS_Subset DEF PacketDownlinks

\* The uplinks of whole superframes.
LEMMA UplinksRound ==
    ASSUME NEW c \in Networks, NEW t \in Nat, t % Size(c) = 0, NEW k \in Nat
    PROVE  /\ (t + k * Size(c)) % Size(c) = 0
           /\ UplinksBefore(c, t + k * Size(c)) = UplinksBefore(c, t) + k * CountUplinkSlots(c)
<1>1. PICK s, u, q : s = Size(c) /\ u = CountUplinkSlots(c) /\ q = t \div Size(c)
  OBVIOUS
<1>2. s \in Nat \ {0} /\ q \in Nat /\ t = s * q + 0
  BY <1>1, Configuration, DivMod
<1>3. u \in Nat /\ CountUplinks(c, 0) = 0
  <2>1. CountUplinks(c, 0) = 0
    BY FS_EmptySet DEF CountUplinks
  <2> QED
    BY <1>1, <1>2, <2>1, NextCountUplinks DEF CountUplinkSlots
<1>4. t + k * s = s * (q + k) + 0 /\ 0 \in 0..(s - 1)
  BY <1>2
<1>5. (t + k * s) \div s = q + k /\ (t + k * s) % s = 0
  BY <1>2, <1>4, DivModUnique
<1>6. UplinksBefore(c, t) = q * u
  BY <1>1, <1>2, <1>3 DEF UplinksBefore
<1>7. UplinksBefore(c, t + k * s) = (q + k) * u
  BY <1>1, <1>2, <1>3, <1>5 DEF UplinksBefore
<1> QED
  BY <1>1, <1>2, <1>3, <1>5, <1>6, <1>7

\* From within a superframe to the next one: the downlinks left are all there are
\* besides the uplinks.
LEMMA RestOfSuperframe ==
    ASSUME NEW c \in Networks, NEW t \in Nat, t % Size(c) # 0
    PROVE  /\ DownlinksLeft(c, t) \in Nat
           /\ Align(t, Size(c)) \in Nat /\ t <= Align(t, Size(c)) /\ Align(t, Size(c)) % Size(c) = 0
           /\ Align(t, Size(c)) - UplinksBefore(c, Align(t, Size(c)))
                = t - UplinksBefore(c, t) + DownlinksLeft(c, t)
<1> DEFINE T == {i \in Nat : IsControlDownlink(c, i)}
<1>1. PICK s, q, a : s = Size(c) /\ q = t \div Size(c) /\ a = t % Size(c)
  OBVIOUS
<1>2. s \in Nat \ {0} /\ q \in Nat /\ a \in 1..(s - 1) /\ t = s * q + a
  <2>1. s \in Nat \ {0} /\ q = t \div s /\ a = t % s /\ a # 0
    BY <1>1, Configuration
  <2>2. q \in Nat /\ a \in 0..(s - 1) /\ t = s * q + a
    BY <2>1, DivMod
  <2> QED
    BY <2>1, <2>2
<1>3. DownlinksLeft(c, t) = CountIn(a, s, T)
  <2>1. {i \in a..(s - 1) : i \in T} = {i \in a..(s - 1) : IsControlDownlink(c, i)}
    BY <1>2
  <2> QED
    BY <1>1, <2>1 DEF DownlinksLeft, CountIn
<1>4. ASSUME NEW n \in Nat PROVE n \in T <=> ~IsControlUplink(c, n)
  BY DEF IsControlUplink
<1> HIDE DEF T
<1> DEFINE up(n) == CountUplinks(c, n)
           f == [j \in 0..(s - a) |-> j]
           Good == {j \in Nat : CountIn(a, a + j, T) = j - (up(a + j) - up(a))}
<1>5. \A n \in Nat : up(n) \in Nat /\ up(n + 1) = up(n) + (IF IsControlUplink(c, n) THEN 1 ELSE 0)
  BY NextCountUplinks
<1> HIDE DEF up
<1>6. \A n \in Nat : /\ CountIn(a, n, T) \in Nat
                     /\ a <= n => CountIn(a, n + 1, T) = CountIn(a, n, T) + (IF n \in T THEN 1 ELSE 0)
  <2>1. a \in Nat
    BY <1>2
  <2> QED
    BY <2>1, CountNext
<1>7. f[0] \in Good
  <2>1. CountIn(a, a, T) = 0
    <3>1. {i \in a..(a - 1) : i \in T} = {}
      BY <1>2
    <3> QED
      BY <3>1, FS_EmptySet DEF CountIn
  <2>2. a + 0 = a /\ up(a) \in Nat /\ 0 \in 0..(s - a)
    BY <1>2, <1>5
  <2> QED
    BY <2>1, <2>2
<1>8. \A j \in 1..(s - a) : f[j - 1] \in Good => f[j] \in Good
  <2> SUFFICES ASSUME NEW j \in 1..(s - a), j - 1 \in Good PROVE j \in Good
    BY <1>2
  <2>1. PICK n \in Nat : n = a + (j - 1) /\ a + j = n + 1 /\ a <= n
    BY <1>2
  <2>2. CountIn(a, n, T) = (j - 1) - (up(n) - up(a)) /\ up(n) \in Nat /\ up(a) \in Nat
    BY <1>2, <1>5, <2>1
  <2>3. /\ CountIn(a, n + 1, T) = CountIn(a, n, T) + (IF n \in T THEN 1 ELSE 0)
        /\ up(n + 1) = up(n) + (IF n \in T THEN 0 ELSE 1)
    BY <1>4, <1>5, <1>6, <2>1
  <2>4. CountIn(a, n + 1, T) = j - (up(n + 1) - up(a))
    BY <1>2, <2>2, <2>3
  <2> QED
    BY <1>2, <2>1, <2>4
<1>9. s - a \in Nat /\ f[s - a] = s - a /\ s - a \in 0..(s - a)
  BY <1>2
<1> HIDE DEF f, Good
<1>10. \A j \in 0..(s - a) : f[j] \in Good
  BY <1>7, <1>8, <1>9, IterationStays
<1>11. s - a \in Good
  BY <1>9, <1>10
<1>12. CountIn(a, s, T) = (s - a) - (up(s) - up(a)) /\ CountIn(a, s, T) \in Nat
  <2>1. a + (s - a) = s
    BY <1>2
  <2> QED
    BY <1>2, <1>6, <1>11, <2>1 DEF Good
<1>13. PICK v : v = Align(t, Size(c))
  OBVIOUS
<1>14. v = t + (s - a) /\ v = s * (q + 1) + 0 /\ v \in Nat /\ q + 1 \in Nat
  <2>1. t + s - 1 = s * (q + 1) + (a - 1) /\ a - 1 \in 0..(s - 1) /\ q + 1 \in Nat
    BY <1>2
  <2>2. PICK m, r : m = q + 1 /\ r = a - 1
    OBVIOUS
  <2>3. (s * m + r) \div s = m
    BY <1>2, <2>1, <2>2, DivModUnique
  <2>4. v = (q + 1) * s
    BY <1>1, <1>13, <2>1, <2>2, <2>3 DEF Align
  <2> QED
    BY <1>2, <2>1, <2>4
<1>15. v % s = 0 /\ v \div s = q + 1
  <2>1. 0 \in 0..(s - 1)
    BY <1>2
  <2> QED
    BY <1>2, <1>14, <2>1, DivModUnique
<1>16. up(0) = 0 /\ up(s) \in Nat /\ up(a) \in Nat
  <2>1. CountUplinks(c, 0) = 0
    BY FS_EmptySet DEF CountUplinks
  <2> QED
    BY <1>2, <1>5, <2>1 DEF up
<1>17. UplinksBefore(c, v) = (q + 1) * up(s) /\ UplinksBefore(c, t) = q * up(s) + up(a)
  <2>1. CountUplinkSlots(c) = up(s) /\ CountUplinks(c, 0) = 0 /\ CountUplinks(c, a) = up(a)
    BY <1>1, <1>16 DEF CountUplinkSlots, up
  <2>2. UplinksBefore(c, t) = q * up(s) + up(a)
    BY <1>1, <2>1 DEF UplinksBefore
  <2>3. UplinksBefore(c, v) = (q + 1) * up(s) + 0
    BY <1>1, <1>15, <2>1 DEF UplinksBefore
  <2>4. (q + 1) * up(s) \in Nat
    BY <1>2, <1>16
  <2> QED
    BY <2>2, <2>3, <2>4
<1>18. (q + 1) * up(s) = q * up(s) + up(s) /\ q * up(s) \in Nat
  BY <1>2, <1>16
<1>19. v - UplinksBefore(c, v) = t - UplinksBefore(c, t) + DownlinksLeft(c, t)
  BY <1>2, <1>3, <1>12, <1>14, <1>16, <1>17, <1>18
<1> QED
  BY <1>1, <1>2, <1>3, <1>12, <1>13, <1>14, <1>15, <1>19

\* A superframe that does not begin with a timesync follows one that does.
LEMMA TimesyncsApart ==
    ASSUME NEW c \in Networks, c.superframesPerSync > 1, NEW t \in Nat, TimesyncTile(c, t)
    PROVE  ~TimesyncTile(c, t + Size(c))
<1>1. PICK s, p, n, q : s = Size(c) /\ p = TilesPerTimesync(c) /\ n = c.superframesPerSync /\ q = t \div TilesPerTimesync(c)
  OBVIOUS
<1>2. s \in Nat \ {0} /\ n \in Nat \ {0} /\ n > 1 /\ p = s * n /\ p \in Nat \ {0}
  BY <1>1, Configuration DEF TilesPerTimesync
<1>3. q \in Nat /\ t = p * q + 0
  <2>1. q = t \div p /\ t % p = 0
    BY <1>1 DEF TimesyncTile
  <2>2. t \div p \in Nat /\ t = p * (t \div p) + (t % p)
    BY <1>2, DivMod
  <2> QED
    BY <2>1, <2>2
<1>4. s < p
  <2>1. PICK k \in Nat : n = 2 + k
    BY <1>2
  <2>2. p = s + s + s * k /\ s * k \in Nat
    BY <1>2, <2>1
  <2> QED
    BY <1>2, <2>2
<1>5. t + s = p * q + s /\ s \in 0..(p - 1)
  BY <1>2, <1>3, <1>4
<1>6. (t + s) % p = s
  BY <1>2, <1>3, <1>5, DivModUnique
<1> QED
  BY <1>1, <1>2, <1>6 DEF TimesyncTile

\* What a tile that the loop returns is like: it begins a superframe, and between
\* the two tiles there are the downlinks wanted, besides the timesyncs from
\* begin on.
Reaches(c, s, r) ==
    /\ s.tile <= r /\ Starts(c, r)
    /\ r - UplinksBefore(c, r) - NumTimesyncs(c, r)
            >= s.tile - UplinksBefore(c, s.tile) - NumTimesyncs(c, s.begin) + s.numDownlinks

\* One pass: the superframes it adds have the downlinks it counts.
LEMMA PassReaches ==
    ASSUME NEW c \in Networks, NEW down, down = CountDownlinkSlots(c), down \in Nat \ {0},
           NEW s \in LoopState, s.tile % Size(c) = 0, NEW v, v = AfterSuperframes(c, s)
    PROVE  /\ v \in Nat /\ s.tile <= v /\ v % Size(c) = 0
           /\ UplinksBefore(c, v) \in Nat /\ UplinksBefore(c, s.tile) \in Nat
           /\ NumTimesyncs(c, v) \in Nat /\ NumTimesyncs(c, s.begin) \in Nat
           /\ TimesyncsFound(c, s) = NumTimesyncs(c, v) - NumTimesyncs(c, s.begin)
           /\ RemainingDownlinks(c, s) \in Nat
           /\ v - UplinksBefore(c, v) = s.tile - UplinksBefore(c, s.tile) + s.numDownlinks + RemainingDownlinks(c, s)
<1>1. PICK k \in Nat :
        /\ v = s.tile + k * Size(c) /\ v \in Nat
        /\ RemainingDownlinks(c, s) \in Nat /\ RemainingDownlinks(c, s) = k * down - s.numDownlinks
  BY LoopPass
<1>2. s.tile \in Nat /\ s.begin \in Nat /\ s.numDownlinks \in Nat
  BY DEF LoopState
<1>3. PICK size, ups : size = Size(c) /\ ups = CountUplinkSlots(c)
  OBVIOUS
<1>4. size \in Nat \ {0} /\ ups \in Nat /\ down = size - ups
  BY <1>3, Configuration, NextCountUplinks DEF CountUplinkSlots, CountDownlinkSlots
<1>5. v % Size(c) = 0 /\ UplinksBefore(c, v) = UplinksBefore(c, s.tile) + k * ups
  BY <1>1, <1>2, <1>3, UplinksRound
<1>6. /\ UplinksBefore(c, v) \in Nat /\ UplinksBefore(c, s.tile) \in Nat
      /\ NumTimesyncs(c, v) \in Nat /\ NumTimesyncs(c, s.begin) \in Nat
  BY <1>1, <1>2, NextUplink, NextNumTimesyncs
<1>7. k * down = k * size - k * ups /\ k * size \in Nat /\ k * ups \in Nat /\ k * down \in Nat
  BY <1>4
<1>8. v - UplinksBefore(c, v) = s.tile - UplinksBefore(c, s.tile) + s.numDownlinks + RemainingDownlinks(c, s)
  BY <1>1, <1>2, <1>3, <1>5, <1>6, <1>7
<1>9. s.tile <= v
  BY <1>1, <1>2, <1>3, <1>7
<1>10. TimesyncsFound(c, s) = NumTimesyncs(c, v) - NumTimesyncs(c, s.begin)
  BY DEF TimesyncsFound
<1> QED
  BY <1>1, <1>5, <1>6, <1>8, <1>9, <1>10

LEMMA LoopReaches ==
    ASSUME NEW c \in Networks, c.superframesPerSync > 1, CountDownlinkSlots(c) \in Nat \ {0},
           NEW s \in LoopState, s.tile % Size(c) = 0
    PROVE  ActivationLoop(c)[s] \in Nat /\ Reaches(c, s, ActivationLoop(c)[s])
<1> DEFINE I == {p \in LoopState \X Nat : p[1].tile % Size(c) = 0 => Reaches(c, p[1], p[2])}
<1>1. PICK down : down = CountDownlinkSlots(c) /\ down \in Nat \ {0} /\ (down >= 2 \/ c.superframesPerSync >= 2)
  <2>1. c.superframesPerSync \in Nat
    BY Configuration
  <2> QED
    BY <2>1
<1>2. Size(c) \in Nat \ {0}
  BY Configuration
<1>3. ASSUME NEW q \in LoopState, ~(TimesyncsFound(c, q) > RemainingDownlinks(c, q))
      PROVE  <<q, LoopOut(c, q)>> \in I
  <2>1. PICK v \in Nat : v = AfterSuperframes(c, q)
    BY <1>1, LoopPass
  <2>2. LoopOut(c, q) = IF IsTimesync(c, v) THEN v + Size(c) ELSE v
    BY <2>1 DEF LoopOut
  <2>3. LoopOut(c, q) \in Nat
    BY <1>2, <2>1, <2>2
  <2>4. ASSUME q.tile % Size(c) = 0 PROVE Reaches(c, q, LoopOut(c, q))
    <3>1. /\ q.tile <= v /\ v % Size(c) = 0
          /\ UplinksBefore(c, v) \in Nat /\ UplinksBefore(c, q.tile) \in Nat
          /\ NumTimesyncs(c, v) \in Nat /\ NumTimesyncs(c, q.begin) \in Nat
          /\ TimesyncsFound(c, q) = NumTimesyncs(c, v) - NumTimesyncs(c, q.begin)
          /\ RemainingDownlinks(c, q) \in Nat
          /\ v - UplinksBefore(c, v) = q.tile - UplinksBefore(c, q.tile) + q.numDownlinks + RemainingDownlinks(c, q)
      BY <1>1, <2>1, <2>4, PassReaches
    <3>2. q.tile \in Nat /\ q.numDownlinks \in Nat
      BY DEF LoopState
    <3>3. v - UplinksBefore(c, v) - NumTimesyncs(c, v)
            >= q.tile - UplinksBefore(c, q.tile) - NumTimesyncs(c, q.begin) + q.numDownlinks
      BY <1>3, <3>1, <3>2
    <3>4. IsTimesync(c, v) <=> TimesyncTile(c, v)
      BY NextNumTimesyncs DEF IsTimesync
    <3>5. CASE ~TimesyncTile(c, v)
      <4>1. LoopOut(c, q) = v
        BY <2>2, <3>4, <3>5
      <4> QED
        BY <3>1, <3>3, <3>5, <4>1 DEF Reaches, Starts
    <3>6. CASE TimesyncTile(c, v)
      <4>1. PICK w \in Nat : w = v + Size(c) /\ w = v + 1 * Size(c)
        BY <1>2
      <4>2. LoopOut(c, q) = w
        BY <2>2, <3>4, <3>6, <4>1
      <4>3. ~TimesyncTile(c, w)
        BY <3>6, <4>1, TimesyncsApart
      <4>4. w % Size(c) = 0 /\ UplinksBefore(c, w) = UplinksBefore(c, v) + CountUplinkSlots(c)
        <5>1. PICK one \in Nat : one = 1 /\ w = v + one * Size(c)
          BY <4>1
        <5>2. w % Size(c) = 0 /\ UplinksBefore(c, w) = UplinksBefore(c, v) + one * CountUplinkSlots(c)
          BY <3>1, <5>1, UplinksRound
        <5>3. CountUplinkSlots(c) \in Nat
          BY <1>2, NextCountUplinks DEF CountUplinkSlots
        <5> QED
          BY <5>1, <5>2, <5>3
      <4>5. NumTimesyncs(c, w) \in Nat /\ NumTimesyncs(c, w) <= NumTimesyncs(c, v) + 1
        <5>1. PICK one \in Nat : one = 1 /\ w = v + one * Size(c)
          BY <4>1
        <5>2. NumTimesyncs(c, v + one * Size(c)) \in Nat /\ Passed(c, v, one) \in 0..one
          BY TimesyncsPassed
        <5> QED
          BY <3>1, <5>1, <5>2 DEF Passed
      <4>6. CountDownlinkSlots(c) = Size(c) - CountUplinkSlots(c) /\ CountUplinkSlots(c) \in Nat
        BY <1>2, NextCountUplinks DEF CountUplinkSlots, CountDownlinkSlots
      <4>7. w - UplinksBefore(c, w) - NumTimesyncs(c, w) >= v - UplinksBefore(c, v) - NumTimesyncs(c, v)
        BY <1>1, <1>2, <3>1, <4>1, <4>4, <4>5, <4>6
      <4>8. w - UplinksBefore(c, w) - NumTimesyncs(c, w)
              >= q.tile - UplinksBefore(c, q.tile) - NumTimesyncs(c, q.begin) + q.numDownlinks
        BY <3>1, <3>2, <3>3, <4>4, <4>5, <4>6, <4>7
      <4>9. q.tile <= w
        BY <1>2, <3>1, <3>2, <4>1
      <4> QED
        BY <4>2, <4>3, <4>4, <4>8, <4>9 DEF Reaches, Starts
    <3> QED
      BY <3>5, <3>6
  <2> QED
    BY <2>3, <2>4
<1>4. ASSUME NEW q \in LoopState, NEW r \in Nat, TimesyncsFound(c, q) > RemainingDownlinks(c, q),
             <<LoopNext(c, q), r>> \in I
      PROVE  <<q, r>> \in I
  <2> SUFFICES ASSUME q.tile % Size(c) = 0 PROVE Reaches(c, q, r)
    OBVIOUS
  <2>1. PICK v : v = AfterSuperframes(c, q)
    OBVIOUS
  <2>2. /\ v \in Nat /\ q.tile <= v /\ v % Size(c) = 0
        /\ UplinksBefore(c, v) \in Nat /\ UplinksBefore(c, q.tile) \in Nat
        /\ NumTimesyncs(c, v) \in Nat /\ NumTimesyncs(c, q.begin) \in Nat
        /\ TimesyncsFound(c, q) = NumTimesyncs(c, v) - NumTimesyncs(c, q.begin)
        /\ RemainingDownlinks(c, q) \in Nat
        /\ v - UplinksBefore(c, v) = q.tile - UplinksBefore(c, q.tile) + q.numDownlinks + RemainingDownlinks(c, q)
    BY <1>1, <2>1, PassReaches
  <2>3. PICK e : e = LoopNext(c, q)
    OBVIOUS
  <2>4. /\ e.tile = v /\ e.begin = v
        /\ e.numDownlinks = TimesyncsFound(c, q) - RemainingDownlinks(c, q)
    BY <2>1, <2>3 DEF LoopNext
  <2>5. Reaches(c, e, r)
    BY <1>4, <2>2, <2>3, <2>4
  <2>6. q.tile \in Nat /\ q.numDownlinks \in Nat
    BY DEF LoopState
  <2>7. v <= r /\ Starts(c, r)
        /\ r - UplinksBefore(c, r) - NumTimesyncs(c, r)
              >= v - UplinksBefore(c, v) - NumTimesyncs(c, v) + (TimesyncsFound(c, q) - RemainingDownlinks(c, q))
    BY <2>4, <2>5 DEF Reaches
  <2>8. v - UplinksBefore(c, v) - NumTimesyncs(c, v) + (TimesyncsFound(c, q) - RemainingDownlinks(c, q))
          = q.tile - UplinksBefore(c, q.tile) - NumTimesyncs(c, q.begin) + q.numDownlinks
    BY <2>2, <2>6
  <2>9. q.tile <= r
    BY <2>2, <2>6, <2>7
  <2> QED
    BY <2>7, <2>8, <2>9 DEF Reaches
<1> HIDE DEF I
<1>5. \A q \in LoopState : ActivationLoop(c)[q] \in Nat /\ <<q, ActivationLoop(c)[q]>> \in I
  BY <1>1, <1>3, <1>4, ActivationLoopKeeps
<1> QED
  BY <1>5 DEF I

\* The tile of activation leaves the downlinks that the packets take.
LEMMA ActivationReaches ==
    ASSUME NEW c \in Networks, c.superframesPerSync > 1, NEW t \in Nat, DownlinkTile(c, t), ~TimesyncTile(c, t),
           NEW n \in Nat, NEW r, r = GetActivationTile(c, t, n)
    PROVE  /\ Starts(c, r) /\ t + 1 <= r
           /\ PacketDownlinks(c, r) >= PacketDownlinks(c, t + 1) + n
<1>1. CountDownlinkSlots(c) \in Nat \ {0}
  BY DownlinkSlots
<1>2. PICK first, aligned, left : first = t + 1 /\ aligned = Align(t + 1, Size(c)) /\ left = DownlinksLeft(c, t + 1)
  OBVIOUS
<1>3. first \in Nat
  BY <1>2
<1>4. PICK s : s = IF first % Size(c) = 0 THEN [tile |-> first, numDownlinks |-> n, begin |-> first]
                   ELSE [tile |-> aligned, numDownlinks |-> IF left > n THEN 0 ELSE n - left, begin |-> first]
  OBVIOUS
<1>5. r = ActivationLoop(c)[s]
  BY <1>2, <1>4 DEF GetActivationTile
<1>6. /\ UplinksBefore(c, first) \in Nat /\ NumTimesyncs(c, first) \in Nat
      /\ PacketDownlinks(c, first) = first - UplinksBefore(c, first) - NumTimesyncs(c, first)
  BY <1>3, NextUplink, NextNumTimesyncs, DownlinksAre
<1>7. /\ s \in LoopState /\ s.tile % Size(c) = 0 /\ first <= s.tile
      /\ s.tile - UplinksBefore(c, s.tile) - NumTimesyncs(c, s.begin) + s.numDownlinks
            >= PacketDownlinks(c, first) + n
  <2>1. CASE first % Size(c) = 0
    <3>1. s = [tile |-> first, numDownlinks |-> n, begin |-> first]
      BY <1>4, <2>1
    <3> QED
      BY <1>3, <1>6, <2>1, <3>1 DEF LoopState
  <2>2. CASE first % Size(c) # 0
    <3>1. s = [tile |-> aligned, numDownlinks |-> IF left > n THEN 0 ELSE n - left, begin |-> first]
      BY <1>4, <2>2
    <3>2. /\ left \in Nat /\ aligned \in Nat /\ first <= aligned /\ aligned % Size(c) = 0
          /\ aligned - UplinksBefore(c, aligned) = first - UplinksBefore(c, first) + left
      BY <1>2, <1>3, <2>2, RestOfSuperframe
    <3>3. UplinksBefore(c, aligned) \in Nat
      BY <3>2, NextUplink
    <3>4. PICK m : m \in Nat /\ m = IF left > n THEN 0 ELSE n - left
      <4>1. (IF left > n THEN 0 ELSE n - left) \in Nat
        BY <3>2
      <4> QED
        BY <4>1
    <3>5. left + m >= n
      BY <3>2, <3>4
    <3>6. s.tile = aligned /\ s.begin = first /\ s.numDownlinks = m /\ s \in LoopState
      BY <1>3, <3>1, <3>2, <3>4 DEF LoopState
    <3>7. aligned - UplinksBefore(c, aligned) - NumTimesyncs(c, first) + m >= PacketDownlinks(c, first) + n
      <4>1. PICK pd, uf, ua, nt : /\ pd = PacketDownlinks(c, first) /\ uf = UplinksBefore(c, first)
                                  /\ ua = UplinksBefore(c, aligned) /\ nt = NumTimesyncs(c, first)
        OBVIOUS
      <4>2. uf \in Nat /\ ua \in Nat /\ nt \in Nat /\ pd = first - uf - nt /\ aligned - ua = first - uf + left
        BY <1>6, <3>2, <3>3, <4>1
      <4>3. aligned - ua - nt + m >= pd + n
        BY <1>3, <3>2, <3>4, <3>5, <4>2
      <4> QED
        BY <4>1, <4>3
    <3> QED
      BY <3>2, <3>6, <3>7
  <2> QED
    BY <2>1, <2>2
<1>8. r \in Nat /\ Reaches(c, s, r)
  BY <1>1, <1>5, <1>7, LoopReaches
<1>9. PacketDownlinks(c, r) = r - UplinksBefore(c, r) - NumTimesyncs(c, r) /\ PacketDownlinks(c, r) \in Nat
      /\ UplinksBefore(c, r) \in Nat /\ NumTimesyncs(c, r) \in Nat
  BY <1>8, DownlinksAre, NextUplink, NextNumTimesyncs
<1>10. s.tile \in Nat /\ s.begin \in Nat /\ s.numDownlinks \in Nat
  BY <1>7 DEF LoopState
<1>11. UplinksBefore(c, s.tile) \in Nat /\ NumTimesyncs(c, s.begin) \in Nat /\ PacketDownlinks(c, first) \in Nat
  BY <1>3, <1>10, NextUplink, NextNumTimesyncs, DownlinksAre
<1>12. Starts(c, r) /\ s.tile <= r
       /\ r - UplinksBefore(c, r) - NumTimesyncs(c, r)
            >= s.tile - UplinksBefore(c, s.tile) - NumTimesyncs(c, s.begin) + s.numDownlinks
  BY <1>8 DEF Reaches
<1>13. PacketDownlinks(c, r) >= PacketDownlinks(c, first) + n
  BY <1>7, <1>9, <1>10, <1>11, <1>12
<1> QED
  BY <1>2, <1>3, <1>7, <1>8, <1>10, <1>12, <1>13

\* The beginning of the old schedule is one of a superframe too, and when it is a
\* timesync the next beginning is none: the old schedule did not begin with one.
LEMMA AlignedReaches ==
    ASSUME NEW c \in Networks, NEW t, Starts(c, t), NEW a, Starts(c, a), NEW b \in Nat \ {0}, b % Size(c) = 0,
           NEW r, r = AlignedActivation(c, t, a, b)
    PROVE  Starts(c, r) /\ t <= r
<1>1. PICK s, p : s = Size(c) /\ p = TilesPerTimesync(c)
  OBVIOUS
<1>2. s \in Nat \ {0} /\ p \in Nat \ {0} /\ t \in Nat /\ a \in Nat /\ a % s = 0 /\ a % p # 0 /\ b % s = 0
  BY <1>1, Configuration DEF Starts, TimesyncTile
<1>3. PICK x, k, m : x = t - a + b - 1 /\ k = x \div b /\ m = a + k * b
  OBVIOUS
<1>4. x \in Int /\ k \in Int /\ x % b \in 0..(b - 1) /\ x = b * k + (x % b)
  <2>1. x \in Int
    BY <1>2, <1>3
  <2> QED
    BY <1>3, <2>1, IntDivMod
<1>5. k * b = b * k /\ k * b \in Int
  BY <1>4
<1>6. m \in Nat /\ t <= m
  <2>1. PICK y \in 0..(b - 1) : x = k * b + y
    BY <1>4, <1>5
  <2> QED
    BY <1>2, <1>3, <1>5, <2>1
<1>7. a + Align(t - a, b) = m
  BY <1>3 DEF Align
<1>8. r = IF IsTimesync(c, m) THEN m + b ELSE m
  BY <1>7 DEF AlignedActivation
<1>9. IsTimesync(c, m) <=> m % p = 0
  BY <1>1, <1>6, NextNumTimesyncs DEF IsTimesync, TimesyncTile
<1>10. PICK i, j : i = a \div s /\ j = b \div s
  OBVIOUS
<1>11. i \in Nat /\ j \in Nat /\ a = s * i /\ b = s * j
  BY <1>2, <1>10, DivMod
<1>12. m % s = 0 /\ (m + b) % s = 0
  <2>1. i + k * j \in Int /\ i + k * j + j \in Int /\ 0 \in 0..(s - 1)
    BY <1>2, <1>4, <1>11
  <2>2. k * (s * j) = s * (k * j)
    BY <1>2, <1>4, <1>11
  <2>3. s * (i + k * j) = s * i + s * (k * j) /\ s * (i + k * j + j) = s * i + s * (k * j) + s * j
    BY <1>2, <1>4, <1>11
  <2>4. m = s * (i + k * j) + 0 /\ m + b = s * (i + k * j + j) + 0
    BY <1>2, <1>3, <1>5, <1>6, <1>11, <2>1, <2>2, <2>3
  <2>5. PICK d, e, z : d = i + k * j /\ e = i + k * j + j /\ z = 0
    OBVIOUS
  <2>6. (s * d + z) % s = z /\ (s * e + z) % s = z
    BY <1>2, <2>1, <2>5, IntDivModUnique
  <2> QED
    BY <2>4, <2>5, <2>6
<1>13. CASE m % p # 0
  <2>1. r = m
    BY <1>8, <1>9, <1>13
  <2> QED
    BY <1>1, <1>6, <1>12, <1>13, <2>1 DEF Starts, TimesyncTile
<1>14. CASE m % p = 0
  <2>1. r = m + b /\ r \in Nat /\ t <= r
    BY <1>2, <1>6, <1>8, <1>9, <1>14
  <2>2. (m + b) % p # 0
    <3> SUFFICES ASSUME (m + b) % p = 0 PROVE FALSE
      OBVIOUS
    <3>1. PICK u : u \in Nat /\ m = p * u
      <4>1. m \div p \in Nat /\ m = p * (m \div p) + (m % p)
        BY <1>2, <1>6, DivMod
      <4> QED
        BY <1>2, <1>14, <4>1
    <3>2. PICK v : v \in Nat /\ m + b = p * v
      <4>1. PICK z \in Nat : z = m + b
        BY <1>6
      <4>2. z \div p \in Nat /\ z = p * (z \div p) + (z % p) /\ z % p = 0
        BY <1>2, <4>1, DivMod
      <4> QED
        BY <1>2, <4>1, <4>2
    <3>3. b = p * (v - u) /\ v - u \in Int
      BY <1>2, <1>6, <3>1, <3>2
    <3>4. PICK w \in Int : w = v - u
      BY <3>3
    <3>5. a = m - k * b
      BY <1>2, <1>3, <1>5, <1>6
    <3>6. k * b = p * (k * w)
      BY <1>2, <1>4, <3>3, <3>4
    <3>7. a = p * (u - k * w) + 0 /\ u - k * w \in Int /\ 0 \in 0..(p - 1)
      BY <1>2, <1>4, <3>1, <3>4, <3>5, <3>6
    <3>8. a % p = 0
      BY <1>2, <3>7, IntDivModUnique
    <3> QED
      BY <1>2, <3>8
  <2> QED
    BY <1>1, <1>12, <2>1, <2>2 DEF Starts, TimesyncTile
<1> QED
  BY <1>13, <1>14

-----------------------------------------------------------------------------
(***************************************************************************)
(* Schedules start on time.                                                *)
(***************************************************************************)

\* Schedules last for whole superframes.
LEMMA MultipleOfMultiple ==
    ASSUME NEW a \in Nat, NEW b \in Nat \ {0}, a % b = 0, NEW k \in Nat
    PROVE  (a * k) % b = 0
<1>1. PICK q : q \in Nat /\ a = b * q
  <2>1. PICK q : q = a \div b
    OBVIOUS
  <2>2. q \in Nat /\ a = b * q + 0
    BY <2>1, DivMod
  <2>3. a = b * q
    BY <2>2
  <2> QED
    BY <2>2, <2>3, Zenon
<1>2. q * k \in Nat /\ (b * q) * k = b * (q * k)
  BY <1>1, Associative
<1>3. PICK m : m \in Nat /\ m = q * k /\ a * k = b * m + 0
  BY <1>1, <1>2
<1>4. (b * m + 0) % b = 0
  <2>1. 0 \in 0..(b - 1)
    OBVIOUS
  <2> QED
    BY <1>3, <2>1, DivModUnique
<1> QED
  BY <1>3, <1>4

LEMMA OneByte ==
    ASSUME NEW x \in Nat
    PROVE  x % 2^8 \in Nat /\ (x < 2^8 => x % 2^8 = x)
<1>1. PICK k : k \in Nat \ {0} /\ k = 2^8
  OBVIOUS
<1>2. x % k \in Nat
  BY <1>1, DivMod
<1>3. ASSUME x < k PROVE x % k = x
  <2>1. x \in 0..(k - 1) /\ x = k * 0 + x
    BY <1>1, <1>3
  <2> QED
    BY <1>1, <2>1, DivModUnique
<1> QED
  BY <1>1, <1>2, <1>3

\* The schedule that the scheduler makes lasts for whole superframes if the last
\* one did.
LEMMA NewScheduleWhole ==
    ASSUME net \in Networks, DistributionTypes, PublishedNumbers, published.tiles % Size(net) = 0
    PROVE  NewSchedule.tiles % Size(net) = 0
<1>1. PICK s \in Seq(AllTransmissions(net)) : NewSchedule = WithLinks(s)
  BY NewScheduleNumbers
<1>2. PICK start : start = IF sch.graphChanged THEN Size(net) ELSE published.tiles
  OBVIOUS
<1>3. NewSchedule.tiles = TilesFor(s, start)
  BY <1>1, <1>2 DEF WithLinks
<1>4. PICK size : size \in Nat \ {0} /\ size = Size(net)
  BY Configuration
<1>5. start \in Nat \ {0} /\ start % size = 0
  <2>1. size % size = 0
    <3>1. size = size * 1 + 0 /\ 0 \in 0..(size - 1)
      BY <1>4
    <3> QED
      BY <1>4, <3>1, DivModUnique
  <2> QED
    BY <1>2, <1>4, <2>1 DEF PublishedNumbers
<1>6. PICK k \in Nat : TilesFor(s, start) = start * k
  BY <1>5, TilesTyped
<1>7. (start * k) % size = 0
  BY <1>4, <1>5, MultipleOfMultiple
<1> QED
  BY <1>3, <1>4, <1>6, <1>7

LEMMA SchedulerKeepsWhole ==
    ASSUME net \in Networks, DistributionTypes, PublishedNumbers, Scheduler, WholeSuperframes
    PROVE  WholeSuperframes'
<1>1. net' = net /\ md' = md
  BY DEF Scheduler, SchedWake, SchedSnapshot, SchedGraph, SchedWriteBack, SchedCompute, SchedPublish, SchedOnly
<1>2. published.tiles % Size(net) = 0 /\ (sch.pc = "publish" => sch.new.tiles % Size(net) = 0)
      /\ md.header.tiles % Size(net) = 0
  BY DEF WholeSuperframes
<1>3. ASSUME NEW applied, published' = [published EXCEPT !.notApplied = applied] PROVE published'.tiles = published.tiles
  BY <1>3 DEF PublishedNumbers, PublishedFields
<1>4. ASSUME published'.tiles = published.tiles, sch'.pc # "publish" PROVE WholeSuperframes'
  BY <1>1, <1>2, <1>4 DEF WholeSuperframes
<1>5. CASE SchedWake
  BY <1>3, <1>4, <1>5 DEF SchedWake
<1>6. CASE SchedSnapshot
  BY <1>4, <1>6 DEF SchedSnapshot
<1>7. CASE SchedGraph
  BY <1>4, <1>7 DEF SchedGraph
<1>8. CASE SchedWriteBack
  <2>1. published' = published /\ sch' = [sch EXCEPT !.pc = "compute"] /\ "pc" \in DOMAIN sch
    BY <1>8 DEF SchedWriteBack, DistributionTypes, SchedulerTyped
  <2> QED
    BY <1>4, <2>1
<1>9. CASE SchedCompute
  <2>1. CASE sch.graphChanged \/ sch.added
    <3>1. Told(NewSchedule)
      BY <1>9, <2>1 DEF SchedCompute
    <3>2. published' = published /\ sch'.new = NewSchedule
      BY <3>1 DEF Told
    <3>3. NewSchedule.tiles % Size(net) = 0
      BY <1>2, NewScheduleWhole
    <3> QED
      BY <1>1, <1>2, <3>2, <3>3 DEF WholeSuperframes
  <2>2. CASE ~(sch.graphChanged \/ sch.added)
    BY <1>3, <1>4, <1>9, <2>2 DEF SchedCompute
  <2> QED
    BY <2>1, <2>2
<1>10. CASE SchedPublish
  <2>1. published' = sch.new /\ sch.pc = "publish" /\ sch'.pc = "waiting"
    BY <1>10 DEF SchedPublish, Thread
  <2> QED
    BY <1>1, <1>2, <2>1 DEF WholeSuperframes
<1> QED
  BY <1>5, <1>6, <1>7, <1>8, <1>9, <1>10 DEF Scheduler

\* The header that the master makes.
LEMMA NewHeaderReaches ==
    ASSUME NEW c \in Networks, c.superframesPerSync > 1, ScheduleRepetitions < 2^8,
           NEW S, NEW schedule \in Seq(S), PacketsFor(c, schedule) < 2^16,
           NEW last, HeaderTyped(last), last.tiles % Size(c) = 0, last.tiles > 0 => Starts(c, last.activation),
           NEW id, NEW tiles \in Nat \ {0}, tiles < 2^16,
           NEW t \in Nat, DownlinkTile(c, t), ~TimesyncTile(c, t),
           NEW h, h = NewHeader(c, last, schedule, id, tiles, t)
    PROVE  /\ h.tiles = tiles /\ h.repetition = 0
           /\ Starts(c, h.activation) /\ t + 1 <= h.activation
           /\ PacketDownlinks(c, h.activation) >= PacketDownlinks(c, t + 1) + PacketsLeft(h)
<1>1. PICK packets : packets \in Nat \ {0} /\ packets = PacketsFor(c, schedule)
  BY PacketsAreEnough
<1>2. PICK n : n \in Nat /\ n = ScheduleRepetitions * packets
  BY <1>1, RepetitionsAssumption
<1>3. PICK earliest : earliest = GetActivationTile(c, t, n)
  OBVIOUS
<1>4. /\ Starts(c, earliest) /\ t + 1 <= earliest
      /\ PacketDownlinks(c, earliest) >= PacketDownlinks(c, t + 1) + n
  BY <1>2, <1>3, ActivationReaches
<1>5. PICK activation : activation = IF last.tiles > 0
                                     THEN AlignedActivation(c, earliest, last.activation, last.tiles) ELSE earliest
  OBVIOUS
<1>6. h = ScheduleHeader(packets, 0, id, activation, tiles, 0)
  BY <1>1, <1>2, <1>3, <1>5 DEF NewHeader
<1>7. Starts(c, activation) /\ earliest <= activation
  <2>1. last.tiles \in Nat
    BY DEF HeaderTyped
  <2>2. CASE last.tiles > 0
    BY <1>4, <1>5, <2>1, <2>2, AlignedReaches
  <2>3. CASE ~(last.tiles > 0)
    BY <1>4, <1>5, <2>3 DEF Starts
  <2> QED
    BY <2>2, <2>3
<1>8. earliest \in Nat /\ activation \in Nat
  BY <1>4, <1>7 DEF Starts
<1>9. PacketDownlinks(c, earliest) <= PacketDownlinks(c, activation)
  BY <1>7, <1>8, DownlinksGrow
<1>10. packets % 2^16 = packets /\ tiles % 2^16 = tiles
  BY <1>1, TwoBytes
<1>11. 0 % 2^16 = 0 /\ 0 % 2^8 = 0
  OBVIOUS
<1>12. /\ h.activation = activation /\ h.tiles = tiles /\ h.total = packets /\ h.current = 0 /\ h.repetition = 0
  BY <1>6, <1>10, <1>11 DEF ScheduleHeader
<1>13. PacketsLeft(h) = n
  <2>1. PICK r : r \in Nat /\ r = ScheduleRepetitions
    BY RepetitionsAssumption
  <2>2. n = r * packets
    BY <1>2, <2>1
  <2>3. ((r - 0) * packets) - 0 = n
    BY <1>1, <1>2, <2>1, <2>2
  <2>4. PacketsLeft(h) = ((r - 0) * packets) - 0
    BY <1>12, <2>1 DEF PacketsLeft
  <2>5. PICK left : left = PacketsLeft(h)
    OBVIOUS
  <2> QED
    BY <2>3, <2>4, <2>5
<1>14. PacketDownlinks(c, t + 1) \in Nat /\ PacketDownlinks(c, earliest) \in Nat /\ PacketDownlinks(c, activation) \in Nat
  <2>1. PICK u : u \in Nat /\ u = t + 1
    OBVIOUS
  <2>2. PacketDownlinks(c, u) \in Nat
    BY <2>1, DownlinksAre
  <2> QED
    BY <1>8, <2>1, <2>2, DownlinksAre
<1>15. PacketDownlinks(c, activation) >= PacketDownlinks(c, t + 1) + PacketsLeft(h)
  BY <1>2, <1>4, <1>9, <1>13, <1>14
<1> QED
  BY <1>4, <1>7, <1>8, <1>12, <1>15

\* A packet that is sent is one less to send.
LEMMA PacketsLeftAfter ==
    ASSUME NEW h, NEW g, NEW total \in Nat \ {0}, h.total = total, g.total = total,
           NEW k, k \in 0..(total - 1), h.current = k, NEW rep \in Nat, h.repetition = rep, rep < ScheduleRepetitions,
           IF k + 1 < total THEN g.current = k + 1 /\ g.repetition = rep
           ELSE g.current = 0 /\ g.repetition = rep + 1
    PROVE  PacketsLeft(h) \in Nat \ {0} /\ PacketsLeft(g) = PacketsLeft(h) - 1
<1>1. PICK m : m \in Nat /\ ScheduleRepetitions - rep = m + 1
  <2>1. PICK m : m = ScheduleRepetitions - rep - 1
    OBVIOUS
  <2>2. m \in Nat /\ ScheduleRepetitions - rep = m + 1
    BY <2>1, RepetitionsAssumption
  <2> QED
    BY <2>2
<1>2. PICK p : p \in Nat /\ p = m * total
  BY <1>1
<1>3. PacketsLeft(h) = p + total - k
  BY <1>1, <1>2 DEF PacketsLeft
<1>4. CASE k + 1 < total
  <2>1. PacketsLeft(g) = p + total - (k + 1)
    BY <1>1, <1>2, <1>4 DEF PacketsLeft
  <2> QED
    BY <1>2, <1>3, <2>1
<1>5. CASE ~(k + 1 < total)
  <2>1. ScheduleRepetitions - (rep + 1) = m
    BY <1>1, RepetitionsAssumption
  <2>2. PacketsLeft(g) = p - 0
    BY <1>2, <1>5, <2>1 DEF PacketsLeft
  <2> QED
    BY <1>2, <1>3, <1>5, <2>2
<1> QED
  BY <1>4, <1>5

\* A downlink that is not a timesync is one more for packets.
LEMMA NextDownlinks ==
    ASSUME NEW c \in Networks, NEW t \in Nat
    PROVE  PacketDownlinks(c, t + 1) =
                PacketDownlinks(c, t) + (IF DownlinkTile(c, t) /\ ~TimesyncTile(c, t) THEN 1 ELSE 0)
<1>1. PICK u : u \in Nat /\ u = t + 1
  OBVIOUS
<1>2. /\ PacketDownlinks(c, t) = t - UplinksBefore(c, t) - NumTimesyncs(c, t)
      /\ PacketDownlinks(c, u) = u - UplinksBefore(c, u) - NumTimesyncs(c, u)
  BY <1>1, DownlinksAre
<1>3. /\ UplinksBefore(c, t) \in Nat
      /\ UplinksBefore(c, u) = UplinksBefore(c, t) + (IF DownlinkTile(c, t) THEN 0 ELSE 1)
  BY <1>1, NextUplink
<1>4. /\ NumTimesyncs(c, t) \in Nat
      /\ NumTimesyncs(c, u) = NumTimesyncs(c, t) + (IF TimesyncTile(c, t) THEN 1 ELSE 0)
  BY <1>1, NextNumTimesyncs
<1>5. TimesyncTile(c, t) => DownlinkTile(c, t)
  BY TimesyncIsDownlink
<1>6. PacketDownlinks(c, u) =
            PacketDownlinks(c, t) + (IF DownlinkTile(c, t) /\ ~TimesyncTile(c, t) THEN 1 ELSE 0)
  BY <1>1, <1>2, <1>3, <1>4, <1>5
<1> QED
  BY <1>1, <1>6

LEMMA OnTimeInit == Init => OnTimeInv
<1> SUFFICES ASSUME Init PROVE OnTimeInv
  OBVIOUS
<1>1. /\ published.tiles = Size(net) /\ sch.pc = "waiting" /\ net \in Networks
      /\ md.header = NoHeader /\ md.status = "APPLIED_SCHEDULE"
  BY DEF Init, MasterDistribution
<1>2. 0 % 2^16 = 0 /\ 0 % 2^8 = 0
  OBVIOUS
<1>3. NoHeader.tiles = 0 /\ NoHeader.repetition = 0
  BY <1>2 DEF NoHeader, ScheduleHeader
<1>4. Size(net) \in Nat \ {0}
  BY <1>1, Configuration
<1>5. Size(net) % Size(net) = 0 /\ 0 % Size(net) = 0
  <2>1. PICK s \in Nat \ {0} : s = Size(net)
    BY <1>4
  <2>2. s = s * 1 + 0 /\ 0 = s * 0 + 0 /\ 0 \in 0..(s - 1)
    BY <2>1
  <2>3. (s * 1 + 0) % s = 0 /\ (s * 0 + 0) % s = 0
    BY <2>2, DivModUnique
  <2> QED
    BY <2>1, <2>2, <2>3
<1>6. WholeSuperframes
  BY <1>1, <1>3, <1>5 DEF WholeSuperframes
<1> QED
  BY <1>1, <1>3, <1>6 DEF OnTimeInv, Sending

\* In a timesync and in an uplink the master sends nothing, and no schedule starts.
LEMMA TileOnTime ==
    ASSUME TimeInv, OnTimeInv, UNCHANGED <<net, md, published, sch>>, tile' = tile + 1,
           TimesyncTile(net, tile) \/ ~DownlinkTile(net, tile)
    PROVE  OnTimeInv'
<1>1. net \in Networks /\ tile \in Nat
  BY DEF TimeInv
<1>2. PICK act : act = md.header.activation
  OBVIOUS
<1>3. PacketDownlinks(net, tile + 1) = PacketDownlinks(net, tile)
  <2>1. PacketDownlinks(net, tile) \in Nat
    BY <1>1, DownlinksAre
  <2> QED
    BY <1>1, <2>1, NextDownlinks
<1>4. ASSUME md.status # "APPLIED_SCHEDULE" PROVE tile + 1 <= act
  <2>1. Starts(net, act) /\ tile <= act /\ act \in Nat
    BY <1>2, <1>4 DEF OnTimeInv, Starts
  <2>2. DownlinkTile(net, act) /\ ~TimesyncTile(net, act)
    BY <1>1, <2>1, Configuration DEF Starts, DownlinkTile
  <2>3. tile # act
    BY <2>2
  <2> QED
    BY <1>1, <2>1, <2>3
<1>5. WholeSuperframes'
  BY DEF OnTimeInv, WholeSuperframes
<1> QED
  BY <1>2, <1>3, <1>4, <1>5 DEF OnTimeInv, Sending

\* The master in a downlink.
LEMMA DownlinkOnTime ==
    ASSUME TimeInv, DistributionTypes, NumbersInv, SendingInv, MasterStatus, HeaderFits, HeaderFits', TimesFit,
           OnTimeInv, DownlinkPhase, NEW pkt, NEW got, DownlinkStep(pkt, got)
    PROVE  OnTimeInv'
<1>1. /\ net \in Networks /\ net' = net /\ sch' = sch /\ tile \in Nat /\ tile' = tile + 1
      /\ DownlinkTile(net, tile) /\ ~TimesyncTile(net, tile)
  BY DEF TimeInv, DownlinkPhase, TimePasses
<1>2. /\ MasterFields(net, md) /\ HeaderTyped(md.header) /\ published.schedule \in Seq(AllTransmissions(net))
      /\ published.tiles \in Nat \ {0}
  BY DEF DistributionTypes, MasterTyped, PublishedTyped, NumbersInv, PublishedNumbers
<1>3. published'.tiles = published.tiles
  BY DEF DownlinkStep, ScheduleSentAndApplied, NumbersInv, PublishedNumbers, PublishedFields
<1>4. /\ published.tiles % Size(net) = 0 /\ md.header.tiles % Size(net) = 0 /\ md.header.repetition \in Nat
      /\ md.header.tiles > 0 => Starts(net, md.header.activation)
  BY DEF OnTimeInv, WholeSuperframes
<1>5. ASSUME md'.header.tiles % Size(net) = 0 PROVE WholeSuperframes'
  BY <1>1, <1>3, <1>4, <1>5 DEF OnTimeInv, WholeSuperframes
<1>6. PacketDownlinks(net, tile) \in Nat /\ PacketDownlinks(net, tile + 1) = PacketDownlinks(net, tile) + 1
  BY <1>1, DownlinksAre, NextDownlinks
<1>7. CASE md.status = "APPLIED_SCHEDULE" /\ md' = md
  <2>1. WholeSuperframes'
    BY <1>4, <1>5, <1>7
  <2>2. md'.status = "APPLIED_SCHEDULE" /\ md'.header = md.header
    BY <1>7
  <2>3. md'.header.tiles > 0 => Starts(net, md'.header.activation)
    BY <1>4, <2>2
  <2> QED
    BY <1>1, <1>4, <2>1, <2>2, <2>3 DEF OnTimeInv, Sending
<1>8. CASE md.status = "APPLIED_SCHEDULE" /\ md' # md
  <2>1. /\ md'.status = "SENDING_SCHEDULE" /\ md'.schedule = published.schedule
        /\ md'.header = NewHeader(net, md.header, published.schedule, published.id, published.tiles, tile)
    BY <1>8, MasterInDownlink
  <2>2. PacketsFor(net, published.schedule) < 2^16
    BY <1>1, <2>1 DEF HeaderFits
  <2>3. /\ md'.header.tiles = published.tiles /\ md'.header.repetition = 0
        /\ Starts(net, md'.header.activation) /\ tile + 1 <= md'.header.activation
        /\ PacketDownlinks(net, md'.header.activation) >= PacketDownlinks(net, tile + 1) + PacketsLeft(md'.header)
    BY <1>1, <1>2, <1>4, <2>1, <2>2, NewHeaderReaches DEF TimesFit
  <2>4. WholeSuperframes'
    BY <1>4, <1>5, <2>3
  <2>5. OnTimeInv'
    BY <1>1, <1>2, <2>3, <2>4 DEF OnTimeInv
  <2> QED
    BY <2>5
<1>9. CASE Sending(md)
  <2>1. md.status = "SENDING_SCHEDULE" /\ md' = PacketSent(net, md)
    BY <1>9, MasterInDownlink DEF Sending
  <2>2. PICK total, k, rep, h, g : /\ h = md.header /\ g = md'.header
                                   /\ total = h.total /\ k = h.current /\ rep = h.repetition
    OBVIOUS
  <2>3. /\ total \in Nat \ {0} /\ total < 2^16 /\ k \in 0..(total - 1)
    <3>1. total = PacketsFor(net, md.schedule) /\ k \in 0..(total - 1)
      BY <2>1, <2>2 DEF SendingInv
    <3>2. PacketsFor(net, md.schedule) \in Nat \ {0}
      BY <1>1, <1>2, PacketsAreEnough DEF MasterFields
    <3> QED
      BY <3>1, <3>2 DEF HeaderFits
  <2>4. rep \in Nat /\ rep < ScheduleRepetitions
    BY <1>4, <1>9, <2>2 DEF Sending
  <2>5. (k + 1) % 2^16 = k + 1
    <3>1. PICK b \in Nat : b = 2^16
      OBVIOUS
    <3>2. k + 1 \in Nat /\ k + 1 < b
      BY <2>3, <3>1
    <3> QED
      BY <3>1, <3>2, TwoBytes
  <2>6. (rep + 1) % 2^8 = rep + 1
    <3>1. PICK b \in Nat : b = 2^8
      OBVIOUS
    <3>2. rep + 1 \in Nat /\ rep + 1 < b
      BY <2>4, <3>1, RepetitionsAssumption DEF TimesFit
    <3> QED
      BY <3>1, <3>2, OneByte
  <2>7. /\ md'.status = md.status /\ g.activation = h.activation /\ g.tiles = h.tiles /\ g.total = total
        /\ IF k + 1 < total THEN g.current = k + 1 /\ g.repetition = rep
           ELSE g.current = 0 /\ g.repetition = rep + 1
    BY <1>1, <1>2, <2>1, <2>2, <2>5, <2>6, PacketSentIs
  <2>8. PacketsLeft(h) \in Nat \ {0} /\ PacketsLeft(g) = PacketsLeft(h) - 1
    BY <2>2, <2>3, <2>4, <2>7, PacketsLeftAfter
  <2>9. PICK act : act = h.activation
    OBVIOUS
  <2>10. /\ Starts(net, act) /\ tile <= act /\ act \in Nat /\ h.tiles > 0
         /\ PacketDownlinks(net, act) >= PacketDownlinks(net, tile) + PacketsLeft(h)
    BY <1>9, <2>1, <2>2, <2>9 DEF OnTimeInv, Starts
  <2>11. PacketDownlinks(net, act) \in Nat
    BY <1>1, <2>10, DownlinksAre
  <2>12. PacketDownlinks(net, act) >= PacketDownlinks(net, tile + 1) + PacketsLeft(g)
    BY <1>6, <2>8, <2>10, <2>11
  <2>13. tile + 1 <= act
    <3>1. tile # act
      BY <1>6, <2>8, <2>10, <2>11
    <3> QED
      BY <1>1, <2>10, <3>1
  <2>14. g.repetition \in Nat
    BY <2>4, <2>7
  <2>15. WholeSuperframes'
    BY <1>4, <1>5, <2>2, <2>7
  <2> QED
    BY <1>1, <2>2, <2>7, <2>9, <2>10, <2>12, <2>13, <2>14, <2>15 DEF OnTimeInv
<1>10. CASE md.status # "APPLIED_SCHEDULE" /\ ~Sending(md)
  <2>1. md'.header = md.header /\ md'.status \in {"APPLIED_SCHEDULE", "AWAITING_ACTIVATION"}
    BY <1>10, MasterInDownlink
  <2>2. ~(md'.status = "SENDING_SCHEDULE") /\ ~Sending(md)'
    BY <2>1 DEF Sending
  <2>3. PICK act : act = md.header.activation
    OBVIOUS
  <2>4. Starts(net, act) /\ tile <= act /\ act \in Nat /\ md.header.tiles > 0
    BY <1>10, <2>3 DEF OnTimeInv, Starts
  <2>5. ASSUME md'.status # "APPLIED_SCHEDULE" PROVE tile + 1 <= act
    <3>1. md' = MasterExecute(net, md, published, tile)
      BY MasterInDownlink
    <3>2. ~MasterActivates(md, tile)
      <4> SUFFICES ASSUME MasterActivates(md, tile) PROVE FALSE
        OBVIOUS
      <4>1. md' = [md EXCEPT !.status = "APPLIED_SCHEDULE"]
        BY <1>10, <3>1 DEF MasterExecute
      <4> QED
        BY <1>2, <2>5, <4>1 DEF MasterFields
    <3>3. ~(tile >= act)
      BY <1>10, <2>3, <3>2 DEF MasterActivates, MasterStatus
    <3> QED
      BY <1>1, <2>4, <3>3
  <2>6. WholeSuperframes'
    BY <1>4, <1>5, <2>1
  <2> QED
    BY <1>1, <1>4, <2>1, <2>2, <2>3, <2>4, <2>5, <2>6 DEF OnTimeInv
<1> QED
  BY <1>7, <1>8, <1>9, <1>10 DEF Sending

LEMMA OnTimeNext ==
    ASSUME TimeInv, DistributionTypes, NumbersInv, SendingInv, MasterStatus, HeaderFits, HeaderFits', TimesFit,
           OnTimeInv, [Next]_vars
    PROVE  OnTimeInv'
<1>1. CASE DownlinkPhase
  <2>1. PICK pkt, got : DownlinkStep(pkt, got)
    BY <1>1, OnePacketOnAir DEF TimeInv
  <2> QED
    BY <1>1, <2>1, DownlinkOnTime
<1>2. CASE TimesyncPhase
  BY <1>2, TileOnTime DEF TimesyncPhase, TimePasses, schedVars
<1>3. CASE UplinkPhaseStep
  BY <1>3, TileOnTime DEF UplinkPhaseStep, TimePasses
<1>4. CASE ~TimesyncPhase /\ ~DownlinkPhase /\ ~UplinkPhaseStep
  <2>1. UNCHANGED <<net, tile, md>>
    BY <1>4, OtherStepsTakeNoTime
  <2>2. WholeSuperframes'
    <3>1. CASE Scheduler
      BY <3>1, SchedulerKeepsWhole DEF TimeInv, NumbersInv, OnTimeInv
    <3>2. CASE ~Scheduler
      <4>1. UNCHANGED <<published, sch>>
        BY <1>4, <3>2 DEF Next, Connect, LinksChange, RateChanges, vars, schedVars
      <4> QED
        BY <2>1, <4>1 DEF OnTimeInv, WholeSuperframes
    <3> QED
      BY <3>1, <3>2
  <2> QED
    BY <2>1, <2>2 DEF OnTimeInv, Sending
<1> QED
  BY <1>1, <1>2, <1>3, <1>4

\* Who starts a schedule: the master, and the nodes that wait for the same tile.
LEMMA MasterStartsOnTime ==
    ASSUME TimeInv, DistributionTypes, NumbersInv, OnTimeInv, [Next]_vars,
           md.status # "APPLIED_SCHEDULE", md'.status = "APPLIED_SCHEDULE"
    PROVE  tile = md.header.activation /\ tile % Size(net) = 0
<1>1. DownlinkPhase
  BY OtherStepsTakeNoTime DEF TimesyncPhase, UplinkPhaseStep
<1>2. PICK pkt, got : DownlinkStep(pkt, got)
  BY <1>1, OnePacketOnAir DEF TimeInv
<1>3. md' = MasterExecute(net, md, published, tile) /\ tile \in Nat
  BY <1>1, <1>2, MasterInDownlink
<1>4. MasterActivates(md, tile)
  <2>1. net \in Networks /\ MasterFields(net, md) /\ published.schedule \in Seq(AllTransmissions(net))
    BY DEF TimeInv, DistributionTypes, MasterTyped, PublishedTyped
  <2> QED
    BY <1>3, <2>1, MasterExecuteKeeps
<1>5. tile >= md.header.activation
  BY <1>4 DEF MasterActivates
<1>6. tile <= md.header.activation /\ Starts(net, md.header.activation)
  BY DEF OnTimeInv
<1> QED
  BY <1>3, <1>5, <1>6 DEF Starts

LEMMA NodeStartsOnTime ==
    ASSUME TimeInv, DistributionTypes, ScheduleInv, NumbersInv, OnTimeInv, [Next]_vars, NEW n \in Dynamic,
           dist[n].status = "SENDING_SCHEDULE", dist'[n].status = "APPLIED_SCHEDULE", n \in InTime
    PROVE  tile = dist[n].header.activation \/ sync'[n].status = "DESYNCHRONIZED"
<1>1. CASE DownlinkPhase
  <2>1. PICK pkt, got : /\ {"header", "elements"} \subseteq DOMAIN pkt
                        /\ got \subseteq Listening /\ DownlinkStep(pkt, got)
    BY <1>1, OnePacketOnAir DEF TimeInv
  <2>2. NodeFields(dist[n])
    BY DEF DistributionTypes, NodesTyped
  <2>3. Activating(n)
    <3> SUFFICES ASSUME ~Activating(n) PROVE FALSE
      OBVIOUS
    <3>1. CASE n \in got
      <4>1. dist'[n] = NodeReceives(net, dist[n], pkt)
        BY <2>1, <3>1, NodeInDownlink
      <4> QED
        BY <2>1, <2>2, <4>1, ReceivesKeeps
    <3>2. CASE n \notin got
      <4>1. dist'[n] \in {dist[n], NodeHearsNothing(net, dist[n])}
        BY <2>1, <3>2, NodeInDownlink
      <4> QED
        BY <2>2, <4>1, HearsNothingKeeps
    <3> QED
      BY <3>1, <3>2
  <2>4. NodeTile(n) = tile /\ tile \in Nat
    BY <1>1, <2>1, SameTile, MasterInDownlink
  <2>5. tile >= dist[n].header.activation
    BY <2>3, <2>4 DEF Activating, Activates
  <2>6. md.status # "APPLIED_SCHEDULE" /\ dist[n].header.activation = md.header.activation
    BY NodeAwaits DEF AwaitsActivation
  <2>7. tile <= md.header.activation /\ md.header.activation \in Nat
    BY <2>6 DEF OnTimeInv, Starts
  <2> QED
    BY <2>4, <2>5, <2>6, <2>7
<1>2. CASE TimesyncPhase
  <2>1. PICK deaf : TimesyncStep(deaf)
    BY <1>2 DEF TimesyncPhase
  <2>2. PICK wave : wave = TimesyncWave(deaf)
    OBVIOUS
  <2>3. n \in Nodes /\ n # 0
    BY DEF Dynamic
  <2>4. sync'[n] = AfterTimesync(wave, n)
    BY <2>1, <2>2, <2>3 DEF TimesyncStep
  <2>5. dist'[n] # dist[n]
    OBVIOUS
  <2>6. ~Synchronized(AfterTimesync(wave, n))
    BY <2>1, <2>2, <2>5 DEF TimesyncStep
  <2> QED
    BY <2>4, <2>6 DEF Synchronized
<1>3. CASE ~TimesyncPhase /\ ~DownlinkPhase
  <2>1. dist' = dist
    BY <1>3, OtherStepsTakeNoTime DEF UplinkPhaseStep, nodeVars
  <2> QED
    BY <2>1
<1> QED
  BY <1>1, <1>2, <1>3

\* Master and nodes start a schedule in the tile that its header names, the first
\* of a superframe and no timesync, as early as the repetitions of all packets
\* allow: for every network and configuration, whatever the last schedule was,
\* wherever in a superframe the distribution began, and whatever was lost.  The
\* numbers must fit in the fields of the header, and a superframe without a timesync
\* must exist.
THEOREM ActivatedOnTimeTheorem == Spec /\ []HeaderFits /\ []TimesFit => ActivatedOnTime
<1> DEFINE Inv == /\ TimeInv /\ DistributionTypes /\ ScheduleInv /\ NumbersInv /\ QueuesInv /\ TopologyInv
                  /\ ApartInv /\ TogetherInv /\ MasterStatus /\ OnTimeInv
           Timely == /\ (md.status # "APPLIED_SCHEDULE" /\ md'.status = "APPLIED_SCHEDULE") =>
                            tile = md.header.activation /\ tile % Size(net) = 0
                     /\ \A n \in Dynamic :
                            (dist[n].status = "SENDING_SCHEDULE" /\ dist'[n].status = "APPLIED_SCHEDULE"
                                /\ n \in InTime)
                            => tile = dist[n].header.activation \/ sync'[n].status = "DESYNCHRONIZED"
<1>1. Init => Inv
  <2>1. Init => MasterStatus
    BY DEF Init, MasterDistribution, MasterStatus
  <2> QED
    BY <2>1, TimeInvInit, TypesInit, ScheduleInvInit, NumbersInvInit, QueuesInit, TopologyInvInit, ApartInvInit,
       TogetherInvInit, OnTimeInit
<1>2. Inv /\ HeaderFits /\ HeaderFits' /\ TimesFit /\ [Next]_vars => Inv'
  <2> SUFFICES ASSUME Inv, HeaderFits, HeaderFits', TimesFit, [Next]_vars PROVE Inv'
    OBVIOUS
  <2>1. net \in Networks
    BY DEF TimeInv
  <2>2. (TimeInv /\ DistributionTypes /\ ScheduleInv /\ NumbersInv)'
    BY <2>1, TimeInvNext, TypesNext, ScheduleInvNext, NumbersInvNext
  <2>3. (QueuesInv /\ TopologyInv)'
    BY <2>1, QueuesNext, TopologyInvNext
  <2>4. (ApartInv /\ TogetherInv)'
    BY ApartInvNext, TogetherInvNext
  <2>5. (MasterStatus /\ OnTimeInv)'
    BY MasterStatusNext, OnTimeNext DEF TogetherInv
  <2> QED
    BY <2>2, <2>3, <2>4, <2>5
<1>3. Inv /\ [Next]_vars => Timely
  <2> SUFFICES ASSUME Inv, [Next]_vars PROVE Timely
    OBVIOUS
  <2> QED
    BY MasterStartsOnTime, NodeStartsOnTime
<1>4. ActivatedOnTime <=> [][Timely]_vars
  BY DEF ActivatedOnTime
<1> QED
  BY <1>1, <1>2, <1>3, <1>4, PTL DEF Spec
=============================================================================
