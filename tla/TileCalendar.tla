---------------------------- MODULE TileCalendar ----------------------------
(***************************************************************************)
(* The division of time: tiles, each with a control slot that is a         *)
(* downlink or an uplink, control superframes of a few tiles, and clock    *)
(* synchronization periods of a few superframes.  All nodes count tiles    *)
(* from the first timesync of the master, and derive from the count which  *)
(* node speaks in an uplink, which downlinks are timesyncs, and when a     *)
(* schedule can be activated.                                              *)
(*                                                                         *)
(* c is the network configuration: c.superframe is the sequence of the     *)
(* control slots ("downlink" or "uplink", the first one a downlink and at  *)
(* least one of them an uplink), c.clockSyncPeriod the tiles between two     *)
(* clock synchronizations, and c.maxNodes the number of nodes.             *)
(***************************************************************************)
EXTENDS Integers, Sequences, FiniteSets, TLC

Size(c) == Len(c.superframe)

IsControlDownlink(c, i) == c.superframe[i + 1] = "downlink"
IsControlUplink(c, i) == ~IsControlDownlink(c, i)

CountUplinks(c, tiles) == Cardinality({i \in 0..(tiles - 1) : IsControlUplink(c, i)})
CountUplinkSlots(c) == CountUplinks(c, Size(c))
CountDownlinkSlots(c) == Size(c) - CountUplinkSlots(c)

\* The checks of the configuration.
ValidSuperframe(c) ==
    Size(c) \in 2..32 /\ IsControlDownlink(c, 0) /\ CountUplinkSlots(c) > 0

\* What the constructor of NetworkConfiguration derives from the values given.
NetworkConfiguration(c) == c @@ [superframesPerSync |-> c.clockSyncPeriod \div Size(c)]

TilesPerTimesync(c) == Size(c) * c.superframesPerSync

\* The control slot of a tile is a timesync when tileCounter and
\* controlSuperframeCounter are both zero.
TimesyncTile(c, tile) == tile % TilesPerTimesync(c) = 0
DownlinkTile(c, tile) == IsControlDownlink(c, tile % Size(c))

\* Timesyncs before a tile, as the activation of schedules counts them.
NumTimesyncs(c, tile) == (tile + TilesPerTimesync(c) - 1) \div TilesPerTimesync(c)
IsTimesync(c, tile) == NumTimesyncs(c, tile + 1) - NumTimesyncs(c, tile) = 1

Align(value, step) == ((value + step - 1) \div step) * step

\* The periods that a stream can have, in tiles (those from P200 on are defined
\* but not supported).
ToInt == [P1 |-> 1, P2 |-> 2, P5 |-> 5, P10 |-> 10, P20 |-> 20, P50 |-> 50, P100 |-> 100,
          P200 |-> 200, P500 |-> 500, P1000 |-> 1000, P2000 |-> 2000, P5000 |-> 5000,
          P10000 |-> 10000]

\* gcd and lcm of them.
Divides(d, a) == \E k \in 1..a : d * k = a
Lcm(a, b) == CHOOSE m \in 1..(a * b) :
    /\ Divides(a, m) /\ Divides(b, m)
    /\ \A k \in 1..(m - 1) : ~(Divides(a, k) /\ Divides(b, k))
-----------------------------------------------------------------------------
\* Mutant: one uplink in each superframe.
AlignOneUplink(c, tile) ==
    LET phase == (tile \div Size(c)) + CountUplinks(c, tile % Size(c))
    IN  c.maxNodes - 1 - (phase % c.maxNodes)

\* UplinkPhase::alignToNetworkTime: the node whose turn is next, after the
\* uplinks of all the tiles before this one.  Turns go from the highest id down.
AlignToNetworkTime(c, tile) ==
    LET phase == (tile \div Size(c)) * CountUplinkSlots(c) + CountUplinks(c, tile % Size(c))
    IN  c.maxNodes - 1 - (phase % c.maxNodes)

\* getAndUpdateCurrentNode
NodeAfter(c, node) == IF node = 0 THEN c.maxNodes - 1 ELSE node - 1
-----------------------------------------------------------------------------
\* Downlinks in the superframe of a tile, from the tile on.
DownlinksLeft(c, tile) ==
    Cardinality({i \in (tile % Size(c))..(Size(c) - 1) : IsControlDownlink(c, i)})

\* The loop of getActivationTile: superframes are added until the downlinks that
\* are not timesyncs are enough, and one more if the tile reached is a timesync.
ActivationLoop(c) ==
    LET down == CountDownlinkSlots(c)
        f[s \in [tile : Nat, numDownlinks : Nat, begin : Nat]] ==
            LET rest == s.numDownlinks % down
                tile == s.tile + (s.numDownlinks \div down) * Size(c)
                               + (IF rest > 0 THEN Size(c) ELSE 0)
                remaining == IF rest > 0 THEN down - rest ELSE 0
                numTimesyncs == NumTimesyncs(c, tile) - NumTimesyncs(c, s.begin)
            IN  IF numTimesyncs > remaining
                THEN f[[tile |-> tile, numDownlinks |-> numTimesyncs - remaining, begin |-> tile]]
                ELSE IF IsTimesync(c, tile) THEN tile + Size(c) ELSE tile
    IN  f

\* Mutant: the timesyncs take no downlinks.
ActivationIgnoresTimesyncs(c, currentTile, numDownlinks) ==
    LET tile == Align(currentTile + 1 + numDownlinks * Size(c), Size(c))
    IN  IF IsTimesync(c, tile) THEN tile + Size(c) ELSE tile

\* getActivationTile: the beginning of a superframe, not a timesync, before
\* which numDownlinks packets have left, the first one in the tile after the
\* current one.
GetActivationTile(c, currentTile, numDownlinks) ==
    LET firstTile == currentTile + 1
        left == DownlinksLeft(c, firstTile)
    IN  IF firstTile % Size(c) = 0
        THEN ActivationLoop(c)[[tile |-> firstTile, numDownlinks |-> numDownlinks,
                                begin |-> firstTile]]
        ELSE ActivationLoop(c)[[tile |-> Align(firstTile, Size(c)),
                                numDownlinks |-> IF left > numDownlinks THEN 0
                                                 ELSE numDownlinks - left,
                                begin |-> firstTile]]

\* The first beginning of the old schedule at or after the tile, or the one
\* after it if that is a timesync.
AlignedActivation(c, tile, lastActivation, lastTiles) ==
    LET aligned == lastActivation + Align(tile - lastActivation, lastTiles)
    IN  IF IsTimesync(c, aligned) THEN aligned + lastTiles ELSE aligned
=============================================================================
