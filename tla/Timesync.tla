------------------------------ MODULE Timesync ------------------------------
(***************************************************************************)
(* Clock synchronization (DynamicTimesyncDownlink): a node without         *)
(* synchronization listens until it hears a timesync, takes its hop and    *)
(* the time from it, and can operate from the next one on.  It counts the  *)
(* timesyncs it misses to keep its time, and gives up after some.          *)
(* A clock that runs at another rate than the master's expects the next    *)
(* timesync at the wrong time: the error of one measures what the          *)
(* controller has to correct, and a node can operate while it is small.    *)
(*                                                                         *)
(* The synchronization of a node is a record: status, hop, missed          *)
(* (missedPackets), counter (packetCounter, the number of the last         *)
(* timesync), error (the last measured), control (the controller),         *)
(* correction (clockCorrection), and offset, by how much the last timesync *)
(* came, or would have come, later than computedFrameStart.                *)
(***************************************************************************)
EXTENDS TileCalendar, Flopsync2

LOCAL Abs(a) == IF a < 0 THEN -a ELSE a

Desynchronized ==
    [status |-> "DESYNCHRONIZED", hop |-> 0, missed |-> 0, counter |-> 0,
     error |-> 0, control |-> ResetController, correction |-> 0, offset |-> 0]

\* The master is always synchronized; macStartHook sets its counter to -1.
SetTimesyncPacketCounter(s, value) == [s EXCEPT !.counter = value]
MasterSync == SetTimesyncPacketCounter([Desynchronized EXCEPT !.status = "IN_SYNC"], -1)

\* macCanOperate.  The error is the last one measured, however long ago.
MacCanOperate(c, s) == s.status = "IN_SYNC" /\ Abs(s.error) < c.rcvWindow \div 2

\* How late the next timesync comes (next), for a clock that gains skew
\* nanoseconds in a period; and whether it falls in the receiver window, which is
\* always the admitted one (getWakeupAndTimeout).
NextOffset(s, skew) == s.offset + skew - s.correction
InWindow(c, offset) == Abs(offset) <= c.rcvWindow

Synchronized(s) == s.status # "DESYNCHRONIZED"

\* MasterTimesyncDownlink::next
IncrementTimesyncPacketCounter(s) == [s EXCEPT !.counter = @ + 1]
NextTimesync(s) == IncrementTimesyncPacketCounter(s)

\* The packet that a node of hop h sends.
SyncPacket(h, counter) == [hop |-> h, counter |-> counter]

\* isSyncPacket: the hop of a synchronized node cannot change; a node without
\* synchronization takes what it hears well, unless its hop is forced.
IsSyncPacket(c, n, s, packet, rssi) ==
    IF Synchronized(s) THEN s.hop = packet.hop + 1
    ELSE /\ rssi >= c.minNeighborRSSI - c.rssiDelta
         /\ IF c.staticHop[n] > 0 THEN packet.hop + 1 = c.staticHop[n]
            ELSE packet.hop + 1 <= c.maxHops

\* periodicSync, when the packet comes.
PeriodicSync(s, offset) ==
    LET control == ComputeCorrection(s.control, offset)
    IN  [s EXCEPT !.status = "IN_SYNC", !.missed = 0, !.counter = @ + 1,
                  !.offset = offset, !.error = offset,
                  !.control = control, !.correction = ClockCorrection(control)]

\* missedPacket: the error stays what it was, and the controller goes on blindly;
\* a node that gives up starts it anew.
StillInTime(s, offset) ==
    LET control == LostPacket(s.control)
    IN  [s EXCEPT !.missed = @ + 1, !.counter = @ + 1, !.offset = offset,
                  !.control = control, !.correction = ClockCorrection(control)]

OutOfTime(s) ==
    [s EXCEPT !.status = "DESYNCHRONIZED", !.missed = @ + 1, !.counter = @ + 1,
              !.offset = 0, !.control = ResetController, !.correction = 0]

\* Mutant: one timesync too many is missed.
MissedPacketOnceMore(c, s, offset) ==
    IF s.missed + 1 > c.maxMissedTimesyncs THEN OutOfTime(s) ELSE StillInTime(s, offset)

MissedPacket(c, s, offset) ==
    IF s.missed + 1 >= c.maxMissedTimesyncs THEN OutOfTime(s) ELSE StillInTime(s, offset)

\* resyncTime, with reset.
ResyncTime(packet) ==
    [Desynchronized EXCEPT !.status = "SYNCING", !.hop = packet.hop + 1, !.counter = packet.counter]

\* The nodes that take the timesync of this period, hop by hop: those of one
\* hop rebroadcast it together unless the hop is the last one.  Audible(m, n) is
\* the strength at which n hears m, and listening are the nodes whose radio
\* works.
TimesyncFlood(c, syncs, listening, audible, counter) ==
    LET wave[h \in 0..c.maxHops] ==
            IF h = 0 THEN {0}
            ELSE {n \in listening \ {0} :
                    /\ \A k \in 1..(h - 1) : n \notin wave[k]
                    /\ \E m \in wave[h - 1] :
                        /\ audible[<<m, n>>] > 0
                        /\ IsSyncPacket(c, n, syncs[n], SyncPacket(h - 1, counter), audible[<<m, n>>])}
    IN  wave
=============================================================================
