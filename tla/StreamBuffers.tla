---------------------------- MODULE StreamBuffers ----------------------------
(***************************************************************************)
(* The packet buffers of an established Stream and the redundancy counters *)
(* that say which slots belong to one period.  A packet is its number, 0   *)
(* stands for a buffer that is not ready.                                  *)
(***************************************************************************)
EXTENDS Integers

NoPacket == 0

\* updateRedundancy: how many transmissions carry one packet.
RedundancyCount(redundancy) ==
    CASE redundancy = "NONE" -> 1
      [] redundancy \in {"DOUBLE", "DOUBLE_SPATIAL"} -> 2
      [] redundancy \in {"TRIPLE", "TRIPLE_SPATIAL"} -> 3

\* nextTxPacket is what the application wrote, txPacket what is being sent.
TxBuffers == [nextTxPacket |-> NoPacket, txPacket |-> NoPacket, txCount |-> 0]

\* rxPacket is filled by the MAC, rxPacketShared is for the application, whose
\* first read waits for data to be present.
RxBuffers == [rxPacket |-> NoPacket, rxPacketShared |-> NoPacket,
              alreadyReceivedShared |-> TRUE, rxCount |-> 0]

NextCount(count, n) == IF count + 1 >= n THEN 0 ELSE count + 1

\* write goes on when the packet of the period before was taken.
CanWrite(tx) == tx.nextTxPacket = NoPacket
Write(tx, packet) == [tx EXCEPT !.nextTxPacket = packet]

\* Mutant: a packet that was sent stays ready when no new one is.
SendPacketAgain(tx, n) ==
    LET new == tx.txCount = 0 /\ tx.nextTxPacket # NoPacket
    IN  [nextTxPacket |-> IF new THEN NoPacket ELSE tx.nextTxPacket,
         txPacket |-> IF new THEN tx.nextTxPacket ELSE tx.txPacket,
         txCount |-> NextCount(tx.txCount, n)]

\* updateTxPacket: the packet written is taken, and write may go on.
UpdateTxPacket(tx) == [tx EXCEPT !.txPacket = tx.nextTxPacket, !.nextTxPacket = NoPacket]

\* sendPacket: before the first transmission of the period.
SendPacket(tx, n) ==
    [(IF tx.txCount = 0 THEN UpdateTxPacket(tx) ELSE tx) EXCEPT !.txCount = NextCount(@, n)]

\* Mutant: a miss overwrites valid data.
MissPacketClears(rx, n) ==
    IF NextCount(rx.rxCount, n) = 0
    THEN [rxPacket |-> NoPacket, rxPacketShared |-> rx.rxPacket,
          alreadyReceivedShared |-> FALSE, rxCount |-> 0]
    ELSE [rx EXCEPT !.rxCount = @ + 1, !.rxPacket = NoPacket]

\* missPacket: updateRxPacket, which hands over what came at the end of the
\* period.
MissPacket(rx, n) ==
    IF NextCount(rx.rxCount, n) = 0
    THEN [rxPacket |-> NoPacket, rxPacketShared |-> rx.rxPacket,
          alreadyReceivedShared |-> FALSE, rxCount |-> 0]
    ELSE [rx EXCEPT !.rxCount = @ + 1]

ReceivePacket(rx, n, packet) == MissPacket([rx EXCEPT !.rxPacket = packet], n)

\* read blocks until the period ends, and returns once for each period, with a
\* packet or with an error when none was received.
CanRead(rx) == ~rx.alreadyReceivedShared
Read(rx) == [rx EXCEPT !.alreadyReceivedShared = TRUE, !.rxPacketShared = NoPacket]
=============================================================================
