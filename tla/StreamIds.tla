------------------------------ MODULE StreamIds ------------------------------
(***************************************************************************)
(* Class StreamId of network_module/stream/stream_parameters.h: the four   *)
(* numbers that name a stream, or, with both ends on one node and source   *)
(* port 0, a server.                                                       *)
(***************************************************************************)
EXTENDS Naturals

StreamId == [src : Nat, dst : Nat, srcPort : Nat, dstPort : Nat]

IsServer(id) == id.src = id.dst /\ id.srcPort = 0

IsStream(id) == ~IsServer(id)

\* The server a stream connects to.
GetServerId(id) ==
    [src |-> id.dst, dst |-> id.dst, srcPort |-> 0, dstPort |-> id.dstPort]
=============================================================================
