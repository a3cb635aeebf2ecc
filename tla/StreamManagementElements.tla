---------------------- MODULE StreamManagementElements ----------------------
(***************************************************************************)
(* Stream management elements (SMEs): what nodes ask the master for, how   *)
(* queues tell them apart and what a receiver accepts.  An SME is a record *)
(* of a stream id and a type; parameters and sequence numbers, which only  *)
(* travel with it, are left out.                                           *)
(***************************************************************************)
EXTENDS StreamIds

\* SMEs of one class about one stream or server replace each other in a queue.
SMETypeToClass(type) == IF type = "RESEND_SCHEDULE" THEN 1 ELSE 0
SMEKey(id, type) == <<id, SMETypeToClass(type)>>

Sme(id, type) == [id |-> id, type |-> type]
GetKey(sme) == SMEKey(sme.id, sme.type)

\* A node asks for the schedule in the name of no stream.
OfNode(node) == [src |-> node, dst |-> 0, srcPort |-> 0, dstPort |-> 0]
MakeResendSME(node) == Sme(OfNode(node), "RESEND_SCHEDULE")

\* validateInPacket: between nodes that may be, LISTEN for servers only, and the
\* schedule asked for by a node that is not the master.
ValidSME(sme, maxNodes) ==
    /\ sme.id.src < maxNodes /\ sme.id.dst < maxNodes
    /\ sme.type = "LISTEN" => IsServer(sme.id)
    /\ sme.type = "RESEND_SCHEDULE" => sme.id.src # 0 /\ sme.id = OfNode(sme.id.src)

\* Bytes of the stream id, the parameters, the type and the sequence number.
SMESize == 3 + 2 + 1 + 2
=============================================================================
