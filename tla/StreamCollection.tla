-------------------------- MODULE StreamCollection --------------------------
(***************************************************************************)
(* The master's view of every stream and server of the network: class      *)
(* StreamCollection (network_module/stream/stream_collection.{h,cpp}).     *)
(*                                                                         *)
(* Two threads use it under coll_mutex: the MAC thread delivers stream     *)
(* management elements (SMEs) and takes info elements, the scheduler       *)
(* thread takes snapshots and applies the outcome of a scheduling.  Every  *)
(* method holds the mutex from start to end, so each is one action.        *)
(***************************************************************************)
EXTENDS FiniteSets, UpdatableQueue, StreamIds

CONSTANTS Ids,     \* the stream and server ids in play
          Params   \* the stream parameters in play

StreamParameters ==
    [redundancy : Nat, period : Nat, payloadSize : Nat, direction : Nat]

ASSUME IdsAssumption ==
    /\ Ids \subseteq StreamId
    /\ IsFiniteSet(Ids)
    /\ \A id \in Ids : GetServerId(id) \in Ids

ASSUME ParamsAssumption == Params \subseteq StreamParameters

Servers == {id \in Ids : IsServer(id)}
Streams == {id \in Ids : IsStream(id)}

-----------------------------------------------------------------------------
\* The map "collection" is total here: an id that is not a key has NoEntry.
MasterStreamStatus == {"ACCEPTED", "ESTABLISHED", "LISTEN"}

NoParams == [redundancy |-> 0, period |-> 0, payloadSize |-> 0, direction |-> 0]

NoEntry == [status |-> "ABSENT", params |-> NoParams]

MasterStreamInfo ==
    [status : MasterStreamStatus \cup {"ABSENT"}, params : StreamParameters]

InfoType == {"STREAM_REJECT", "SERVER_OPENED", "SERVER_CLOSED"}

SMEType == {"CONNECT", "LISTEN", "CLOSED", "RESEND_SCHEDULE"}

SME == [type : SMEType, id : Ids, params : Params]

VARIABLES
    collection,      \* Ids -> MasterStreamInfo
    infoQueue,       \* info elements waiting for a downlink packet
    modified_flag, removed_flag, added_flag,  \* since the last snapshot
    resend_flag      \* a node asked for the schedule again

collVars == <<collection, infoQueue, modified_flag, removed_flag, added_flag,
              resend_flag>>

CollInit ==
    /\ collection = [id \in Ids |-> NoEntry]
    /\ infoQueue = EmptyQueue
    /\ modified_flag = FALSE
    /\ removed_flag = FALSE
    /\ added_flag = FALSE
    /\ resend_flag = FALSE

CollTypeOK ==
    /\ collection \in [Ids -> MasterStreamInfo]
    /\ infoQueue \in Seq([key : Ids, val : InfoType])
    /\ modified_flag \in BOOLEAN
    /\ removed_flag \in BOOLEAN
    /\ added_flag \in BOOLEAN
    /\ resend_flag \in BOOLEAN

Present(id) == collection[id].status # "ABSENT"

WithStatus(coll, status) == {id \in Ids : coll[id].status = status}

EnqueueInfo(id, type) == infoQueue' = Enqueue(infoQueue, id, type)

MinOf(a, b) == IF a <= b THEN a ELSE b
MaxOf(a, b) == IF a <= b THEN b ELSE a

NegotiateParameters(server, client) ==
    [redundancy  |-> MinOf(server.redundancy, client.redundancy),
     period      |-> MaxOf(server.period, client.period),
     payloadSize |-> MinOf(server.payloadSize, client.payloadSize),
     direction   |-> client.direction]

-----------------------------------------------------------------------------
(***************************************************************************)
(* receiveSMEs: the elements received in an uplink are handled one by one. *)
(* A longer batch has the effect of its elements in consecutive steps.     *)
(***************************************************************************)
RequestResend ==
    /\ resend_flag' = TRUE
    /\ UNCHANGED <<collection, infoQueue, modified_flag, removed_flag, added_flag>>

IgnoreSME == UNCHANGED collVars

\* Mutant: the removed flag is not set.
EraseStreamUnflagged(id) ==
    /\ collection' = [collection EXCEPT ![id] = NoEntry]
    /\ modified_flag' = TRUE
    /\ UNCHANGED <<infoQueue, removed_flag, added_flag, resend_flag>>

\* Mutant: the streams to the same server go with it.
EraseStreamsOfServer(id) ==
    /\ collection' = [i \in Ids |->
          IF IsStream(i) /\ GetServerId(i) = GetServerId(id) THEN NoEntry ELSE collection[i]]
    /\ removed_flag' = TRUE
    /\ modified_flag' = TRUE
    /\ UNCHANGED <<infoQueue, added_flag, resend_flag>>

EraseStream(id) ==
    /\ collection' = [collection EXCEPT ![id] = NoEntry]
    /\ removed_flag' = TRUE
    /\ modified_flag' = TRUE
    /\ UNCHANGED <<infoQueue, added_flag, resend_flag>>

Accepted(sme) ==
    LET server == collection[GetServerId(sme.id)]
    IN  [status |-> "ACCEPTED",
         params |-> NegotiateParameters(server.params, sme.params)]

\* Mutant: the added flag is not set.
AcceptStreamUnadded(sme) ==
    /\ collection' = [collection EXCEPT ![sme.id] = Accepted(sme)]
    /\ modified_flag' = TRUE
    /\ UNCHANGED <<infoQueue, removed_flag, added_flag, resend_flag>>

\* Mutant: the modified flag is not set.
AcceptStreamUnmodified(sme) ==
    /\ collection' = [collection EXCEPT ![sme.id] = Accepted(sme)]
    /\ added_flag' = TRUE
    /\ UNCHANGED <<infoQueue, modified_flag, removed_flag, resend_flag>>

AcceptStream(sme) ==
    /\ collection' = [collection EXCEPT ![sme.id] = Accepted(sme)]
    /\ added_flag' = TRUE
    /\ modified_flag' = TRUE
    /\ UNCHANGED <<infoQueue, removed_flag, resend_flag>>

RejectRequest(id) ==
    /\ EnqueueInfo(id, "STREAM_REJECT")
    /\ UNCHANGED <<collection, modified_flag, removed_flag, added_flag, resend_flag>>

\* The master already knows the stream.
UpdateStream(sme) ==
    LET status == collection[sme.id].status
    IN  /\ IsStream(sme.id) /\ Present(sme.id)
        /\ CASE sme.type = "CLOSED" /\ status \in {"ACCEPTED", "ESTABLISHED"} ->
                  EraseStream(sme.id)
             [] sme.type = "CONNECT" /\ status = "ESTABLISHED" -> RequestResend
             [] OTHER -> IgnoreSME

\* The master does not know the stream.
CreateStream(sme) ==
    LET serverId == GetServerId(sme.id)
        matching == collection[serverId].params.direction = sme.params.direction
    IN  /\ IsStream(sme.id) /\ ~Present(sme.id)
        /\ CASE sme.type = "CLOSED" -> RequestResend
             [] sme.type = "CONNECT" ->
                  IF Present(serverId) /\ matching THEN AcceptStream(sme)
                                                   ELSE RejectRequest(sme.id)
             [] OTHER -> IgnoreSME

UpdateServer(sme) ==
    /\ IsServer(sme.id) /\ Present(sme.id)
    /\ UNCHANGED <<modified_flag, removed_flag, added_flag, resend_flag>>
    /\ CASE sme.type = "CLOSED" ->
              /\ collection' = [collection EXCEPT ![sme.id] = NoEntry]
              /\ EnqueueInfo(sme.id, "SERVER_CLOSED")
         [] sme.type = "LISTEN" ->
              /\ EnqueueInfo(sme.id, "SERVER_OPENED")
              /\ UNCHANGED collection
         [] OTHER -> UNCHANGED <<collection, infoQueue>>

CreateServer(sme) ==
    /\ IsServer(sme.id) /\ ~Present(sme.id)
    /\ UNCHANGED <<modified_flag, removed_flag, added_flag, resend_flag>>
    /\ CASE sme.type = "LISTEN" ->
              /\ collection' = [collection EXCEPT ![sme.id] =
                    [status |-> "LISTEN", params |-> sme.params]]
              /\ EnqueueInfo(sme.id, "SERVER_OPENED")
         [] sme.type = "CLOSED" ->
              /\ EnqueueInfo(sme.id, "SERVER_CLOSED")
              /\ UNCHANGED collection
         [] OTHER -> UNCHANGED <<collection, infoQueue>>

ReceiveSME(sme) ==
    IF sme.type = "RESEND_SCHEDULE"
    THEN RequestResend
    ELSE \/ UpdateStream(sme)
         \/ UpdateServer(sme)
         \/ CreateStream(sme)
         \/ CreateServer(sme)

\* The SMEs the nodes send: CONNECT for streams and LISTEN for servers
\* (Stream::connect and Server::listen), CLOSED and RESEND_SCHEDULE for both.
NodeSMEs ==
    {sme \in SME : /\ sme.type = "CONNECT" => IsStream(sme.id)
                   /\ sme.type = "LISTEN" => IsServer(sme.id)}

\* dequeueInfo(num): the elements that fit in the next downlink packet leave.
DequeueInfo(num) ==
    /\ infoQueue' = DequeueMany(infoQueue, num)
    /\ UNCHANGED <<collection, modified_flag, removed_flag, added_flag, resend_flag>>

-----------------------------------------------------------------------------
(***************************************************************************)
(* The methods the scheduler thread calls.                                 *)
(***************************************************************************)
\* Mutant: the flags are cleared here and not with the snapshot.
GetOperationClears ==
    /\ resend_flag' = FALSE
    /\ modified_flag' = FALSE
    /\ removed_flag' = FALSE
    /\ added_flag' = FALSE
    /\ UNCHANGED <<collection, infoQueue>>

\* getOperation: the resend request is consumed, the modified flag is not.
GetOperation ==
    /\ resend_flag' = FALSE
    /\ UNCHANGED <<collection, infoQueue, modified_flag, removed_flag, added_flag>>

\* getSnapshot: all four flags are cleared; the copy is in the caller's hands.
GetSnapshot ==
    /\ modified_flag' = FALSE
    /\ removed_flag' = FALSE
    /\ added_flag' = FALSE
    /\ resend_flag' = FALSE
    /\ UNCHANGED <<collection, infoQueue>>

\* StreamSnapshot::getStreamChanges, as the sets of ids to change.
ToEstablish(coll, scheduled) == WithStatus(coll, "ACCEPTED") \cap scheduled
ToReject(coll, scheduled) == WithStatus(coll, "ACCEPTED") \ scheduled

\* Mutant: established streams that got no slots are left alone.
ToCloseNone(coll, scheduled) == {}

ToClose(coll, scheduled) == WithStatus(coll, "ESTABLISHED") \ scheduled

\* Mutant: the change (ESTABLISH) is stored as if it were the new status.
ChangedEntryMixed(id, coll, scheduled) ==
    LET now == collection[id].status
    IN  CASE now = "ACCEPTED" /\ id \in ToEstablish(coll, scheduled) ->
               [collection[id] EXCEPT !.status = "ESTABLISH"]
          [] now = "ACCEPTED" /\ id \in ToReject(coll, scheduled) -> NoEntry
          [] now = "ESTABLISHED" /\ id \in ToClose(coll, scheduled) -> NoEntry
          [] OTHER -> collection[id]

\* applyChanges: a change applies only to a stream that still has the status
\* it had in the snapshot.  The rejections are enqueued in the order of the
\* ids; any order is allowed here.
ChangedEntry(id, coll, scheduled) ==
    LET now == collection[id].status
    IN  CASE now = "ACCEPTED" /\ id \in ToEstablish(coll, scheduled) ->
               [collection[id] EXCEPT !.status = "ESTABLISHED"]
          [] now = "ACCEPTED" /\ id \in ToReject(coll, scheduled) -> NoEntry
          [] now = "ESTABLISHED" /\ id \in ToClose(coll, scheduled) -> NoEntry
          [] OTHER -> collection[id]

Rejected(coll, scheduled) ==
    ToReject(coll, scheduled) \cap WithStatus(collection, "ACCEPTED")

\* The orders in which the elements of a finite set can be taken.
Orders(S) ==
    {order \in [1..Cardinality(S) -> S] :
        \A x \in S : \E i \in 1..Cardinality(S) : order[i] = x}

\* q after enqueueing a STREAM_REJECT for the ids of S, the new ones in an order.
RejectionsAdded(q, S, order) ==
    [i \in 1..Len(q) |->
        IF q[i].key \in S THEN [key |-> q[i].key, val |-> "STREAM_REJECT"] ELSE q[i]]
    \o [i \in DOMAIN order |-> [key |-> order[i], val |-> "STREAM_REJECT"]]

ApplyChanges(coll, scheduled) ==
    LET rejected == Rejected(coll, scheduled)
    IN  /\ collection' = [id \in Ids |-> ChangedEntry(id, coll, scheduled)]
        /\ \E order \in Orders({id \in rejected : ~HasKey(infoQueue, id)}) :
              infoQueue' = RejectionsAdded(infoQueue, rejected, order)
        /\ UNCHANGED <<modified_flag, removed_flag, added_flag, resend_flag>>
=============================================================================
