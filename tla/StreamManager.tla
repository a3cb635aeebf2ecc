---------------------------- MODULE StreamManager ----------------------------
(***************************************************************************)
(* One node's streams and servers: class StreamManager and the state       *)
(* machines of Stream and Server                                           *)
(* (network_module/stream/{stream_manager,stream}.{h,cpp}).                *)
(*                                                                         *)
(* Application threads call connect, listen, accept and close; the MAC     *)
(* thread applies schedules and info elements, updates the timeouts once a *)
(* tile, takes the SMEs to send and tells when the node is out of sync.    *)
(* map_mutex protects the tables, each endpoint has a status_mutex and a   *)
(* condition variable.  What one mutex covers is one action; a call that   *)
(* releases a mutex and takes another is split there, and applySchedule,   *)
(* which holds map_mutex but meets the status_mutex of one endpoint after  *)
(* another, is split at every endpoint.                                    *)
(*                                                                         *)
(* The schedules and info elements that arrive are the environment's: any  *)
(* that name streams and servers the nodes have asked for.                 *)
(***************************************************************************)
EXTENDS FiniteSets, TLC, UpdatableQueue, StreamManagementElements, SequencesExt

CONSTANTS
    Me,              \* myId
    Targets,         \* the [dst, dstPort] the application connects to
    ListenPorts,     \* the ports the application listens on
    Remote,          \* the streams other nodes open to this one
    Threads,         \* the application threads
    MaxPorts,        \* maxPorts, the number of client ports
    SmeTimeoutMax,   \* smeTimeoutMax, in tiles
    FailTimeoutMax,  \* failTimeoutMax, in tiles
    MaxFd            \* bound: nothing that needs an fd starts beyond it

ASSUME NodeAssumption ==
    /\ Me \in Nat
    /\ Targets \subseteq [dst : Nat \ {Me}, dstPort : Nat]
    /\ ListenPorts \subseteq Nat
    /\ Remote \subseteq [src : Nat \ {Me}, dst : {Me}, srcPort : Nat,
                         dstPort : ListenPorts]

ASSUME BoundsAssumption ==
    /\ MaxPorts \in Nat
    /\ MaxFd \in Nat
    /\ SmeTimeoutMax \in Nat \ {0}
    /\ FailTimeoutMax \in Nat \ {0}

Ports == 0..(MaxPorts - 1)

ClientId(target, port) ==
    [src |-> Me, dst |-> target.dst, srcPort |-> port, dstPort |-> target.dstPort]

ServerId(port) == [src |-> Me, dst |-> Me, srcPort |-> 0, dstPort |-> port]

\* The streams this node may be an end of, and the servers it may be asked for.
StreamIdsHere == {ClientId(t, p) : t \in Targets, p \in Ports} \cup Remote

StreamStatus == {"CONNECTING", "CONNECT_FAILED", "ACCEPT_WAIT", "ESTABLISHED",
                 "REMOTELY_CLOSED", "REOPENED", "CLOSE_WAIT", "LISTEN_WAIT",
                 "LISTEN_FAILED", "LISTEN"}

VARIABLES
    endpoints,     \* every Stream and Server object made; its index is its fd
    fdt,           \* the fds in the file descriptor table
    streams,       \* StreamId -> fd, a partial function
    servers,       \* port -> fd, a partial function
    clientPorts,   \* the client ports in use
    smeQueue,      \* the SMEs to send, by (StreamId, class)
    thread,        \* where each application thread is, and with which object
    handles,       \* the fds the application holds, and the call each is from
    macPc,         \* where the MAC thread is
    todo,          \* applySchedule: the elements still to visit
    removedStreams,\* applySchedule: streams in the map, not in the schedule
    arrival,       \* applySchedule: a new stream and the server it is for
    announced      \* history: the ids whose CONNECT or LISTEN was sent

tableVars == <<fdt, streams, servers, clientPorts>>
macVars == <<macPc, todo, removedStreams, arrival>>
vars == <<endpoints, tableVars, smeQueue, thread, handles, macVars, announced>>

-----------------------------------------------------------------------------
(* Endpoints and their timeouts.                                           *)

Endpoint(id, status) ==
    [id |-> id, status |-> status, smeTimeout |-> SmeTimeoutMax,
     failTimeout |-> FailTimeoutMax, pendingAccept |-> << >>]

SetStatus(e, status) ==
    [e EXCEPT !.status = status, !.smeTimeout = SmeTimeoutMax,
              !.failTimeout = FailTimeoutMax]

fdcounter == Len(endpoints) + 1

\* map[key] = fd
Put(map, key, fd) ==
    [x \in DOMAIN map \cup {key} |-> IF x = key THEN fd ELSE map[x]]

\* An fd in one of the two maps, which is what the MAC thread works on.
Mapped == {streams[id] : id \in DOMAIN streams}
          \cup {servers[p] : p \in DOMAIN servers}

-----------------------------------------------------------------------------
(* The SME queue.                                                          *)

EnqueueSME(q, sme) == Enqueue(q, GetKey(sme), sme)

\* The elements of smes one after the other.
EnqueueSMEs(q, smes) ==
    LET after[n \in 0..Len(smes)] ==
            IF n = 0 THEN q ELSE EnqueueSME(after[n - 1], smes[n])
    IN  after[Len(smes)]

IsQueued(id, type) == Sme(id, type) \in QueuedVals(smeQueue)

-----------------------------------------------------------------------------
(* The tables, changed under map_mutex unless said otherwise.              *)

AddStream(id, status) ==
    /\ endpoints' = Append(endpoints, Endpoint(id, status))
    /\ streams' = Put(streams, id, fdcounter)
    /\ fdt' = fdt \cup {fdcounter}

AddServer(id, status) ==
    /\ endpoints' = Append(endpoints, Endpoint(id, status))
    /\ servers' = Put(servers, id.dstPort, fdcounter)
    /\ fdt' = fdt \cup {fdcounter}

\* Mutant: the client port is not given back.
RemoveStreamsKeepingPort(ids) ==
    /\ streams' = [id \in DOMAIN streams \ ids |-> streams[id]]
    /\ fdt' = fdt \ {streams[id] : id \in ids \cap DOMAIN streams}
    /\ UNCHANGED <<clientPorts, servers>>

\* Mutant: the fd is left in the table.
RemoveStreamsKeepingFd(ids) ==
    /\ streams' = [id \in DOMAIN streams \ ids |-> streams[id]]
    /\ clientPorts' = clientPorts \ {id.srcPort : id \in ids \cap DOMAIN streams}
    /\ UNCHANGED <<fdt, servers>>

\* removeStream on each of ids; an id that is not in the map is passed over.
RemoveStreams(ids) ==
    /\ streams' = [id \in DOMAIN streams \ ids |-> streams[id]]
    /\ fdt' = fdt \ {streams[id] : id \in ids \cap DOMAIN streams}
    /\ clientPorts' = clientPorts \ {id.srcPort : id \in ids \cap DOMAIN streams}
    /\ UNCHANGED servers

RemoveServer(port) ==
    /\ servers' = [p \in DOMAIN servers \ {port} |-> servers[p]]
    /\ fdt' = fdt \ {servers[p] : p \in {port} \cap DOMAIN servers}
    /\ UNCHANGED <<streams, clientPorts>>

-----------------------------------------------------------------------------
(* Threads.  A waiting thread sleeps on the condition variable of the      *)
(* object it works on: connect_cv of a stream, listen_cv of a server.      *)

Waiting == {"connectWait", "listenWait", "acceptWait"}

Running == {"connectSend", "connectCheck", "unconnect", "listenSend",
            "listenCheck", "unlisten", "acceptCheck", "acceptLookup",
            "acceptFinish", "closeEndpoint", "closeRemove"}

NoObject == 0

Handle(fd, call) == [fd |-> fd, call |-> call]

Idle == [pc |-> "idle", fd |-> NoObject]

Alive == macPc # "crashed"

\* Is map_mutex free?  Only applySchedule holds it across steps.
MapFree == macPc \in {"idle", "desync"}

MacIdle == macPc = "idle"

RoomForFd == Len(endpoints) < MaxFd

At(t, pc) == Alive /\ thread[t].pc = pc

Object(t) == endpoints[thread[t].fd]

Goto(T, t, pc) == [T EXCEPT ![t].pc = pc]

Done(T, t) == [T EXCEPT ![t] = Idle]

Awake(pc) ==
    CASE pc = "connectWait" -> "connectCheck"
      [] pc = "listenWait"  -> "listenCheck"
      [] pc = "acceptWait"  -> "acceptCheck"

Sleepers(T, fd) == {t \in Threads : T[t].fd = fd /\ T[t].pc \in Waiting}

\* What T may become when the condition variable of fd is signalled: one of
\* the threads that sleep on it wakes.
Notified(T, fd) ==
    IF Sleepers(T, fd) = {}
    THEN {T}
    ELSE {Goto(T, t, Awake(T[t].pc)) : t \in Sleepers(T, fd)}

\* T after signalling each of fds, at most one thread sleeping on each.
AllNotified(T, fds) ==
    [t \in Threads |-> IF T[t].fd \in fds /\ T[t].pc \in Waiting
                       THEN [T[t] EXCEPT !.pc = Awake(@)] ELSE T[t]]

-----------------------------------------------------------------------------
(* connect().                                                              *)

\* The lowest free client port is taken and the stream enters the maps.  With
\* no free port, or with the id in the map, connect returns -1 and the state
\* stays.
Connect(t, target) ==
    /\ At(t, "idle") /\ MapFree /\ RoomForFd
    /\ \E port \in Ports \ clientPorts :
        /\ \A p \in Ports \ clientPorts : port <= p
        /\ ClientId(target, port) \notin DOMAIN streams
        /\ clientPorts' = clientPorts \cup {port}
        /\ AddStream(ClientId(target, port), "CONNECTING")
    /\ thread' = [thread EXCEPT ![t] = [pc |-> "connectSend", fd |-> fdcounter]]
    /\ UNCHANGED <<servers, smeQueue, handles, macVars, announced>>

\* Out of the wait loop of Stream::connect, or back to sleep; only an
\* ESTABLISHED stream is returned.
ConnectOutcome(t) ==
    LET status == Object(t).status IN
    \/ /\ status = "CONNECTING"
       /\ thread' = Goto(thread, t, "connectWait")
       /\ UNCHANGED handles
    \/ /\ status = "ESTABLISHED"
       /\ thread' = Done(thread, t)
       /\ handles' = handles \cup {Handle(thread[t].fd, "connect")}
    \/ /\ status \notin {"CONNECTING", "ESTABLISHED"}
       /\ thread' = Goto(thread, t, "unconnect")
       /\ UNCHANGED handles

ConnectSend(t) ==
    /\ At(t, "connectSend")
    /\ smeQueue' = EnqueueSME(smeQueue, Sme(Object(t).id, "CONNECT"))
    /\ ConnectOutcome(t)
    /\ UNCHANGED <<endpoints, tableVars, macVars, announced>>

ConnectCheck(t) ==
    /\ At(t, "connectCheck")
    /\ ConnectOutcome(t)
    /\ UNCHANGED <<endpoints, tableVars, smeQueue, macVars, announced>>

\* connect failed: removeStream, here without map_mutex.
Unconnect(t) ==
    /\ At(t, "unconnect")
    /\ RemoveStreams({Object(t).id})
    /\ thread' = Done(thread, t)
    /\ UNCHANGED <<endpoints, smeQueue, handles, macVars, announced>>

-----------------------------------------------------------------------------
(* listen() and accept().                                                  *)

\* With a server on the port, listen returns -1.
Listen(t, port) ==
    /\ At(t, "idle") /\ MapFree /\ RoomForFd
    /\ port \notin DOMAIN servers
    /\ AddServer(ServerId(port), "LISTEN_WAIT")
    /\ thread' = [thread EXCEPT ![t] = [pc |-> "listenSend", fd |-> fdcounter]]
    /\ UNCHANGED <<streams, clientPorts, smeQueue, handles, macVars, announced>>

ListenOutcome(t) ==
    LET status == Object(t).status IN
    \/ /\ status = "LISTEN_WAIT"
       /\ thread' = Goto(thread, t, "listenWait")
       /\ UNCHANGED handles
    \/ /\ status = "LISTEN"
       /\ thread' = Done(thread, t)
       /\ handles' = handles \cup {Handle(thread[t].fd, "listen")}
    \/ /\ status \notin {"LISTEN_WAIT", "LISTEN"}
       /\ thread' = Goto(thread, t, "unlisten")
       /\ UNCHANGED handles

ListenSend(t) ==
    /\ At(t, "listenSend")
    /\ smeQueue' = EnqueueSME(smeQueue, Sme(Object(t).id, "LISTEN"))
    /\ ListenOutcome(t)
    /\ UNCHANGED <<endpoints, tableVars, macVars, announced>>

ListenCheck(t) ==
    /\ At(t, "listenCheck")
    /\ ListenOutcome(t)
    /\ UNCHANGED <<endpoints, tableVars, smeQueue, macVars, announced>>

\* listen failed: removeServer, here without map_mutex.
Unlisten(t) ==
    /\ At(t, "unlisten")
    /\ RemoveServer(Object(t).id.dstPort)
    /\ thread' = Done(thread, t)
    /\ UNCHANGED <<endpoints, smeQueue, handles, macVars, announced>>

\* The server is looked up by a descriptor that listen returned.
Accept(t, fd) ==
    /\ At(t, "idle") /\ MapFree
    /\ Handle(fd, "listen") \in handles /\ fd \in fdt
    /\ thread' = [thread EXCEPT ![t] = [pc |-> "acceptCheck", fd |-> fd]]
    /\ UNCHANGED <<endpoints, tableVars, smeQueue, handles, macVars, announced>>

\* Mutant: the accepted stream stays in pendingAccept.
AcceptCheckNoPop(t) ==
    /\ At(t, "acceptCheck")
    /\ LET server == Object(t) IN
       \/ /\ server.status # "LISTEN"
          /\ thread' = Done(thread, t)
          /\ UNCHANGED endpoints
       \/ /\ server.status = "LISTEN" /\ server.pendingAccept = << >>
          /\ thread' = Goto(thread, t, "acceptWait")
          /\ UNCHANGED endpoints
       \/ /\ server.status = "LISTEN" /\ server.pendingAccept # << >>
          /\ thread' = [thread EXCEPT ![t] =
                 [pc |-> "acceptLookup", fd |-> Head(server.pendingAccept)]]
          /\ UNCHANGED endpoints
    /\ UNCHANGED <<tableVars, smeQueue, handles, macVars, announced>>

\* Server::accept under its status_mutex: give up when the server is not
\* open, sleep while no stream is pending, or take the oldest one.
AcceptCheck(t) ==
    /\ At(t, "acceptCheck")
    /\ LET server == Object(t) IN
       \/ /\ server.status # "LISTEN"
          /\ thread' = Done(thread, t)
          /\ UNCHANGED endpoints
       \/ /\ server.status = "LISTEN" /\ server.pendingAccept = << >>
          /\ thread' = Goto(thread, t, "acceptWait")
          /\ UNCHANGED endpoints
       \/ /\ server.status = "LISTEN" /\ server.pendingAccept # << >>
          /\ thread' = [thread EXCEPT ![t] =
                 [pc |-> "acceptLookup", fd |-> Head(server.pendingAccept)]]
          /\ endpoints' = [endpoints EXCEPT ![thread[t].fd].pendingAccept = Tail(@)]
    /\ UNCHANGED <<tableVars, smeQueue, handles, macVars, announced>>

\* The stream may have left the table meanwhile: accept then returns -1.
AcceptLookup(t) ==
    /\ At(t, "acceptLookup") /\ MapFree
    /\ thread' = IF thread[t].fd \in fdt THEN Goto(thread, t, "acceptFinish")
                                         ELSE Done(thread, t)
    /\ UNCHANGED <<endpoints, tableVars, smeQueue, handles, macVars, announced>>

\* Stream::acceptedStream, and accept returns the stream's descriptor.
AcceptFinish(t) ==
    /\ At(t, "acceptFinish")
    /\ endpoints' = IF Object(t).status = "ACCEPT_WAIT"
                    THEN [endpoints EXCEPT ![thread[t].fd] =
                              SetStatus(@, "ESTABLISHED")]
                    ELSE endpoints
    /\ thread' = Done(thread, t)
    /\ handles' = handles \cup {Handle(thread[t].fd, "accept")}
    /\ UNCHANGED <<tableVars, smeQueue, macVars, announced>>

-----------------------------------------------------------------------------
(* close().                                                                *)

\* The application gives up the descriptor.
Close(t, handle) ==
    /\ At(t, "idle") /\ MapFree
    /\ handles' = handles \ {handle}
    /\ thread' = IF handle.fd \in fdt
                 THEN [thread EXCEPT ![t] = [pc |-> "closeEndpoint", fd |-> handle.fd]]
                 ELSE thread
    /\ UNCHANGED <<endpoints, tableVars, smeQueue, macVars, announced>>

\* What Stream::close and Server::close do to e; the open status differs.
Closed(e) ==
    IF e.status \in {"ESTABLISHED", "LISTEN", "REOPENED"}
    THEN SetStatus(e, "CLOSE_WAIT")
    ELSE e

\* The CLOSED SME they send, if any.
CloseSMEs(e) ==
    IF e.status \in {"ESTABLISHED", "LISTEN", "CLOSE_WAIT"}
    THEN <<Sme(e.id, "CLOSED")>>
    ELSE << >>

\* Stream::closedServer for a stream of pendingAccept, and the SME it sends.
ClosedServer(e) ==
    IF e.status = "ACCEPT_WAIT" THEN SetStatus(e, "CLOSE_WAIT") ELSE e

ClosedServerSMEs(e) ==
    IF e.status = "ACCEPT_WAIT" THEN <<Sme(e.id, "CLOSED")>> ELSE << >>

\* The SMEs of the streams pending on fd, the oldest first.
PendingSMEs(fd) ==
    LET pending == endpoints[fd].pendingAccept
        sent[n \in 0..Len(pending)] ==
            IF n = 0 THEN << >>
            ELSE sent[n - 1] \o ClosedServerSMEs(endpoints[pending[n]])
    IN  sent[Len(pending)]

Deletable(e) == e.status = "REMOTELY_CLOSED"

CloseEndpoint(t) ==
    /\ At(t, "closeEndpoint")
    /\ LET fd == thread[t].fd
           pending == Range(endpoints[fd].pendingAccept)
       IN
       /\ endpoints' = [f \in DOMAIN endpoints |->
                IF f = fd THEN Closed(endpoints[f])
                ELSE IF f \in pending THEN ClosedServer(endpoints[f])
                ELSE endpoints[f]]
       /\ smeQueue' = EnqueueSMEs(smeQueue, CloseSMEs(Object(t)) \o PendingSMEs(fd))
       /\ \E T \in Notified(thread, fd) :
            thread' = IF Deletable(Object(t)) THEN Goto(T, t, "closeRemove")
                                              ELSE Done(T, t)
    /\ UNCHANGED <<tableVars, handles, macVars, announced>>

\* By id or port, and without looking at the status again.
CloseRemove(t) ==
    /\ At(t, "closeRemove") /\ MapFree
    /\ IF IsServer(Object(t).id) THEN RemoveServer(Object(t).id.dstPort)
                                 ELSE RemoveStreams({Object(t).id})
    /\ thread' = Done(thread, t)
    /\ UNCHANGED <<endpoints, smeQueue, handles, macVars, announced>>

-----------------------------------------------------------------------------
(* applySchedule().                                                        *)

\* Could a schedule the master sends now carry the stream?
Schedulable(id) ==
    \/ id \in Remote /\ GetServerId(id) \in announced
    \/ id.src = Me /\ id \in announced

BeginSchedule(schedule) ==
    /\ MacIdle
    /\ \A id \in schedule : Schedulable(id)
    /\ schedule \subseteq DOMAIN streams \/ RoomForFd
    /\ macPc' = "schedule"
    /\ todo' = schedule
    /\ removedStreams' = DOMAIN streams
    /\ UNCHANGED <<endpoints, tableVars, smeQueue, thread, handles, arrival, announced>>

Visiting(id) == macPc = "schedule" /\ id \in todo

\* Stream::addedStream on a stream of the map.
Added(e) ==
    CASE e.status = "CONNECTING"      -> SetStatus(e, "ESTABLISHED")
      [] e.status = "REMOTELY_CLOSED" -> SetStatus(e, "REOPENED")
      [] OTHER                        -> e

AddedStream(id) ==
    /\ Visiting(id) /\ id \in DOMAIN streams
    /\ endpoints' = [endpoints EXCEPT ![streams[id]] = Added(@)]
    /\ thread' \in Notified(thread, streams[id])
    /\ todo' = todo \ {id}
    /\ removedStreams' = removedStreams \ {id}
    /\ UNCHANGED <<tableVars, smeQueue, handles, macPc, arrival, announced>>

ServerListens(port) ==
    /\ port \in DOMAIN servers
    /\ endpoints[servers[port]].status = "LISTEN"

\* The stream is new and its server listens; the status is read here, under
\* the server's status_mutex, and the stream handed over in another step.
IncomingStream(id) ==
    /\ Visiting(id) /\ id \notin DOMAIN streams
    /\ ServerListens(id.dstPort)
    /\ AddStream(id, "ACCEPT_WAIT")
    /\ arrival' = [server |-> servers[id.dstPort], stream |-> fdcounter]
    /\ macPc' = "pending"
    /\ todo' = todo \ {id}
    /\ UNCHANGED <<servers, clientPorts, smeQueue, thread, handles,
                   removedStreams, announced>>

NoArrival == [server |-> NoObject, stream |-> NoObject]

\* Server::addPendingStream.
AddPendingStream ==
    /\ macPc = "pending"
    /\ endpoints' = [endpoints EXCEPT ![arrival.server].pendingAccept =
                         Append(@, arrival.stream)]
    /\ thread' \in Notified(thread, arrival.server)
    /\ macPc' = "schedule"
    /\ arrival' = NoArrival
    /\ UNCHANGED <<tableVars, smeQueue, handles, todo, removedStreams, announced>>

\* No server listens on the port: a stream and a server in CLOSE_WAIT enter
\* the maps, so that both are reported CLOSED.
RefusedStream(id) ==
    /\ Visiting(id) /\ id \notin DOMAIN streams
    /\ ~ServerListens(id.dstPort)
    /\ endpoints' = endpoints \o <<Endpoint(id, "CLOSE_WAIT"),
                                   Endpoint(GetServerId(id), "CLOSE_WAIT")>>
    /\ streams' = Put(streams, id, fdcounter)
    /\ servers' = Put(servers, id.dstPort, fdcounter + 1)
    /\ fdt' = fdt \cup {fdcounter, fdcounter + 1}
    /\ smeQueue' = EnqueueSMEs(smeQueue, <<Sme(id, "CLOSED"),
                                           Sme(GetServerId(id), "CLOSED")>>)
    /\ todo' = todo \ {id}
    /\ UNCHANGED <<clientPorts, thread, handles, macPc, removedStreams, arrival,
                   announced>>

\* Stream::removedStream: the status it leaves, and may the stream be deleted.
Removed(e) ==
    IF e.status \in {"ESTABLISHED", "REOPENED"}
    THEN SetStatus(e, "REMOTELY_CLOSED")
    ELSE e

\* Mutant: an ESTABLISHED stream is deleted as well.
RemovableTooMuch(e) == e.status \in {"ACCEPT_WAIT", "CLOSE_WAIT", "ESTABLISHED"}

Removable(e) == e.status \in {"ACCEPT_WAIT", "CLOSE_WAIT"}

RemovedStream(id) ==
    /\ macPc = "schedule" /\ todo = {} /\ id \in removedStreams
    /\ id \in DOMAIN streams
    /\ endpoints' = [endpoints EXCEPT ![streams[id]] = Removed(@)]
    /\ IF Removable(endpoints[streams[id]]) THEN RemoveStreams({id})
                                            ELSE UNCHANGED tableVars
    /\ removedStreams' = removedStreams \ {id}
    /\ UNCHANGED <<smeQueue, thread, handles, macPc, todo, arrival, announced>>

\* streams[streamId] of an id that has left the map is a null pointer, and
\* removedStream() is called on it: the program ends.
RemovedMissingStream(id) ==
    /\ macPc = "schedule" /\ todo = {} /\ id \in removedStreams
    /\ id \notin DOMAIN streams
    /\ macPc' = "crashed"
    /\ UNCHANGED <<endpoints, tableVars, smeQueue, thread, handles, todo,
                   removedStreams, arrival, announced>>

EndSchedule ==
    /\ macPc = "schedule" /\ todo = {} /\ removedStreams = {}
    /\ macPc' = "idle"
    /\ UNCHANGED <<endpoints, tableVars, smeQueue, thread, handles, todo,
                   removedStreams, arrival, announced>>

-----------------------------------------------------------------------------
(* applyInfoElements(), one element at a time.                             *)

\* Server::acceptedServer.
AcceptedServer(e) ==
    CASE e.status = "LISTEN_WAIT"     -> SetStatus(e, "LISTEN")
      [] e.status = "REMOTELY_CLOSED" -> SetStatus(e, "REOPENED")
      [] OTHER                        -> e

\* When no server is there, one in CLOSE_WAIT tells the master that it is closed.
ServerOpened(port) ==
    /\ MacIdle /\ ServerId(port) \in announced
    /\ IF port \in DOMAIN servers
       THEN /\ endpoints' = [endpoints EXCEPT ![servers[port]] = AcceptedServer(@)]
            /\ thread' \in Notified(thread, servers[port])
            /\ UNCHANGED <<tableVars, smeQueue>>
       ELSE /\ RoomForFd
            /\ AddServer(ServerId(port), "CLOSE_WAIT")
            /\ smeQueue' = EnqueueSME(smeQueue, Sme(ServerId(port), "CLOSED"))
            /\ UNCHANGED <<streams, clientPorts, thread>>
    /\ UNCHANGED <<handles, macVars, announced>>

\* Server::rejectedServer.
ServerClosed(port) ==
    /\ MacIdle /\ ServerId(port) \in announced
    /\ port \in DOMAIN servers
    /\ endpoints' = [endpoints EXCEPT ![servers[port]] =
           IF @.status = "LISTEN_WAIT" THEN SetStatus(@, "LISTEN_FAILED") ELSE @]
    /\ thread' \in Notified(thread, servers[port])
    /\ UNCHANGED <<tableVars, smeQueue, handles, macVars, announced>>

\* Mutant: rejectedStream without the signal.
StreamRejectQuiet(id) ==
    /\ MacIdle /\ id \in announced
    /\ id \in DOMAIN streams
    /\ endpoints' = [endpoints EXCEPT ![streams[id]] =
           IF @.status = "CONNECTING" THEN SetStatus(@, "CONNECT_FAILED") ELSE @]
    /\ UNCHANGED <<tableVars, smeQueue, thread, handles, macVars, announced>>

\* Stream::rejectedStream.
RejectedStream(e) == IF e.status = "CONNECTING" THEN SetStatus(e, "CONNECT_FAILED") ELSE e

StreamReject(id) ==
    /\ MacIdle /\ id \in announced
    /\ id \in DOMAIN streams
    /\ endpoints' = [endpoints EXCEPT ![streams[id]] = RejectedStream(@)]
    /\ thread' \in Notified(thread, streams[id])
    /\ UNCHANGED <<tableVars, smeQueue, handles, macVars, announced>>

-----------------------------------------------------------------------------
(* periodicUpdate(), once a tile: what a tile does to each endpoint of the *)
(* maps, and the SME it sends.                                             *)

GivenUp == [CONNECTING |-> "CONNECT_FAILED", LISTEN_WAIT |-> "LISTEN_FAILED"]

RequestOf == [CONNECTING |-> "CONNECT", LISTEN_WAIT |-> "LISTEN"]

Opening(e) == e.status \in DOMAIN GivenUp

Closing(e) == e.status \in {"REOPENED", "CLOSE_WAIT"}

\* "failTimeout--; if(failTimeout <= 0)"
Fails(e) == Opening(e) /\ e.failTimeout - 1 <= 0

\* The tile's SME timeout: counted down before the test while opening, after
\* it while closing.
SmeExpires(e) ==
    \/ Opening(e) /\ ~Fails(e) /\ e.smeTimeout - 1 <= 0
    \/ Closing(e) /\ e.smeTimeout <= 0

\* Mutant: an expired SME timeout is not set back.
UpdatedNoReset(e) ==
    CASE Fails(e)                -> SetStatus(e, GivenUp[e.status])
      [] Opening(e) /\ ~Fails(e) -> [e EXCEPT !.failTimeout = @ - 1,
                                              !.smeTimeout = @ - 1]
      [] Closing(e)              -> [e EXCEPT !.smeTimeout = @ - 1]
      [] OTHER                   -> e

Updated(e) ==
    LET smeTimeout == IF SmeExpires(e) THEN SmeTimeoutMax ELSE e.smeTimeout - 1
    IN  CASE Fails(e) -> SetStatus(e, GivenUp[e.status])
          [] Opening(e) /\ ~Fails(e) ->
                [e EXCEPT !.failTimeout = @ - 1, !.smeTimeout = smeTimeout]
          [] Closing(e) -> [e EXCEPT !.smeTimeout = smeTimeout]
          [] OTHER -> e

\* Mutant: closing endpoints do not repeat CLOSED.
SendsOnce(e) == Fails(e) \/ (Opening(e) /\ SmeExpires(e))

Sends(e) == Fails(e) \/ SmeExpires(e)

UpdateSME(e) ==
    Sme(e.id, IF Opening(e) /\ ~Fails(e) THEN RequestOf[e.status] ELSE "CLOSED")

\* Those that send an SME, the streams and then the servers; the order among
\* the streams is arbitrary here and by id in the code.
UpdateOrder ==
    LET sending(m) == {m[x] : x \in {x \in DOMAIN m : Sends(endpoints[m[x]])}}
    IN SetToSeq(sending(streams)) \o SetToSeq(sending(servers))

\* The order of two endpoints' updates does not matter to either, so the loop
\* is one step.
PeriodicUpdate ==
    /\ MacIdle
    /\ endpoints' = [fd \in DOMAIN endpoints |->
           IF fd \in Mapped THEN Updated(endpoints[fd]) ELSE endpoints[fd]]
    /\ smeQueue' = EnqueueSMEs(smeQueue,
           [i \in DOMAIN UpdateOrder |-> UpdateSME(endpoints[UpdateOrder[i]])])
    /\ thread' = AllNotified(thread, {fd \in Mapped : Fails(endpoints[fd])})
    /\ UNCHANGED <<tableVars, handles, macVars, announced>>

-----------------------------------------------------------------------------
(* desync() and dequeueSMEs().                                             *)

\* Stream::desync: the status it leaves; a stream the node waits on neither
\* end of is deleted.
Desynced(e) ==
    CASE e.status = "CONNECTING"                  -> SetStatus(e, "CONNECT_FAILED")
      [] e.status \in {"ESTABLISHED", "REOPENED"} -> SetStatus(e, "REMOTELY_CLOSED")
      [] OTHER                                    -> e

\* The streams, under map_mutex; the servers are left as they are.
Desync ==
    /\ MacIdle
    /\ LET fds == {streams[id] : id \in DOMAIN streams} IN
       /\ endpoints' = [fd \in DOMAIN endpoints |->
              IF fd \in fds THEN Desynced(endpoints[fd]) ELSE endpoints[fd]]
       /\ thread' = AllNotified(thread, fds)
    /\ RemoveStreams({id \in DOMAIN streams : Removable(endpoints[streams[id]])})
    /\ macPc' = "desync"
    /\ UNCHANGED <<smeQueue, handles, todo, removedStreams, arrival, announced>>

\* Then the queue, under sme_mutex.
DesyncClear ==
    /\ macPc = "desync"
    /\ smeQueue' = EmptyQueue
    /\ macPc' = "idle"
    /\ UNCHANGED <<endpoints, tableVars, thread, handles, todo, removedStreams,
                   arrival, announced>>

\* The whole queue goes to the uplink phase.
DequeueSMEs ==
    /\ MacIdle
    /\ smeQueue # EmptyQueue
    /\ smeQueue' = EmptyQueue
    /\ announced' = announced \cup
           {sme.id : sme \in {s \in QueuedVals(smeQueue) : s.type # "CLOSED"}}
    /\ UNCHANGED <<endpoints, tableVars, thread, handles, macVars>>

-----------------------------------------------------------------------------
Init ==
    /\ endpoints = << >>
    /\ fdt = {}
    /\ streams = << >>
    /\ servers = << >>
    /\ clientPorts = {}
    /\ smeQueue = EmptyQueue
    /\ thread = [t \in Threads |-> Idle]
    /\ handles = {}
    /\ macPc = "idle"
    /\ todo = {}
    /\ removedStreams = {}
    /\ arrival = NoArrival
    /\ announced = {}

\* What a thread inside a call does next.
ThreadStep(t) ==
    \/ ConnectSend(t) \/ ConnectCheck(t) \/ Unconnect(t)
    \/ ListenSend(t) \/ ListenCheck(t) \/ Unlisten(t)
    \/ AcceptCheck(t) \/ AcceptLookup(t) \/ AcceptFinish(t)
    \/ CloseEndpoint(t) \/ CloseRemove(t)

\* The application starts a call.
Call(t) ==
    \/ \E target \in Targets : Connect(t, target)
    \/ \E port \in ListenPorts : Listen(t, port)
    \/ \E handle \in handles : Accept(t, handle.fd) \/ Close(t, handle)

ScheduleStep ==
    \/ \E id \in StreamIdsHere :
          AddedStream(id) \/ IncomingStream(id) \/ RefusedStream(id)
    \/ AddPendingStream
    \/ \E id \in StreamIdsHere : RemovedStream(id) \/ RemovedMissingStream(id)
    \/ EndSchedule

MacCall ==
    \/ \E schedule \in SUBSET StreamIdsHere : BeginSchedule(schedule)
    \/ \E port \in ListenPorts : ServerOpened(port) \/ ServerClosed(port)
    \/ \E id \in StreamIdsHere : StreamReject(id)
    \/ PeriodicUpdate
    \/ Desync
    \/ DequeueSMEs

Next ==
    \/ \E t \in Threads : ThreadStep(t) \/ Call(t)
    \/ ScheduleStep
    \/ MacCall
    \/ DesyncClear

Spec == Init /\ [][Next]_vars

\* Threads inside a call and the MAC thread inside a method go on, and
\* MACContext::run calls periodicUpdate once a tile, whatever else it does.
FairSpec ==
    /\ Spec
    /\ \A t \in Threads : SF_vars(ThreadStep(t))
    /\ WF_vars(ScheduleStep)
    /\ WF_vars(DesyncClear)
    /\ SF_vars(PeriodicUpdate)

-----------------------------------------------------------------------------
(* Properties.                                                             *)

Fds == 1..Len(endpoints)

SMEs == [id : StreamId, type : {"CONNECT", "LISTEN", "CLOSED"}]

\* Type invariant: every variable has the shape the code gives it.
TypeOK ==
    /\ endpoints \in Seq([id : StreamId, status : StreamStatus,
                         smeTimeout : 0..SmeTimeoutMax,
                         failTimeout : 0..FailTimeoutMax,
                         pendingAccept : Seq(Fds)])
    /\ fdt \subseteq Fds
    /\ DOMAIN streams \subseteq StreamIdsHere /\ streams \in [DOMAIN streams -> Fds]
    /\ DOMAIN servers \subseteq Nat /\ servers \in [DOMAIN servers -> Fds]
    /\ clientPorts \subseteq Ports
    /\ smeQueue \in Seq([key : StreamId \X {0, 1}, val : SMEs])
    /\ UniqueKeys(smeQueue)
    /\ thread \in [Threads -> [pc : {"idle"} \cup Waiting \cup Running,
                               fd : Fds \cup {NoObject}]]
    /\ handles \subseteq [fd : Fds, call : {"connect", "listen", "accept"}]
    /\ macPc \in {"idle", "schedule", "pending", "desync", "crashed"}
    /\ todo \subseteq StreamIdsHere
    /\ removedStreams \subseteq StreamIdsHere
    /\ arrival \in [server : Fds \cup {NoObject}, stream : Fds \cup {NoObject}]
    /\ announced \subseteq StreamId

\* The three maps agree, whatever call has been interrupted where: what the
\* maps by id and by port name is in the descriptor table under the fd of an
\* object with that id, and no stream is reachable by descriptor alone
\* (addStream, addServer, removeStream, removeServer).
TablesAgree ==
    /\ \A id \in DOMAIN streams :
          streams[id] \in fdt /\ endpoints[streams[id]].id = id
    /\ \A p \in DOMAIN servers :
          servers[p] \in fdt /\ endpoints[servers[p]].id.dstPort = p
    /\ \A fd \in fdt :
          IsStream(endpoints[fd].id) => fd \in Range(streams)

\* A client port in use is held by a stream of the map: no failed connect, no
\* close and no loss of synchronization leaks one of the maxPorts ports
\* (allocateClientPort, freeClientPort).
PortNotLeaked ==
    \A p \in clientPorts :
        \E id \in DOMAIN streams : id.src = Me /\ id.srcPort = p

\* A descriptor that connect or listen returned stays the entry of its stream
\* or port until the application closes it, whatever schedules, info elements
\* and losses of synchronization come in between.
HandlesLive ==
    \A handle \in handles :
        LET id == endpoints[handle.fd].id IN
        /\ handle.call = "connect" => id \in DOMAIN streams /\ streams[id] = handle.fd
        /\ handle.call = "listen" => /\ id.dstPort \in DOMAIN servers
                                     /\ servers[id.dstPort] = handle.fd

\* The places an incoming stream can be: pending on a server, on its way
\* there, in the hands of one accept call, or with the application.
Holders(fd) ==
    {<<"server", s>> : s \in {s \in Fds : fd \in Range(endpoints[s].pendingAccept)}}
    \cup {<<"thread", t>> : t \in {t \in Threads : thread[t].fd = fd}}
    \cup {<<"mac", NoObject>> : x \in {arrival.stream} \cap {fd}}
    \cup {<<"application", h.call>> : h \in {h \in handles : h.fd = fd}}

\* An incoming stream is handed to the application at most once: two accept
\* calls, or an accept and a close, never have the same stream in hand.
HandedOnce ==
    \A fd \in Fds :
        /\ Cardinality(Holders(fd)) > 1 => IsServer(endpoints[fd].id)
        /\ \A s \in Fds : Cardinality({i \in DOMAIN endpoints[s].pendingAccept :
                                         endpoints[s].pendingAccept[i] = fd}) <= 1

\* A stream with this id was handed to a server and its accept never came.  The
\* id may be one of this node's own: a schedule that carries a stream connect
\* has given up makes an incoming stream of it (applySchedule does not ask
\* which end the node is).
LeftOnClosedServer(id) ==
    \E s \in Fds :
        /\ endpoints[s].status = "CLOSE_WAIT"
        /\ \E f \in Range(endpoints[s].pendingAccept) : endpoints[f].id = id

\* Once connect has asked for a stream, the SME waiting to be sent for its id
\* is not the CLOSED of an earlier stream of the same id ("those SMES
\* overwrite each other", stream_management_element.h), unless the node had
\* taken that stream for an incoming one and closes the server it was left on.
LastWordIsConnect ==
    \A t \in Threads :
        /\ thread[t].pc \in {"connectWait", "connectCheck"}
        /\ Object(t).status = "CONNECTING"
        /\ IsQueued(Object(t).id, "CLOSED")
        => LeftOnClosedServer(Object(t).id)

\* Every connect call returns: the answer, the timeouts or a loss of
\* synchronization wake it, and it is the last to forget its stream.  (A
\* crash of the node, which RemovedMissingStream shows, ends it too.)
ConnectReturns ==
    \A t \in Threads :
        thread[t].pc \in {"connectSend", "connectWait", "connectCheck"}
            ~> thread[t].pc \in {"idle", "unconnect"} \/ ~Alive

\* A stream of the map that the node wants closed keeps asking the master
\* until the schedule drops it, even if every CLOSED before was lost.
ClosedRepeated ==
    \A id \in StreamIdsHere :
        (id \in DOMAIN streams /\ Closing(endpoints[streams[id]]))
            ~> \/ id \notin DOMAIN streams
               \/ ~Closing(endpoints[streams[id]])
               \/ IsQueued(id, "CLOSED")
               \/ ~Alive

-----------------------------------------------------------------------------
(* What the sources say and the code does not do.                          *)

\* stream_manager.h, of removeStream: "NOTE: to be called with the mutex
\* locked".  Then a stream that applySchedule found in the map stays there
\* until applySchedule is done with it, and the node does not end in a call
\* on a null pointer.
RemovedWhileLocked == Alive

\* stream.cpp, of a failTimeout that has run out: "Give up opening server and
\* close it".  So every listen call returns.
ListenReturns ==
    \A t \in Threads :
        thread[t].pc \in {"listenSend", "listenWait", "listenCheck"}
            ~> thread[t].pc \in {"idle", "unlisten"} \/ ~Alive

\* stream_manager.h: StreamManager "contains Stream and Server classes related
\* to the node it is running on".  Every server of the map is on this node.
ServersAreMine ==
    \A p \in DOMAIN servers : endpoints[servers[p]].id.src = Me

-----------------------------------------------------------------------------
(* The inductive invariant behind the safety properties: what a thread in  *)
(* the middle of a call, a descriptor of the application and a server's    *)
(* list of streams still say of the tables, which others change meanwhile. *)

ConnectPcs == {"connectSend", "connectWait", "connectCheck", "unconnect"}
ListenPcs == {"listenSend", "listenWait", "listenCheck", "unlisten"}
AcceptPcs == {"acceptWait", "acceptCheck"}
HandOverPcs == {"acceptLookup", "acceptFinish"}

PortOf(fd) == endpoints[fd].id.dstPort

\* The stream is the one the map has under its id, the server under its port.
IsMapped(fd) ==
    endpoints[fd].id \in DOMAIN streams /\ streams[endpoints[fd].id] = fd

IsServed(fd) == PortOf(fd) \in DOMAIN servers /\ servers[PortOf(fd)] = fd

StreamFd(fd) == fd \in Fds /\ IsStream(endpoints[fd].id)
ServerFd(fd) == fd \in Fds /\ IsServer(endpoints[fd].id)

\* The statuses of a stream the application was given and has not closed, and
\* those of a stream that connect waits for.
OpenedStatus == {"ESTABLISHED", "REMOTELY_CLOSED", "REOPENED"}
ConnectStatus == OpenedStatus \cup {"CONNECTING", "CONNECT_FAILED"}

\* The maps hold streams by id and servers by port.
MapsSound ==
    /\ TablesAgree
    /\ \A p \in DOMAIN servers : ServerFd(servers[p])

\* A server that listens keeps its port, and the streams pending on a server
\* that is not closed can all be accepted.
EndpointsSound ==
    \A fd \in Fds :
        /\ ServerFd(fd) =>
              /\ endpoints[fd].status \in {"LISTEN_WAIT", "LISTEN_FAILED", "LISTEN",
                                           "CLOSE_WAIT"}
              /\ endpoints[fd].status = "LISTEN" => IsServed(fd)
        /\ StreamFd(fd) => endpoints[fd].pendingAccept = << >>
        /\ \A f \in Range(endpoints[fd].pendingAccept) :
              /\ StreamFd(f)
              /\ endpoints[f].status \in {"ACCEPT_WAIT", "CLOSE_WAIT"}
              /\ endpoints[fd].status # "CLOSE_WAIT" =>
                    endpoints[f].status = "ACCEPT_WAIT"

\* connect still finds its stream in the map, however long it sleeps.
ConnectSound(t) ==
    thread[t].pc \in ConnectPcs =>
        /\ StreamFd(thread[t].fd)
        /\ IsMapped(thread[t].fd)
        /\ Object(t).status \in ConnectStatus

\* One listen at a time has a port; its server may have been replaced in the map
\* by one in CLOSE_WAIT and by no other.
ListenSound(t) ==
    thread[t].pc \in ListenPcs =>
        LET fd == thread[t].fd
        IN  /\ ServerFd(fd)
            /\ PortOf(fd) \in DOMAIN servers
            /\ \/ servers[PortOf(fd)] = fd
               \/ endpoints[servers[PortOf(fd)]].status = "CLOSE_WAIT"
            /\ thread[t].pc = "unlisten" =>
                  Object(t).status \notin {"LISTEN_WAIT", "LISTEN"}
            /\ \A h \in handles : h.call = "listen" => PortOf(h.fd) # PortOf(fd)
            /\ \A u \in Threads \ {t} :
                  /\ thread[u].fd # fd
                  /\ thread[u].pc \in ListenPcs => PortOf(thread[u].fd) # PortOf(fd)

AcceptSound(t) ==
    /\ thread[t].pc \in AcceptPcs => ServerFd(thread[t].fd)
    /\ thread[t].pc \in HandOverPcs =>
          StreamFd(thread[t].fd) /\ Object(t).status = "ACCEPT_WAIT"

\* close is alone with its object, and between its two critical sections a
\* stream stays in the map.
CloseSound(t) ==
    /\ thread[t].pc = "closeEndpoint" =>
          /\ \A h \in handles : h.fd # thread[t].fd
          /\ \A u \in Threads \ {t} :
                thread[u].pc = "closeEndpoint" => thread[u].fd # thread[t].fd
          /\ \/ ServerFd(thread[t].fd) /\ Object(t).status = "LISTEN"
             \/ /\ StreamFd(thread[t].fd)
                /\ IsMapped(thread[t].fd)
                /\ Object(t).status \in OpenedStatus
    /\ thread[t].pc = "closeRemove" =>
          /\ StreamFd(thread[t].fd)
          /\ IsMapped(thread[t].fd)
          /\ Object(t).status \in {"REMOTELY_CLOSED", "REOPENED"}

ThreadsSound ==
    \A t \in Threads :
        /\ thread[t].pc = "idle" <=> thread[t].fd = NoObject
        /\ ConnectSound(t) /\ ListenSound(t) /\ AcceptSound(t) /\ CloseSound(t)

HandlesSound ==
    \A h \in handles :
        /\ h.call = "listen" => ServerFd(h.fd) /\ endpoints[h.fd].status = "LISTEN"
        /\ h.call # "listen" =>
              StreamFd(h.fd) /\ endpoints[h.fd].status \in OpenedStatus
        /\ h.call = "connect" => IsMapped(h.fd)

ArrivalSound ==
    IF macPc = "pending"
    THEN /\ StreamFd(arrival.stream) /\ ServerFd(arrival.server)
         /\ endpoints[arrival.stream].status = "ACCEPT_WAIT"
    ELSE arrival = NoArrival

\* HandedOnce, said without counting.
OneHolder ==
    \A fd \in Fds :
        /\ StreamFd(fd) => \A x, y \in Holders(fd) : x = y
        /\ \A i, j \in DOMAIN endpoints[fd].pendingAccept :
              endpoints[fd].pendingAccept[i] = endpoints[fd].pendingAccept[j] => i = j

\* What is queued is queued under its key.
QueueSound ==
    \A i \in 1..Len(smeQueue) : smeQueue[i].key = GetKey(smeQueue[i].val)

IInv ==
    /\ TypeOK
    /\ MapsSound /\ PortNotLeaked
    /\ EndpointsSound /\ ThreadsSound /\ HandlesSound /\ ArrivalSound
    /\ OneHolder
    /\ QueueSound /\ LastWordIsConnect
=============================================================================
