--------------------- MODULE StreamManagerSteps_proofs ----------------------
(***************************************************************************)
(* Every step of one node's streams and servers keeps the invariant's core,*)
(* which is all of it but what it says of the queue of SMEs.  First the    *)
(* lemmas about the endpoints, the tables, and what calls, descriptors and *)
(* pending streams rely on.                                                *)
(***************************************************************************)
EXTENDS StreamManager, FiniteSetTheorems, Arithmetic_proofs

\* A sequence whose elements are all in B.
LEMMA SequenceIn ==
    ASSUME NEW A, NEW B, NEW s \in Seq(A), \A i \in 1..Len(s) : s[i] \in B
    PROVE  s \in Seq(B)
  OBVIOUS

-----------------------------------------------------------------------------
(***************************************************************************)
(* Endpoints.                                                              *)
(***************************************************************************)
EndpointOf(n) ==
    [id : StreamId, status : StreamStatus, smeTimeout : 0..SmeTimeoutMax,
     failTimeout : 0..FailTimeoutMax, pendingAccept : Seq(1..n)]

\* How the MAC thread changes the status of an endpoint.
StatusMoves(e, f) ==
    \/ f.status = e.status
    \/ e.status = "CONNECTING" /\ f.status \in {"ESTABLISHED", "CONNECT_FAILED"}
    \/ e.status = "REMOTELY_CLOSED" /\ f.status = "REOPENED"
    \/ e.status \in {"ESTABLISHED", "REOPENED"} /\ f.status = "REMOTELY_CLOSED"
    \/ e.status = "LISTEN_WAIT" /\ f.status \in {"LISTEN", "LISTEN_FAILED"}

\* All the rest that is looked at from elsewhere stays.
Moves(e, f) ==
    /\ f.id = e.id
    /\ f.pendingAccept = e.pendingAccept
    /\ StatusMoves(e, f)

\* setStatus sets the status and the timeouts and leaves the rest.
LEMMA SetStatusType ==
    ASSUME NEW n, NEW e \in EndpointOf(n), NEW status \in StreamStatus
    PROVE  /\ SetStatus(e, status) \in EndpointOf(n)
           /\ SetStatus(e, status).id = e.id
           /\ SetStatus(e, status).status = status
           /\ SetStatus(e, status).pendingAccept = e.pendingAccept
<1>1. SmeTimeoutMax \in 0..SmeTimeoutMax /\ FailTimeoutMax \in 0..FailTimeoutMax
  BY BoundsAssumption
<1> QED
  BY <1>1 DEF SetStatus, EndpointOf

\* A new endpoint.
LEMMA EndpointType ==
    ASSUME NEW n \in Nat, NEW id \in StreamId, NEW status \in StreamStatus
    PROVE  Endpoint(id, status) \in EndpointOf(n)
  BY BoundsAssumption DEF Endpoint, EndpointOf

\* The fds of fewer endpoints are fds of more.
LEMMA EndpointGrows ==
    ASSUME NEW m \in Nat, NEW n \in Nat, m <= n
    PROVE  EndpointOf(m) \subseteq EndpointOf(n)
<1>1. Seq(1..m) \subseteq Seq(1..n)
  <2> SUFFICES ASSUME NEW s \in Seq(1..m) PROVE s \in Seq(1..n)
    OBVIOUS
  <2>1. \A i \in 1..Len(s) : s[i] \in 1..n
    OBVIOUS
  <2> QED
    BY <2>1
<1> QED
  BY <1>1 DEF EndpointOf

\* The type invariant, of one endpoint.
LEMMA EndpointIn ==
    ASSUME TypeOK
    PROVE  /\ Len(endpoints) \in Nat /\ Fds = 1..Len(endpoints)
           /\ endpoints \in Seq(EndpointOf(Len(endpoints)))
           /\ \A fd \in Fds : /\ endpoints[fd] \in EndpointOf(Len(endpoints))
                              /\ endpoints[fd].id \in StreamId
                              /\ endpoints[fd].pendingAccept \in Seq(Fds)
<1>1. endpoints \in Seq(EndpointOf(Len(endpoints)))
  BY DEF TypeOK, EndpointOf, Fds
<1>2. \A fd \in 1..Len(endpoints) : endpoints[fd] \in EndpointOf(Len(endpoints))
  BY <1>1
<1> QED
  BY <1>1, <1>2 DEF EndpointOf, Fds

\* The methods the MAC thread calls on an endpoint.
LEMMA MacMoves ==
    ASSUME NEW n, NEW e \in EndpointOf(n)
    PROVE  \A f \in {Added(e), Removed(e), AcceptedServer(e), RejectedStream(e),
                     Updated(e), Desynced(e),
                     IF e.status = "LISTEN_WAIT" THEN SetStatus(e, "LISTEN_FAILED") ELSE e} :
              f \in EndpointOf(n) /\ Moves(e, f)
<1> DEFINE ok(f) == f \in EndpointOf(n) /\ Moves(e, f)
<1>0. ok(e)
  BY DEF Moves, StatusMoves
<1>1. ok(Added(e))
  BY <1>0, SetStatusType DEF Added, Moves, StatusMoves, StreamStatus
<1>2. ok(Removed(e))
  BY <1>0, SetStatusType DEF Removed, Moves, StatusMoves, StreamStatus
<1>3. ok(AcceptedServer(e))
  BY <1>0, SetStatusType DEF AcceptedServer, Moves, StatusMoves, StreamStatus
<1>4. ok(RejectedStream(e))
  BY <1>0, SetStatusType DEF RejectedStream, Moves, StatusMoves, StreamStatus
<1>5. ok(Desynced(e))
  BY <1>0, SetStatusType DEF Desynced, Moves, StatusMoves, StreamStatus
<1>6. ok(IF e.status = "LISTEN_WAIT" THEN SetStatus(e, "LISTEN_FAILED") ELSE e)
  BY <1>0, SetStatusType DEF Moves, StatusMoves, StreamStatus
<1>7. ok(Updated(e))
  <2>0. (Fails(e) => Opening(e)) /\ ~(Opening(e) /\ Closing(e))
    BY DEF Fails, Opening, Closing, GivenUp
  <2>1. CASE Fails(e)
    <3>1. /\ e.status \in {"CONNECTING", "LISTEN_WAIT"}
          /\ GivenUp["CONNECTING"] = "CONNECT_FAILED"
          /\ GivenUp["LISTEN_WAIT"] = "LISTEN_FAILED"
      BY <2>1 DEF Fails, Opening, GivenUp
    <3>2. Updated(e) = SetStatus(e, GivenUp[e.status])
      BY <2>0, <2>1 DEF Updated
    <3> QED
      BY <3>1, <3>2, SetStatusType DEF Moves, StatusMoves, StreamStatus
  <2>2. CASE ~Fails(e) /\ Opening(e)
    <3>1. e.failTimeout - 1 \in 0..FailTimeoutMax
      BY <2>2, BoundsAssumption DEF Fails, EndpointOf
    <3>2. (IF SmeExpires(e) THEN SmeTimeoutMax ELSE e.smeTimeout - 1) \in 0..SmeTimeoutMax
      BY <2>2, BoundsAssumption DEF SmeExpires, EndpointOf
    <3>3. Updated(e) = [e EXCEPT !.failTimeout = e.failTimeout - 1,
            !.smeTimeout = IF SmeExpires(e) THEN SmeTimeoutMax ELSE e.smeTimeout - 1]
      BY <2>0, <2>2 DEF Updated
    <3> QED
      BY <3>1, <3>2, <3>3 DEF Moves, StatusMoves, EndpointOf
  <2>3. CASE ~Fails(e) /\ ~Opening(e) /\ Closing(e)
    <3>1. (IF SmeExpires(e) THEN SmeTimeoutMax ELSE e.smeTimeout - 1) \in 0..SmeTimeoutMax
      BY <2>3, BoundsAssumption DEF SmeExpires, EndpointOf
    <3>2. Updated(e) = [e EXCEPT
            !.smeTimeout = IF SmeExpires(e) THEN SmeTimeoutMax ELSE e.smeTimeout - 1]
      BY <2>0, <2>3 DEF Updated
    <3> QED
      BY <3>1, <3>2 DEF Moves, StatusMoves, EndpointOf
  <2> QED
    BY <1>0, <2>1, <2>2, <2>3 DEF Updated
<1> QED
  BY <1>1, <1>2, <1>3, <1>4, <1>5, <1>6, <1>7

-----------------------------------------------------------------------------
(***************************************************************************)
(* What calls, descriptors and pending streams rely on, and what keeps it. *)
(***************************************************************************)
\* Thread t is in the same call as before, with the same object.
SameCall(t) ==
    /\ thread'[t].fd = thread[t].fd
    /\ \/ thread'[t].pc = thread[t].pc
       \/ thread[t].pc \in ConnectPcs /\ thread'[t].pc \in ConnectPcs
       \/ /\ thread[t].pc \in ListenPcs /\ thread'[t].pc \in ListenPcs
          /\ thread'[t].pc = "unlisten" =>
                Object(t).status \notin {"LISTEN_WAIT", "LISTEN"}
       \/ thread[t].pc \in AcceptPcs /\ thread'[t].pc \in AcceptPcs
       \/ thread[t].pc \in HandOverPcs /\ thread'[t].pc \in HandOverPcs

\* The parts of the invariant on calls, descriptors and pending streams.
CallParts ==
    /\ EndpointsSound /\ ThreadsSound /\ HandlesSound /\ ArrivalSound
    /\ OneHolder

\* What a signal does to the threads: those that sleep may wake.
LEMMA NotifiedSameCall ==
    ASSUME NEW fd, thread \in [Threads -> [pc : {"idle"} \cup Waiting \cup Running,
                                           fd : Fds \cup {NoObject}]],
           thread' \in Notified(thread, fd)
    PROVE  /\ \A t \in Threads : SameCall(t)
           /\ thread' \in [Threads -> [pc : {"idle"} \cup Waiting \cup Running,
                                       fd : Fds \cup {NoObject}]]
<1>1. CASE thread' = thread
  BY <1>1 DEF SameCall
<1>2. CASE thread' # thread
  <2>1. PICK t \in Sleepers(thread, fd) : thread' = Goto(thread, t, Awake(thread[t].pc))
    BY <1>2 DEF Notified
  <2>2. t \in Threads /\ thread[t].pc \in Waiting
    BY <2>1 DEF Sleepers
  <2>3. /\ Awake(thread[t].pc) \in Running
        /\ \/ thread[t].pc = "connectWait" /\ Awake(thread[t].pc) = "connectCheck"
           \/ thread[t].pc = "listenWait" /\ Awake(thread[t].pc) = "listenCheck"
           \/ thread[t].pc = "acceptWait" /\ Awake(thread[t].pc) = "acceptCheck"
    BY <2>2 DEF Awake, Waiting, Running
  <2>4. \A u \in Threads : /\ thread'[u].fd = thread[u].fd
                           /\ thread'[u].pc =
                                IF u = t THEN Awake(thread[t].pc) ELSE thread[u].pc
    BY <2>1, <2>2 DEF Goto
  <2> QED
    BY <2>1, <2>2, <2>3, <2>4 DEF Goto, SameCall, ConnectPcs, ListenPcs, AcceptPcs
<1> QED
  BY <1>1, <1>2

\* The same when several condition variables are signalled at once.
LEMMA AllNotifiedSameCall ==
    ASSUME NEW fds, thread \in [Threads -> [pc : {"idle"} \cup Waiting \cup Running,
                                            fd : Fds \cup {NoObject}]],
           thread' = AllNotified(thread, fds)
    PROVE  /\ \A t \in Threads : SameCall(t)
           /\ thread' \in [Threads -> [pc : {"idle"} \cup Waiting \cup Running,
                                       fd : Fds \cup {NoObject}]]
<1>1. \A t \in Threads : thread[t].pc \in Waiting =>
        /\ Awake(thread[t].pc) \in Running
        /\ \/ thread[t].pc = "connectWait" /\ Awake(thread[t].pc) = "connectCheck"
           \/ thread[t].pc = "listenWait" /\ Awake(thread[t].pc) = "listenCheck"
           \/ thread[t].pc = "acceptWait" /\ Awake(thread[t].pc) = "acceptCheck"
  BY DEF Awake, Waiting, Running
<1>2. \A t \in Threads :
        thread'[t] = IF thread[t].fd \in fds /\ thread[t].pc \in Waiting
                     THEN [pc |-> Awake(thread[t].pc), fd |-> thread[t].fd] ELSE thread[t]
  BY DEF AllNotified
<1> QED
  BY <1>1, <1>2 DEF AllNotified, SameCall, ConnectPcs, ListenPcs, AcceptPcs

\* What an idle thread, a thread in connect, listen, accept or close relies on.
CallSound(t) ==
    /\ thread[t].pc = "idle" <=> thread[t].fd = NoObject
    /\ ConnectSound(t) /\ ListenSound(t) /\ AcceptSound(t) /\ CloseSound(t)

\* Endpoints are only added, and their ids and CLOSE_WAIT are for ever.
Steady ==
    /\ Fds \subseteq Fds'
    /\ \A fd \in Fds :
          /\ endpoints'[fd].id = endpoints[fd].id
          /\ endpoints[fd].status = "CLOSE_WAIT" => endpoints'[fd].status = "CLOSE_WAIT"

\* An endpoint stays what it is to the one that works on it.
Kept(fd) ==
    /\ StatusMoves(endpoints[fd], endpoints'[fd])
    /\ IsMapped(fd) /\ ~Removable(endpoints[fd]) => IsMapped(fd)'

\* A port's server stays, or is replaced by one in CLOSE_WAIT.
PortKept(p) ==
    p \in DOMAIN servers =>
        /\ p \in DOMAIN servers'
        /\ \/ servers'[p] = servers[p]
           \/ endpoints'[servers'[p]].status = "CLOSE_WAIT"

\* What u does next takes nothing that t works on.
Apart(t, u) ==
    \/ SameCall(u)
    \/ thread'[u] = Idle
    \/ /\ thread[t].pc \in ListenPcs =>
             /\ thread'[u].fd # thread[t].fd
             /\ thread'[u].pc \in ListenPcs =>
                   endpoints'[thread'[u].fd].id.dstPort # PortOf(thread[t].fd)
       /\ thread[t].pc = "closeEndpoint" /\ thread'[u].pc = "closeEndpoint" =>
             thread'[u].fd # thread[t].fd

\* Nor does what the application is given.
HandleApart(t, h) ==
    /\ h.fd \in Fds
    /\ h.fd # thread[t].fd
    /\ thread[t].pc \in ListenPcs /\ h.call = "listen" =>
          endpoints[h.fd].id.dstPort # PortOf(thread[t].fd)

\* The status of an endpoint that is kept.
LEMMA KeptStatus ==
    ASSUME NEW fd, Kept(fd)
    PROVE  /\ endpoints[fd].status \in ConnectStatus => endpoints'[fd].status \in ConnectStatus
           /\ endpoints[fd].status \in OpenedStatus => endpoints'[fd].status \in OpenedStatus
           /\ endpoints[fd].status \in {"REMOTELY_CLOSED", "REOPENED"} =>
                 endpoints'[fd].status \in {"REMOTELY_CLOSED", "REOPENED"}
           /\ \A s \in {"LISTEN", "ACCEPT_WAIT", "CLOSE_WAIT"} :
                 endpoints[fd].status = s => endpoints'[fd].status = s
           /\ endpoints'[fd].status \in {"LISTEN_WAIT", "LISTEN"} =>
                 endpoints[fd].status \in {"LISTEN_WAIT", "LISTEN"}
           /\ IsMapped(fd) /\ endpoints[fd].status \in ConnectStatus => IsMapped(fd)'
           /\ OpenedStatus \subseteq ConnectStatus
           /\ {"REMOTELY_CLOSED", "REOPENED"} \subseteq OpenedStatus
<1>1. StatusMoves(endpoints[fd], endpoints'[fd])
  BY DEF Kept
<1>2. endpoints[fd].status \in ConnectStatus => ~Removable(endpoints[fd])
  BY DEF ConnectStatus, OpenedStatus, Removable
<1>3. IsMapped(fd) /\ endpoints[fd].status \in ConnectStatus => IsMapped(fd)'
  BY <1>2 DEF Kept
<1> QED
  BY <1>1, <1>3 DEF StatusMoves, ConnectStatus, OpenedStatus

\* A call goes on undisturbed.
LEMMA CallFrame ==
    ASSUME TypeOK, Steady, NEW t \in Threads, CallSound(t), SameCall(t),
           \A u \in Threads : thread[u].pc \in ListenPcs => thread[u].fd \in Fds,
           \A fd \in Fds : fd = thread[t].fd /\ thread[t].pc \notin AcceptPcs => Kept(fd),
           thread[t].pc \in ListenPcs => PortKept(PortOf(thread[t].fd)),
           \A h \in handles' \ handles : HandleApart(t, h),
           \A u \in Threads \ {t} : Apart(t, u)
    PROVE  CallSound(t)'
<1> PICK fd : fd = thread[t].fd
  OBVIOUS
<1>1. thread'[t].fd = fd /\ fd \in Fds \cup {NoObject}
  BY DEF SameCall, TypeOK
<1>2. /\ thread'[t].pc = "idle" <=> thread[t].pc = "idle"
      /\ thread'[t].pc \in ConnectPcs <=> thread[t].pc \in ConnectPcs
      /\ thread'[t].pc \in ListenPcs <=> thread[t].pc \in ListenPcs
      /\ thread'[t].pc \in AcceptPcs <=> thread[t].pc \in AcceptPcs
      /\ thread'[t].pc \in HandOverPcs <=> thread[t].pc \in HandOverPcs
      /\ \A pc \in {"closeEndpoint", "closeRemove"} : thread'[t].pc = pc <=> thread[t].pc = pc
      /\ thread'[t].pc = "unlisten" =>
            \/ thread[t].pc = "unlisten"
            \/ endpoints[fd].status \notin {"LISTEN_WAIT", "LISTEN"}
  BY DEF SameCall, Object, ConnectPcs, ListenPcs, AcceptPcs, HandOverPcs
<1>3. \A f \in Fds : /\ f \in Fds' /\ endpoints'[f].id = endpoints[f].id
                     /\ (StreamFd(f)' <=> StreamFd(f)) /\ (ServerFd(f)' <=> ServerFd(f))
                     /\ PortOf(f)' = PortOf(f)
  BY DEF Steady, StreamFd, ServerFd, PortOf
<1>4. (thread[t].pc = "idle" <=> thread[t].fd = NoObject)'
  BY <1>1, <1>2 DEF CallSound
<1>5. ConnectSound(t)'
  <2>1. CASE thread[t].pc \in ConnectPcs
    <3>1. fd \in Fds /\ IsMapped(fd) /\ endpoints[fd].status \in ConnectStatus /\ StreamFd(fd)
      BY <2>1 DEF CallSound, ConnectSound, StreamFd, Object
    <3>2. Kept(fd)
      BY <2>1, <3>1 DEF ConnectPcs, AcceptPcs
    <3>3. StreamFd(fd)' /\ IsMapped(fd)' /\ endpoints'[fd].status \in ConnectStatus
      BY <1>3, <3>1, <3>2, KeptStatus
    <3> QED
      BY <1>1, <3>3 DEF ConnectSound, Object, StreamFd, IsMapped
  <2> QED
    BY <1>2, <2>1 DEF ConnectSound
<1>6. AcceptSound(t)'
  <2>1. CASE thread[t].pc \in AcceptPcs
    <3>1. ServerFd(fd) /\ fd \in Fds
      BY <2>1 DEF CallSound, AcceptSound, ServerFd
    <3>2. thread'[t].pc \notin HandOverPcs
      BY <1>2, <2>1 DEF AcceptPcs, HandOverPcs
    <3> QED
      BY <1>1, <1>3, <3>1, <3>2 DEF AcceptSound, ServerFd
  <2>2. CASE thread[t].pc \in HandOverPcs
    <3>1. fd \in Fds /\ StreamFd(fd) /\ endpoints[fd].status = "ACCEPT_WAIT"
      BY <2>2 DEF CallSound, AcceptSound, StreamFd, Object
    <3>2. Kept(fd) /\ thread'[t].pc \notin AcceptPcs
      BY <1>2, <2>2, <3>1 DEF HandOverPcs, AcceptPcs
    <3>3. StreamFd(fd)' /\ endpoints'[fd].status = "ACCEPT_WAIT"
      BY <1>3, <3>1, <3>2, KeptStatus
    <3> QED
      BY <1>1, <3>2, <3>3 DEF AcceptSound, Object, StreamFd
  <2> QED
    BY <1>2, <2>1, <2>2 DEF AcceptSound
<1>7. ASSUME thread[t].pc = "closeEndpoint"
      PROVE  /\ \A h \in handles' : h.fd # fd
             /\ \A u \in Threads \ {t} :
                   thread'[u].pc = "closeEndpoint" => thread'[u].fd # fd
             /\ \/ ServerFd(fd)' /\ endpoints'[fd].status = "LISTEN"
                \/ StreamFd(fd)' /\ IsMapped(fd)' /\ endpoints'[fd].status \in OpenedStatus
  <2>1. /\ \A h \in handles : h.fd # fd
        /\ \A u \in Threads \ {t} : thread[u].pc = "closeEndpoint" => thread[u].fd # fd
        /\ \/ ServerFd(fd) /\ endpoints[fd].status = "LISTEN"
           \/ StreamFd(fd) /\ IsMapped(fd) /\ endpoints[fd].status \in OpenedStatus
    BY <1>7 DEF CallSound, CloseSound, Object
  <2>2. fd \in Fds /\ Kept(fd)
    BY <1>7, <2>1 DEF ServerFd, StreamFd, AcceptPcs
  <2>3. \A h \in handles' : h.fd # fd
    BY <2>1 DEF HandleApart
  <2>4. \A u \in Threads \ {t} : thread'[u].pc = "closeEndpoint" => thread'[u].fd # fd
    BY <1>7, <2>1 DEF Apart, Idle, SameCall, ConnectPcs, ListenPcs, AcceptPcs, HandOverPcs
  <2> QED
    BY <1>3, <2>1, <2>2, <2>3, <2>4, KeptStatus
<1>8. ASSUME thread[t].pc = "closeRemove"
      PROVE  /\ StreamFd(fd)' /\ IsMapped(fd)'
             /\ endpoints'[fd].status \in {"REMOTELY_CLOSED", "REOPENED"}
  <2>1. /\ StreamFd(fd) /\ IsMapped(fd) /\ fd \in Fds
        /\ endpoints[fd].status \in {"REMOTELY_CLOSED", "REOPENED"}
    BY <1>8 DEF CallSound, CloseSound, Object, StreamFd
  <2>2. Kept(fd)
    BY <1>8, <2>1 DEF AcceptPcs
  <2> QED
    BY <1>3, <2>1, <2>2, KeptStatus
<1>9. CloseSound(t)'
  BY <1>1, <1>2, <1>7, <1>8 DEF CloseSound, Object, StreamFd, ServerFd, IsMapped
<1>10. ASSUME thread[t].pc \in ListenPcs
       PROVE  /\ ServerFd(fd)'
              /\ PortOf(fd)' \in DOMAIN servers'
              /\ \/ servers'[PortOf(fd)'] = fd
                 \/ endpoints'[servers'[PortOf(fd)']].status = "CLOSE_WAIT"
              /\ thread'[t].pc = "unlisten" =>
                    endpoints'[fd].status \notin {"LISTEN_WAIT", "LISTEN"}
              /\ \A h \in handles' : h.call = "listen" => PortOf(h.fd)' # PortOf(fd)'
              /\ \A u \in Threads \ {t} :
                    /\ thread'[u].fd # fd
                    /\ thread'[u].pc \in ListenPcs =>
                          endpoints'[thread'[u].fd].id.dstPort # PortOf(fd)'
  <2>1. /\ ServerFd(fd) /\ fd \in Fds
        /\ PortOf(fd) \in DOMAIN servers
        /\ \/ servers[PortOf(fd)] = fd
           \/ endpoints[servers[PortOf(fd)]].status = "CLOSE_WAIT"
        /\ thread[t].pc = "unlisten" => endpoints[fd].status \notin {"LISTEN_WAIT", "LISTEN"}
        /\ \A h \in handles : h.call = "listen" => PortOf(h.fd) # PortOf(fd)
        /\ \A u \in Threads \ {t} :
              /\ thread[u].fd # fd
              /\ thread[u].pc \in ListenPcs => PortOf(thread[u].fd) # PortOf(fd)
    BY <1>10 DEF CallSound, ListenSound, Object, ServerFd
  <2>2. Kept(fd) /\ PortOf(fd)' = PortOf(fd)
    BY <1>3, <1>10, <2>1 DEF ListenPcs, AcceptPcs
  <2>3. servers[PortOf(fd)] \in Fds
    BY <2>1 DEF TypeOK
  <2>4. /\ PortOf(fd) \in DOMAIN servers'
        /\ \/ servers'[PortOf(fd)] = fd
           \/ endpoints'[servers'[PortOf(fd)]].status = "CLOSE_WAIT"
    BY <1>10, <2>1, <2>3 DEF PortKept, Steady
  <2>5. thread'[t].pc = "unlisten" => endpoints'[fd].status \notin {"LISTEN_WAIT", "LISTEN"}
    BY <1>2, <2>1, <2>2, KeptStatus
  <2>6. \A h \in handles' : h.call = "listen" => PortOf(h.fd)' # PortOf(fd)
    <3> SUFFICES ASSUME NEW h \in handles', h.call = "listen"
                 PROVE  PortOf(h.fd)' # PortOf(fd)
      OBVIOUS
    <3>1. h.fd \in Fds
      BY DEF HandleApart, TypeOK
    <3>2. PortOf(h.fd) # PortOf(fd)
      BY <1>10, <2>1 DEF HandleApart, PortOf
    <3> QED
      BY <1>3, <3>1, <3>2
  <2>7. ASSUME NEW u \in Threads \ {t}
        PROVE  /\ thread'[u].fd # fd
               /\ thread'[u].pc \in ListenPcs =>
                     endpoints'[thread'[u].fd].id.dstPort # PortOf(fd)
    <3>1. CASE SameCall(u)
      <4>1. thread'[u].fd = thread[u].fd /\ (thread'[u].pc \in ListenPcs => thread[u].pc \in ListenPcs)
        BY <3>1 DEF SameCall, ConnectPcs, ListenPcs, AcceptPcs, HandOverPcs
      <4>2. thread[u].pc \in ListenPcs => endpoints'[thread[u].fd].id = endpoints[thread[u].fd].id
        BY <1>3
      <4> QED
        BY <2>1, <4>1, <4>2 DEF PortOf
    <3>2. CASE ~SameCall(u)
      <4>1. "idle" \notin ListenPcs /\ NoObject \notin Fds
        BY DEF ListenPcs, NoObject, Fds
      <4>2. Apart(t, u)
        BY <2>7
      <4> QED
        BY <1>10, <2>1, <3>2, <4>1, <4>2 DEF Apart, Idle
    <3> QED
      BY <3>1, <3>2
  <2> QED
    BY <1>3, <2>1, <2>2, <2>4, <2>5, <2>6, <2>7
<1>11. ListenSound(t)'
  BY <1>1, <1>2, <1>10 DEF ListenSound, Object, ServerFd, PortOf
<1> QED
  BY <1>4, <1>5, <1>6, <1>9, <1>11 DEF CallSound

\* Servers and pending streams, when the statuses move and endpoints are added.
LEMMA EndpointsFrame ==
    ASSUME TypeOK, EndpointsSound, Steady,
           \A fd \in Fds : /\ StatusMoves(endpoints[fd], endpoints'[fd])
                           /\ endpoints'[fd].pendingAccept = endpoints[fd].pendingAccept,
           \A fd \in Fds : endpoints'[fd].status = "LISTEN" /\ ServerFd(fd) =>
               IsServed(fd)' \/ (endpoints[fd].status = "LISTEN" /\ (IsServed(fd) => IsServed(fd)')),
           \A fd \in Fds' \ Fds :
               /\ endpoints'[fd].pendingAccept = << >>
               /\ ServerFd(fd)' => endpoints'[fd].status \in {"LISTEN_WAIT", "CLOSE_WAIT"}
    PROVE  EndpointsSound'
<1>1. \A f \in Fds : /\ f \in Fds' /\ endpoints'[f].id = endpoints[f].id
                     /\ (StreamFd(f)' <=> StreamFd(f)) /\ (ServerFd(f)' <=> ServerFd(f))
  BY DEF Steady, StreamFd, ServerFd
<1> SUFFICES ASSUME NEW fd \in Fds'
             PROVE  /\ ServerFd(fd)' =>
                          /\ endpoints'[fd].status \in {"LISTEN_WAIT", "LISTEN_FAILED",
                                                        "LISTEN", "CLOSE_WAIT"}
                          /\ endpoints'[fd].status = "LISTEN" => IsServed(fd)'
                    /\ StreamFd(fd)' => endpoints'[fd].pendingAccept = << >>
                    /\ \A f \in Range(endpoints'[fd].pendingAccept) :
                          /\ StreamFd(f)'
                          /\ endpoints'[f].status \in {"ACCEPT_WAIT", "CLOSE_WAIT"}
                          /\ endpoints'[fd].status # "CLOSE_WAIT" =>
                                endpoints'[f].status = "ACCEPT_WAIT"
  BY DEF EndpointsSound
<1>2. CASE fd \in Fds
  <2>1. /\ ServerFd(fd) =>
              /\ endpoints[fd].status \in {"LISTEN_WAIT", "LISTEN_FAILED", "LISTEN",
                                           "CLOSE_WAIT"}
              /\ endpoints[fd].status = "LISTEN" => IsServed(fd)
        /\ StreamFd(fd) => endpoints[fd].pendingAccept = << >>
    BY <1>2 DEF EndpointsSound
  <2>2. ServerFd(fd)' =>
              /\ endpoints'[fd].status \in {"LISTEN_WAIT", "LISTEN_FAILED", "LISTEN",
                                            "CLOSE_WAIT"}
              /\ endpoints'[fd].status = "LISTEN" => IsServed(fd)'
    BY <1>1, <1>2, <2>1 DEF StatusMoves
  <2>3. ASSUME NEW f \in Range(endpoints'[fd].pendingAccept)
        PROVE  /\ StreamFd(f)'
               /\ endpoints'[f].status \in {"ACCEPT_WAIT", "CLOSE_WAIT"}
               /\ endpoints'[fd].status # "CLOSE_WAIT" => endpoints'[f].status = "ACCEPT_WAIT"
    <3>1. /\ StreamFd(f) /\ endpoints[f].status \in {"ACCEPT_WAIT", "CLOSE_WAIT"}
          /\ endpoints[fd].status # "CLOSE_WAIT" => endpoints[f].status = "ACCEPT_WAIT"
      BY <1>2 DEF EndpointsSound
    <3>2. f \in Fds
      BY <3>1 DEF StreamFd
    <3> QED
      BY <1>1, <1>2, <3>1, <3>2 DEF StatusMoves, Steady
  <2> QED
    BY <1>1, <1>2, <2>1, <2>2, <2>3
<1>3. CASE fd \notin Fds
  <2>1. Range(<< >>) = {}
    BY DEF Range
  <2> QED
    BY <1>3, <2>1
<1> QED
  BY <1>2, <1>3

\* The application's descriptors.
LEMMA HandlesFrame ==
    ASSUME TypeOK, HandlesSound, Steady,
           \A h \in handles : h \in handles' => Kept(h.fd),
           \A h \in handles' \ handles :
               /\ h.call = "listen" => ServerFd(h.fd)' /\ endpoints'[h.fd].status = "LISTEN"
               /\ h.call # "listen" =>
                     StreamFd(h.fd)' /\ endpoints'[h.fd].status \in OpenedStatus
               /\ h.call = "connect" => IsMapped(h.fd)'
    PROVE  HandlesSound'
<1>1. \A f \in Fds : /\ (StreamFd(f)' <=> StreamFd(f)) /\ (ServerFd(f)' <=> ServerFd(f))
  BY DEF Steady, StreamFd, ServerFd
<1>2. ASSUME NEW h \in handles', h \in handles
      PROVE  /\ h.call = "listen" => ServerFd(h.fd)' /\ endpoints'[h.fd].status = "LISTEN"
             /\ h.call # "listen" =>
                   StreamFd(h.fd)' /\ endpoints'[h.fd].status \in OpenedStatus
             /\ h.call = "connect" => IsMapped(h.fd)'
  <2>1. h.fd \in Fds /\ Kept(h.fd)
    BY <1>2 DEF TypeOK
  <2>2. /\ h.call = "listen" => ServerFd(h.fd) /\ endpoints[h.fd].status = "LISTEN"
        /\ h.call # "listen" => StreamFd(h.fd) /\ endpoints[h.fd].status \in OpenedStatus
        /\ h.call = "connect" => IsMapped(h.fd)
    BY <1>2 DEF HandlesSound
  <2>3. PICK fd : fd = h.fd
    OBVIOUS
  <2> QED
    BY <1>1, <2>1, <2>2, <2>3, KeptStatus
<1> QED
  BY <1>2 DEF HandlesSound

\* A new stream on its way to its server.
LEMMA ArrivalFrame ==
    ASSUME TypeOK, ArrivalSound, Steady, UNCHANGED arrival,
           macPc' = "pending" <=> macPc = "pending",
           \A fd \in Fds : fd = arrival.stream => Kept(fd)
    PROVE  ArrivalSound'
<1>1. \A f \in Fds : /\ (StreamFd(f)' <=> StreamFd(f)) /\ (ServerFd(f)' <=> ServerFd(f))
  BY DEF Steady, StreamFd, ServerFd
<1>2. CASE macPc = "pending"
  <2>1. /\ StreamFd(arrival.stream) /\ ServerFd(arrival.server)
        /\ endpoints[arrival.stream].status = "ACCEPT_WAIT"
        /\ arrival.stream \in Fds /\ arrival.server \in Fds
    BY <1>2 DEF ArrivalSound, StreamFd, ServerFd
  <2>2. PICK fd \in Fds : fd = arrival.stream
    BY <2>1
  <2>3. endpoints'[fd].status = "ACCEPT_WAIT"
    BY <2>1, <2>2, KeptStatus
  <2> QED
    BY <1>1, <1>2, <2>1, <2>2, <2>3 DEF ArrivalSound, StreamFd, ServerFd
<1>3. CASE macPc # "pending"
  BY <1>3 DEF ArrivalSound, NoArrival, NoObject
<1> QED
  BY <1>2, <1>3

\* One who holds a stream passes it on.
LEMMA HolderSwap ==
    ASSUME NEW H, NEW G, \A x, y \in H : x = y, NEW a \in H, NEW b, G \subseteq (H \ {a}) \cup {b}
    PROVE  \A x, y \in G : x = y
  OBVIOUS

\* Nobody takes a stream; some may let go.
LEMMA HolderFrame ==
    ASSUME TypeOK, OneHolder, Steady,
           \A fd \in Fds : endpoints'[fd].pendingAccept = endpoints[fd].pendingAccept,
           \A fd \in Fds' \ Fds : endpoints'[fd].pendingAccept = << >>,
           \A t \in Threads : thread'[t].fd \in {thread[t].fd, NoObject},
           handles' \subseteq handles,
           arrival' = arrival
    PROVE  OneHolder'
<1>0. Range(<< >>) = {} /\ NoObject \notin Fds'
  BY DEF Range, NoObject, Fds
<1>1. ASSUME NEW fd \in Fds' PROVE Holders(fd)' \subseteq Holders(fd)
  <2>1. \A s \in Fds' : fd \in Range(endpoints'[s].pendingAccept) =>
           s \in Fds /\ fd \in Range(endpoints[s].pendingAccept)
    BY <1>0
  <2>2. \A t \in Threads : thread'[t].fd = fd => thread[t].fd = fd
    BY <1>0
  <2> QED
    BY <2>1, <2>2 DEF Holders
<1>2. ASSUME NEW fd \in Fds' \ Fds PROVE Holders(fd) = {}
  <2>1. \A s \in Fds : fd \notin Range(endpoints[s].pendingAccept)
    <3> SUFFICES ASSUME NEW s \in Fds, fd \in Range(endpoints[s].pendingAccept) PROVE FALSE
      OBVIOUS
    <3>1. endpoints[s].pendingAccept \in Seq(Fds)
      BY EndpointIn DEF EndpointOf, Fds
    <3> QED
      BY <3>1 DEF Range
  <2>2. fd # NoObject
    BY <1>0
  <2>3. \A t \in Threads : thread[t].fd # fd
    BY <2>2 DEF TypeOK
  <2>4. arrival.stream # fd /\ \A h \in handles : h.fd # fd
    BY <2>2 DEF TypeOK
  <2> QED
    BY <2>1, <2>3, <2>4 DEF Holders
<1>3. \A f \in Fds : StreamFd(f)' <=> StreamFd(f)
  BY DEF Steady, StreamFd
<1> SUFFICES ASSUME NEW fd \in Fds'
             PROVE  /\ StreamFd(fd)' => \A x, y \in Holders(fd)' : x = y
                    /\ \A i, j \in DOMAIN endpoints'[fd].pendingAccept :
                          endpoints'[fd].pendingAccept[i] = endpoints'[fd].pendingAccept[j]
                             => i = j
  BY DEF OneHolder
<1>4. CASE fd \in Fds
  <2>1. /\ StreamFd(fd) => \A x, y \in Holders(fd) : x = y
        /\ \A i, j \in DOMAIN endpoints[fd].pendingAccept :
              endpoints[fd].pendingAccept[i] = endpoints[fd].pendingAccept[j] => i = j
    BY <1>4 DEF OneHolder
  <2> QED
    BY <1>1, <1>3, <1>4, <2>1
<1>5. CASE fd \notin Fds
  BY <1>1, <1>2, <1>5
<1> QED
  BY <1>4, <1>5

\* The ids of streams here are no server's.
LEMMA IdsHere ==
    /\ StreamIdsHere \subseteq StreamId
    /\ \A id \in StreamIdsHere :
          /\ IsStream(id) /\ GetServerId(id) \in StreamId
          /\ IsServer(GetServerId(id)) /\ GetServerId(id).dstPort = id.dstPort
          /\ id.dstPort \in Nat
          /\ id.src = Me => id.srcPort \in Ports
    /\ \A port \in ListenPorts :
          ServerId(port) \in StreamId /\ IsServer(ServerId(port)) /\ ServerId(port).dstPort = port
<1>1. ASSUME NEW target \in Targets, NEW port \in Ports
      PROVE  /\ ClientId(target, port) \in StreamId /\ IsStream(ClientId(target, port))
             /\ ClientId(target, port).srcPort \in Ports
  BY NodeAssumption, BoundsAssumption DEF ClientId, StreamId, IsStream, IsServer, Ports
<1>2. ASSUME NEW id \in Remote PROVE id \in StreamId /\ IsStream(id) /\ id.src # Me
  BY NodeAssumption DEF StreamId, IsStream, IsServer
<1>3. StreamIdsHere \subseteq StreamId /\ \A id \in StreamIdsHere : IsStream(id)
  BY <1>1, <1>2 DEF StreamIdsHere
<1>4. \A id \in StreamIdsHere : id.src = Me => id.srcPort \in Ports
  BY <1>1, <1>2 DEF StreamIdsHere
<1>5. \A id \in StreamId :
        /\ GetServerId(id) \in StreamId /\ IsServer(GetServerId(id))
        /\ GetServerId(id).dstPort = id.dstPort /\ id.dstPort \in Nat
  BY DEF GetServerId, StreamId, IsServer
<1>6. \A port \in ListenPorts :
        ServerId(port) \in StreamId /\ IsServer(ServerId(port)) /\ ServerId(port).dstPort = port
  BY NodeAssumption DEF ServerId, StreamId, IsServer
<1> QED
  BY <1>3, <1>4, <1>5, <1>6

\* What a map names is an object of its kind.
LEMMA MappedKind ==
    ASSUME TypeOK, MapsSound
    PROVE  /\ \A id \in DOMAIN streams :
                 /\ streams[id] \in Fds /\ endpoints[streams[id]].id = id
                 /\ StreamFd(streams[id]) /\ IsMapped(streams[id]) /\ id \in StreamIdsHere
           /\ \A p \in DOMAIN servers :
                 /\ servers[p] \in Fds /\ PortOf(servers[p]) = p
                 /\ ServerFd(servers[p]) /\ IsServed(servers[p])
           /\ \A fd : IsMapped(fd) => StreamFd(fd)
<1>1. \A id \in DOMAIN streams : streams[id] \in Fds /\ endpoints[streams[id]].id = id
  BY DEF TypeOK, MapsSound, TablesAgree
<1>2. \A p \in DOMAIN servers :
        servers[p] \in Fds /\ PortOf(servers[p]) = p /\ ServerFd(servers[p])
  BY DEF TypeOK, MapsSound, TablesAgree, PortOf
<1>3. DOMAIN streams \subseteq StreamIdsHere
  BY DEF TypeOK
<1> QED
  BY <1>1, <1>2, <1>3, IdsHere DEF StreamFd, IsMapped, IsServed

\* Who holds a stream holds it alone.
LEMMA HeldOnce ==
    ASSUME OneHolder, NEW fd, StreamFd(fd)
    PROVE  /\ \A t, u \in Threads : thread[t].fd = fd /\ thread[u].fd = fd => t = u
           /\ \A t \in Threads : \A h \in handles : ~(thread[t].fd = fd /\ h.fd = fd)
           /\ \A t \in Threads : ~(thread[t].fd = fd /\ arrival.stream = fd)
           /\ \A h \in handles : ~(h.fd = fd /\ arrival.stream = fd)
           /\ \A s \in Fds : fd \in Range(endpoints[s].pendingAccept) =>
                 /\ \A t \in Threads : thread[t].fd # fd
                 /\ \A h \in handles : h.fd # fd
                 /\ arrival.stream # fd
                 /\ \A r \in Fds : fd \in Range(endpoints[r].pendingAccept) => r = s
           /\ \A h, g \in handles : h.fd = fd /\ g.fd = fd => h.call = g.call
<1>1. \A x, y \in Holders(fd) : x = y
  BY DEF OneHolder, StreamFd
<1>2. /\ \A t \in Threads : thread[t].fd = fd => <<"thread", t>> \in Holders(fd)
      /\ \A h \in handles : h.fd = fd => <<"application", h.call>> \in Holders(fd)
      /\ arrival.stream = fd => <<"mac", NoObject>> \in Holders(fd)
      /\ \A s \in Fds : fd \in Range(endpoints[s].pendingAccept) =>
            <<"server", s>> \in Holders(fd)
  BY DEF Holders
<1> HIDE DEF Holders
<1>3. \A a, b : /\ <<"thread", a>> # <<"application", b>> /\ <<"thread", a>> # <<"mac", b>>
                /\ <<"thread", a>> # <<"server", b>> /\ <<"server", a>> # <<"application", b>>
                /\ <<"server", a>> # <<"mac", b>> /\ <<"application", a>> # <<"mac", b>>
  OBVIOUS
<1>4. \A a, b : /\ <<"thread", a>> = <<"thread", b>> => a = b
                /\ <<"server", a>> = <<"server", b>> => a = b
                /\ <<"application", a>> = <<"application", b>> => a = b
  OBVIOUS
<1>5. \A t, u \in Threads : thread[t].fd = fd /\ thread[u].fd = fd => t = u
  BY <1>1, <1>2, <1>4
<1>6. \A t \in Threads : \A h \in handles : ~(thread[t].fd = fd /\ h.fd = fd)
  BY <1>1, <1>2, <1>3
<1>7. \A t \in Threads : ~(thread[t].fd = fd /\ arrival.stream = fd)
  BY <1>1, <1>2, <1>3
<1>8. \A h \in handles : ~(h.fd = fd /\ arrival.stream = fd)
  BY <1>1, <1>2, <1>3
<1>9. ASSUME NEW s \in Fds, fd \in Range(endpoints[s].pendingAccept)
      PROVE  /\ \A t \in Threads : thread[t].fd # fd
             /\ \A h \in handles : h.fd # fd
             /\ arrival.stream # fd
             /\ \A r \in Fds : fd \in Range(endpoints[r].pendingAccept) => r = s
  BY <1>1, <1>2, <1>3, <1>4, <1>9
<1>10. \A h, g \in handles : h.fd = fd /\ g.fd = fd => h.call = g.call
  BY <1>1, <1>2, <1>4
<1> QED
  BY <1>5, <1>6, <1>7, <1>8, <1>9, <1>10

\* Nothing is asked of an idle thread.
LEMMA IdleSound ==
    ASSUME NEW t, thread'[t] = Idle
    PROVE  CallSound(t)'
  BY DEF CallSound, ConnectSound, ListenSound, AcceptSound, CloseSound, Idle,
         ConnectPcs, ListenPcs, AcceptPcs, HandOverPcs

\* Statuses move, endpoints are added, threads wake or leave their calls, and
\* the maps lose what nobody works on any more.
QuietStep ==
    /\ Fds \subseteq Fds'
    /\ \A fd \in Fds : /\ Moves(endpoints[fd], endpoints'[fd])
                       /\ endpoints[fd].status = "LISTEN" \/ endpoints'[fd].status # "LISTEN"
                             \/ IsServed(fd)'
    /\ \A fd \in Fds' \ Fds :
          /\ endpoints'[fd].pendingAccept = << >>
          /\ endpoints'[fd].status = "CLOSE_WAIT"
    /\ \A id \in DOMAIN streams :
          \/ Removable(endpoints[streams[id]])
          \/ id \in DOMAIN streams' /\ streams'[id] = streams[id]
          \/ \E t \in Threads : thread'[t] = Idle /\ thread[t].fd = streams[id]
    /\ \A p \in DOMAIN servers :
          \/ p \in DOMAIN servers' /\ servers'[p] = servers[p]
          \/ /\ endpoints[servers[p]].status # "LISTEN"
             /\ p \in DOMAIN servers' /\ endpoints'[servers'[p]].status = "CLOSE_WAIT"
          \/ \E t \in Threads :
                thread'[t] = Idle /\ thread[t].pc = "unlisten" /\ PortOf(thread[t].fd) = p
    /\ \A t \in Threads : SameCall(t) \/ thread'[t] = Idle
    /\ handles' \subseteq handles
    /\ arrival' = arrival
    /\ macPc' = "pending" <=> macPc = "pending"

LEMMA QuietFrame ==
    ASSUME TypeOK, MapsSound, CallParts, QuietStep
    PROVE  CallParts'
<1>1. /\ EndpointsSound /\ HandlesSound /\ ArrivalSound /\ OneHolder
      /\ \A t \in Threads : CallSound(t)
  BY DEF CallParts, ThreadsSound, CallSound
<1>2. Steady
  BY DEF QuietStep, Steady, Moves, StatusMoves
<1>3. \A fd \in Fds : /\ StatusMoves(endpoints[fd], endpoints'[fd])
                      /\ endpoints'[fd].pendingAccept = endpoints[fd].pendingAccept
                      /\ endpoints'[fd].id = endpoints[fd].id
  BY DEF QuietStep, Moves
<1>4. NoObject \notin Fds
  BY DEF NoObject, Fds
<1>5. ASSUME NEW fd \in Fds,
             \A t \in Threads : thread[t].fd = fd => thread'[t] # Idle
      PROVE  Kept(fd)
  <2>1. SUFFICES ASSUME IsMapped(fd), ~Removable(endpoints[fd]) PROVE IsMapped(fd)'
    BY <1>3 DEF Kept
  <2>2. endpoints[fd].id \in DOMAIN streams /\ streams[endpoints[fd].id] = fd
    BY <2>1 DEF IsMapped
  <2>3. endpoints[fd].id \in DOMAIN streams' /\ streams'[endpoints[fd].id] = fd
    BY <1>5, <2>1, <2>2 DEF QuietStep
  <2> QED
    BY <1>3, <2>3 DEF IsMapped
<1>6. ASSUME NEW t \in Threads, thread'[t] # Idle PROVE CallSound(t)'
  <2>1. SameCall(t)
    BY <1>6 DEF QuietStep
  <2>2. \A u \in Threads : thread[u].pc \in ListenPcs => thread[u].fd \in Fds /\ ListenSound(u)
    BY <1>1 DEF CallSound, ListenSound, ServerFd
  <2>3. ASSUME NEW fd \in Fds, fd = thread[t].fd, thread[t].pc \notin AcceptPcs PROVE Kept(fd)
    <3>1. CASE IsMapped(fd)
      <4>1. StreamFd(fd)
        BY <3>1, MappedKind
      <4>2. \A u \in Threads : thread[u].fd = fd => u = t
        BY <1>1, <2>3, <4>1, HeldOnce
      <4> QED
        BY <1>5, <1>6, <4>2
    <3>2. CASE ~IsMapped(fd)
      BY <1>3, <3>2 DEF Kept
    <3> QED
      BY <3>1, <3>2
  <2>4. ASSUME thread[t].pc \in ListenPcs PROVE PortKept(PortOf(thread[t].fd))
    <3>1. PICK p : p = PortOf(thread[t].fd)
      OBVIOUS
    <3>2. thread'[t].fd = thread[t].fd /\ thread[t].fd \in Fds
      BY <2>1, <2>2, <2>4 DEF SameCall
    <3>3. \A u \in Threads : thread'[u] = Idle /\ thread[u].pc = "unlisten" =>
             PortOf(thread[u].fd) # p
      BY <1>6, <2>2, <2>4, <3>1 DEF ListenSound, ListenPcs
    <3>4. PortKept(p)
      BY <3>3 DEF QuietStep, PortKept
    <3>5. PortOf(thread[t].fd)' = p
      BY <1>3, <3>1, <3>2 DEF PortOf
    <3> QED
      BY <3>1, <3>4, <3>5 DEF PortKept
  <2>5. /\ \A h \in handles' \ handles : HandleApart(t, h)
        /\ \A u \in Threads \ {t} : Apart(t, u)
    BY DEF QuietStep, Apart
  <2> QED
    BY <1>1, <1>2, <2>1, <2>2, <2>3, <2>4, <2>5, CallFrame
<1>7. ThreadsSound'
  <2>1. \A t \in Threads : CallSound(t)'
    BY <1>6, IdleSound
  <2> QED
    BY <2>1 DEF ThreadsSound, CallSound
<1>8. EndpointsSound'
  <2>1. ASSUME NEW fd \in Fds, endpoints'[fd].status = "LISTEN", ServerFd(fd)
        PROVE  IsServed(fd)'
    <3> SUFFICES ASSUME endpoints[fd].status = "LISTEN" PROVE IsServed(fd)'
      BY <2>1 DEF QuietStep
    <3>1. IsServed(fd)
      BY <1>1, <2>1 DEF EndpointsSound
    <3>2. PICK p : p = PortOf(fd) /\ p \in DOMAIN servers /\ servers[p] = fd
      BY <3>1 DEF IsServed
    <3>4. ASSUME NEW t \in Threads, thread[t].pc = "unlisten", PortOf(thread[t].fd) = p
          PROVE  FALSE
      <4>1. /\ servers[p] = thread[t].fd \/ endpoints[servers[p]].status = "CLOSE_WAIT"
            /\ endpoints[thread[t].fd].status \notin {"LISTEN_WAIT", "LISTEN"}
        BY <1>1, <3>4 DEF CallSound, ListenSound, ListenPcs, Object
      <4> QED
        BY <3>2, <4>1
    <3>5. p \in DOMAIN servers' /\ servers'[p] = fd
      BY <3>2, <3>4 DEF QuietStep
    <3>6. PortOf(fd)' = p
      BY <1>3, <3>2 DEF PortOf
    <3> QED
      BY <3>5, <3>6 DEF IsServed
  <2>2. \A fd \in Fds' \ Fds :
           /\ endpoints'[fd].pendingAccept = << >>
           /\ ServerFd(fd)' => endpoints'[fd].status \in {"LISTEN_WAIT", "CLOSE_WAIT"}
    BY DEF QuietStep
  <2> QED
    BY <1>1, <1>2, <1>3, <2>1, <2>2, EndpointsFrame
<1>9. HandlesSound'
  <2>1. ASSUME NEW h \in handles PROVE Kept(h.fd)
    <3>1. h.fd \in Fds
      BY DEF TypeOK
    <3>2. PICK fd \in Fds : fd = h.fd
      BY <3>1
    <3>3. CASE IsMapped(fd)
      <4>1. StreamFd(fd)
        BY <3>3, MappedKind
      <4>2. \A u \in Threads : thread[u].fd # fd
        BY <1>1, <3>2, <4>1, HeldOnce
      <4>3. Kept(fd)
        BY <1>5, <4>2
      <4> QED
        BY <3>2, <4>3
    <3>4. CASE ~IsMapped(fd)
      <4>1. Kept(fd)
        BY <1>3, <3>4 DEF Kept
      <4> QED
        BY <3>2, <4>1
    <3> QED
      BY <3>3, <3>4
  <2>2. handles' \ handles = {}
    BY DEF QuietStep
  <2> QED
    BY <1>1, <1>2, <2>1, <2>2, HandlesFrame
<1>10. ArrivalSound'
  <2>1. ASSUME NEW fd \in Fds, fd = arrival.stream PROVE Kept(fd)
    <3>1. endpoints[fd].status = "ACCEPT_WAIT"
      BY <1>1, <1>4, <2>1 DEF ArrivalSound, NoArrival
    <3> QED
      BY <1>3, <3>1 DEF Kept, Removable
  <2> QED
    BY <1>1, <1>2, <2>1, ArrivalFrame DEF QuietStep
<1>11. OneHolder'
  <2>1. \A t \in Threads : thread'[t].fd \in {thread[t].fd, NoObject}
    BY DEF QuietStep, SameCall, Idle
  <2> QED
    BY <1>1, <1>2, <1>3, <2>1, HolderFrame DEF QuietStep
<1> QED
  BY <1>7, <1>8, <1>9, <1>10, <1>11 DEF CallParts

-----------------------------------------------------------------------------
(***************************************************************************)
(* The tables.                                                             *)
(***************************************************************************)
Tables ==
    /\ fdt \subseteq Fds
    /\ DOMAIN streams \subseteq StreamIdsHere /\ streams \in [DOMAIN streams -> Fds]
    /\ DOMAIN servers \subseteq Nat /\ servers \in [DOMAIN servers -> Fds]
    /\ clientPorts \subseteq Ports
    /\ MapsSound
    /\ PortNotLeaked

\* The endpoints there were stay, under their ids.
SameIds ==
    /\ Fds \subseteq Fds'
    /\ \A fd \in Fds : endpoints'[fd].id = endpoints[fd].id

LEMMA SameTables ==
    ASSUME Tables, SameIds, UNCHANGED tableVars
    PROVE  Tables'
<1>1. \A fd \in Fds : /\ fd \in Fds' /\ endpoints'[fd].id = endpoints[fd].id
                      /\ ServerFd(fd)' <=> ServerFd(fd)
  BY DEF SameIds, ServerFd
<1>2. UNCHANGED <<fdt, streams, servers, clientPorts>>
  BY DEF tableVars
<1>3. MapsSound'
  <2>1. TablesAgree'
    BY <1>1, <1>2 DEF Tables, MapsSound, TablesAgree
  <2> QED
    BY <1>1, <1>2, <2>1 DEF Tables, MapsSound
<1>4. PortNotLeaked'
  BY <1>2 DEF Tables, PortNotLeaked
<1> QED
  BY <1>1, <1>2, <1>3, <1>4 DEF Tables

\* removeStream takes a stream out of every map.
LEMMA RemoveStreamsTables ==
    ASSUME TypeOK, Tables, SameIds, Fds' = Fds, NEW ids, RemoveStreams(ids)
    PROVE  Tables'
<1>1. /\ streams' = [id \in DOMAIN streams \ ids |-> streams[id]]
      /\ fdt' = fdt \ {streams[id] : id \in ids \cap DOMAIN streams}
      /\ clientPorts' = clientPorts \ {id.srcPort : id \in ids \cap DOMAIN streams}
      /\ servers' = servers
  BY DEF RemoveStreams
<1>2. \A fd \in Fds : /\ endpoints'[fd].id = endpoints[fd].id
                      /\ ServerFd(fd)' <=> ServerFd(fd)
  BY DEF SameIds, ServerFd
<1>3. /\ \A id \in DOMAIN streams :
            /\ streams[id] \in Fds /\ endpoints[streams[id]].id = id
            /\ IsStream(endpoints[streams[id]].id) /\ streams[id] \in fdt
      /\ \A p \in DOMAIN servers :
            /\ servers[p] \in Fds /\ endpoints[servers[p]].id.dstPort = p
            /\ IsServer(endpoints[servers[p]].id) /\ servers[p] \in fdt
  BY MappedKind DEF Tables, MapsSound, TablesAgree, StreamFd, ServerFd
<1>4. /\ DOMAIN streams' = DOMAIN streams \ ids
      /\ \A id \in DOMAIN streams' : streams'[id] = streams[id]
  BY <1>1
<1>5. TablesAgree'
  <2>1. \A id \in DOMAIN streams' : streams'[id] \in fdt' /\ endpoints'[streams'[id]].id = id
    BY <1>1, <1>2, <1>3, <1>4
  <2>2. \A p \in DOMAIN servers' : servers'[p] \in fdt' /\ endpoints'[servers'[p]].id.dstPort = p
    BY <1>1, <1>2, <1>3 DEF IsStream
  <2>3. ASSUME NEW fd \in fdt', IsStream(endpoints'[fd].id) PROVE fd \in Range(streams')
    <3>1. fd \in fdt /\ fd \in Fds /\ IsStream(endpoints[fd].id)
      BY <1>1, <1>2, <2>3 DEF Tables
    <3>2. PICK id \in DOMAIN streams : fd = streams[id]
      BY <3>1 DEF Tables, MapsSound, TablesAgree, Range
    <3>3. id \notin ids
      BY <1>1, <3>2
    <3> QED
      BY <1>4, <3>2, <3>3 DEF Range
  <2> QED
    BY <2>1, <2>2, <2>3 DEF TablesAgree
<1>6. MapsSound'
  BY <1>1, <1>2, <1>3, <1>5 DEF MapsSound, Tables
<1>7. PortNotLeaked'
  <2> SUFFICES ASSUME NEW p \in clientPorts'
               PROVE  \E id \in DOMAIN streams' : id.src = Me /\ id.srcPort = p
    BY DEF PortNotLeaked
  <2>1. PICK id \in DOMAIN streams : id.src = Me /\ id.srcPort = p
    BY <1>1 DEF Tables, PortNotLeaked
  <2>2. id \notin ids
    BY <1>1, <2>1
  <2> QED
    BY <1>4, <2>1, <2>2
<1>8. streams' \in [DOMAIN streams' -> Fds']
  BY <1>1, <1>3
<1> QED
  BY <1>1, <1>4, <1>6, <1>7, <1>8 DEF Tables

LEMMA RemoveServerTables ==
    ASSUME TypeOK, Tables, SameIds, Fds' = Fds, NEW port, RemoveServer(port)
    PROVE  Tables'
<1>1. /\ servers' = [p \in DOMAIN servers \ {port} |-> servers[p]]
      /\ fdt' = fdt \ {servers[p] : p \in {port} \cap DOMAIN servers}
      /\ UNCHANGED <<streams, clientPorts>>
  BY DEF RemoveServer
<1>2. \A fd \in Fds : /\ endpoints'[fd].id = endpoints[fd].id
                      /\ ServerFd(fd)' <=> ServerFd(fd)
  BY DEF SameIds, ServerFd
<1>3. /\ \A id \in DOMAIN streams :
            /\ streams[id] \in Fds /\ endpoints[streams[id]].id = id
            /\ IsStream(endpoints[streams[id]].id) /\ streams[id] \in fdt
      /\ \A p \in DOMAIN servers :
            /\ servers[p] \in Fds /\ endpoints[servers[p]].id.dstPort = p
            /\ IsServer(endpoints[servers[p]].id) /\ servers[p] \in fdt
  BY MappedKind DEF Tables, MapsSound, TablesAgree, StreamFd, ServerFd
<1>4. /\ DOMAIN servers' = DOMAIN servers \ {port}
      /\ \A p \in DOMAIN servers' : servers'[p] = servers[p]
  BY <1>1
<1>5. TablesAgree'
  <2>1. \A id \in DOMAIN streams' : streams'[id] \in fdt' /\ endpoints'[streams'[id]].id = id
    BY <1>1, <1>2, <1>3 DEF IsStream
  <2>2. \A p \in DOMAIN servers' : servers'[p] \in fdt' /\ endpoints'[servers'[p]].id.dstPort = p
    BY <1>1, <1>2, <1>3, <1>4
  <2>3. \A fd \in fdt' : IsStream(endpoints'[fd].id) => fd \in Range(streams')
    BY <1>1, <1>2 DEF Tables, MapsSound, TablesAgree
  <2> QED
    BY <2>1, <2>2, <2>3 DEF TablesAgree
<1>6. MapsSound'
  BY <1>2, <1>3, <1>4, <1>5 DEF MapsSound, Tables
<1>7. PortNotLeaked'
  BY <1>1 DEF PortNotLeaked, Tables
<1>8. servers' \in [DOMAIN servers' -> Fds']
  BY <1>1, <1>3
<1> QED
  BY <1>1, <1>4, <1>6, <1>7, <1>8 DEF Tables

\* New objects enter the maps.
LEMMA AddTables ==
    ASSUME TypeOK, Tables, SameIds,
           streams' = [id \in DOMAIN streams' |-> streams'[id]],
           servers' = [p \in DOMAIN servers' |-> servers'[p]],
           \A id \in DOMAIN streams : id \in DOMAIN streams' /\ streams'[id] = streams[id],
           \A id \in DOMAIN streams' \ DOMAIN streams :
               /\ id \in StreamIdsHere
               /\ streams'[id] \in Fds' /\ streams'[id] \in fdt'
               /\ endpoints'[streams'[id]].id = id,
           \A p \in DOMAIN servers' :
               \/ p \in DOMAIN servers /\ servers'[p] = servers[p]
               \/ /\ p \in Nat
                  /\ servers'[p] \in Fds' /\ servers'[p] \in fdt'
                  /\ IsServer(endpoints'[servers'[p]].id)
                  /\ endpoints'[servers'[p]].id.dstPort = p,
           fdt \subseteq fdt' /\ fdt' \subseteq Fds',
           \A fd \in fdt' \ fdt : IsStream(endpoints'[fd].id) => fd \in Range(streams'),
           clientPorts' \subseteq Ports,
           \A p \in clientPorts' \ clientPorts :
               \E id \in DOMAIN streams' : id.src = Me /\ id.srcPort = p
    PROVE  Tables'
<1>1. \A fd \in Fds : fd \in Fds' /\ endpoints'[fd].id = endpoints[fd].id
  BY DEF SameIds
<1>2. /\ \A id \in DOMAIN streams :
            /\ streams[id] \in Fds /\ endpoints[streams[id]].id = id
            /\ streams[id] \in fdt /\ id \in StreamIdsHere
      /\ \A p \in DOMAIN servers :
            /\ servers[p] \in Fds /\ endpoints[servers[p]].id.dstPort = p
            /\ IsServer(endpoints[servers[p]].id) /\ servers[p] \in fdt /\ p \in Nat
  BY MappedKind DEF Tables, MapsSound, TablesAgree, ServerFd
<1>3. \A id \in DOMAIN streams' :
        /\ id \in StreamIdsHere
        /\ streams'[id] \in Fds' /\ streams'[id] \in fdt' /\ endpoints'[streams'[id]].id = id
  BY <1>1, <1>2
<1>4. \A p \in DOMAIN servers' :
        /\ p \in Nat
        /\ servers'[p] \in Fds' /\ servers'[p] \in fdt'
        /\ IsServer(endpoints'[servers'[p]].id) /\ endpoints'[servers'[p]].id.dstPort = p
  BY <1>1, <1>2
<1>5. ASSUME NEW fd \in fdt', IsStream(endpoints'[fd].id) PROVE fd \in Range(streams')
  <2>1. CASE fd \in fdt
    <3>1. fd \in Fds /\ IsStream(endpoints[fd].id)
      BY <1>1, <1>5, <2>1 DEF Tables
    <3>2. PICK id \in DOMAIN streams : fd = streams[id]
      BY <2>1, <3>1 DEF Tables, MapsSound, TablesAgree, Range
    <3> QED
      BY <3>2 DEF Range
  <2>2. CASE fd \notin fdt
    BY <1>5, <2>2
  <2> QED
    BY <2>1, <2>2
<1>6. MapsSound'
  BY <1>3, <1>4, <1>5 DEF MapsSound, TablesAgree, ServerFd
<1>7. PortNotLeaked'
  <2> SUFFICES ASSUME NEW p \in clientPorts'
               PROVE  \E id \in DOMAIN streams' : id.src = Me /\ id.srcPort = p
    BY DEF PortNotLeaked
  <2>1. CASE p \in clientPorts
    BY <2>1 DEF Tables, PortNotLeaked
  <2> QED
    BY <2>1
<1> QED
  BY <1>3, <1>4, <1>6, <1>7 DEF Tables

\* One endpoint more.
LEMMA OneMore ==
    ASSUME TypeOK, NEW id \in StreamId, NEW status \in StreamStatus,
           endpoints' = Append(endpoints, Endpoint(id, status))
    PROVE  /\ Fds' = Fds \cup {fdcounter} /\ fdcounter \notin Fds
           /\ Len(endpoints') = fdcounter
           /\ endpoints' \in Seq(EndpointOf(Len(endpoints')))
           /\ \A fd \in Fds : endpoints'[fd] = endpoints[fd]
           /\ endpoints'[fdcounter].id = id
           /\ endpoints'[fdcounter].status = status
           /\ endpoints'[fdcounter].pendingAccept = << >>
<1>1. /\ Len(endpoints) \in Nat /\ Fds = 1..Len(endpoints)
      /\ endpoints \in Seq(EndpointOf(Len(endpoints)))
  BY EndpointIn
<1>2. /\ Len(endpoints') = fdcounter
      /\ \A fd \in Fds : endpoints'[fd] = endpoints[fd]
      /\ endpoints'[fdcounter] = Endpoint(id, status)
  BY <1>1 DEF fdcounter
<1>3. Fds' = 1..fdcounter
  BY <1>2 DEF Fds
<1>4. EndpointOf(Len(endpoints)) \subseteq EndpointOf(fdcounter)
  BY <1>1, EndpointGrows DEF fdcounter
<1>5. Endpoint(id, status) \in EndpointOf(fdcounter)
  BY <1>1, EndpointType DEF fdcounter
<1>6. endpoints' \in Seq(EndpointOf(fdcounter))
  <2>1. endpoints \in Seq(EndpointOf(fdcounter))
    <3>1. \A i \in 1..Len(endpoints) : endpoints[i] \in EndpointOf(fdcounter)
      BY <1>1, <1>4
    <3> QED
      BY <1>1, <3>1
  <2> QED
    BY <1>5, <2>1
<1> QED
  BY <1>1, <1>2, <1>3, <1>6 DEF fdcounter, Endpoint

\* A stream enters the maps; a port it takes is its own.
LEMMA AddStreamTables ==
    ASSUME TypeOK, Tables, NEW id \in StreamIdsHere, id \notin DOMAIN streams,
           NEW status \in StreamStatus, AddStream(id, status), UNCHANGED servers,
           \/ clientPorts' = clientPorts
           \/ id.src = Me /\ clientPorts' = clientPorts \cup {id.srcPort}
    PROVE  /\ Tables'
           /\ DOMAIN streams' = DOMAIN streams \cup {id}
           /\ streams'[id] = fdcounter
           /\ \A x \in DOMAIN streams : streams'[x] = streams[x]
<1>1. id \in StreamId /\ (id.src = Me => id.srcPort \in Ports)
  BY IdsHere
<1>2. /\ Fds' = Fds \cup {fdcounter} /\ fdcounter \notin Fds
      /\ \A fd \in Fds : endpoints'[fd] = endpoints[fd]
      /\ endpoints'[fdcounter].id = id
  BY <1>1, OneMore DEF AddStream
<1>3. /\ streams' = Put(streams, id, fdcounter)
      /\ fdt' = fdt \cup {fdcounter}
  BY DEF AddStream
<1>4. /\ DOMAIN streams' = DOMAIN streams \cup {id}
      /\ streams'[id] = fdcounter
      /\ \A x \in DOMAIN streams : streams'[x] = streams[x]
      /\ streams' = [x \in DOMAIN streams' |-> streams'[x]]
  BY <1>3 DEF Put
<1>5. SameIds
  BY <1>2 DEF SameIds
<1>6. fdcounter \in Range(streams')
  BY <1>4 DEF Range
<1>7. clientPorts' \subseteq Ports
  BY <1>1 DEF Tables
<1>8. \A p \in clientPorts' \ clientPorts : \E x \in DOMAIN streams' : x.src = Me /\ x.srcPort = p
  BY <1>4
<1>9. servers' = [p \in DOMAIN servers' |-> servers'[p]]
  BY DEF Tables
<1>10. fdt \subseteq fdt' /\ fdt' \subseteq Fds'
  BY <1>2, <1>3 DEF Tables
<1>11. \A fd \in fdt' \ fdt : IsStream(endpoints'[fd].id) => fd \in Range(streams')
  BY <1>3, <1>6
<1>12. \A x \in DOMAIN streams' \ DOMAIN streams :
         /\ x \in StreamIdsHere /\ streams'[x] \in Fds' /\ streams'[x] \in fdt'
         /\ endpoints'[streams'[x]].id = x
  BY <1>2, <1>3, <1>4
<1>13. Tables'
  BY <1>4, <1>5, <1>7, <1>8, <1>9, <1>10, <1>11, <1>12, AddTables
<1> QED
  BY <1>4, <1>13

\* A server enters the maps.
LEMMA AddServerTables ==
    ASSUME TypeOK, Tables, NEW port \in ListenPorts,
           NEW status \in StreamStatus, AddServer(ServerId(port), status),
           UNCHANGED <<streams, clientPorts>>
    PROVE  /\ Tables'
           /\ DOMAIN servers' = DOMAIN servers \cup {port}
           /\ servers'[port] = fdcounter
           /\ \A p \in DOMAIN servers : p # port => servers'[p] = servers[p]
<1>1. /\ ServerId(port) \in StreamId /\ IsServer(ServerId(port)) /\ ServerId(port).dstPort = port
      /\ port \in Nat
  BY IdsHere, NodeAssumption
<1>2. /\ Fds' = Fds \cup {fdcounter} /\ fdcounter \notin Fds
      /\ \A fd \in Fds : endpoints'[fd] = endpoints[fd]
      /\ endpoints'[fdcounter].id = ServerId(port)
  BY <1>1, OneMore DEF AddServer
<1>3. /\ servers' = Put(servers, port, fdcounter)
      /\ fdt' = fdt \cup {fdcounter}
  BY <1>1 DEF AddServer
<1>4. /\ DOMAIN servers' = DOMAIN servers \cup {port}
      /\ servers'[port] = fdcounter
      /\ \A p \in DOMAIN servers : p # port => servers'[p] = servers[p]
      /\ servers' = [x \in DOMAIN servers' |-> servers'[x]]
  BY <1>3 DEF Put
<1>5. SameIds
  BY <1>2 DEF SameIds
<1>6. streams' = [x \in DOMAIN streams' |-> streams'[x]] /\ clientPorts' \subseteq Ports
  BY DEF Tables
<1>7. fdt \subseteq fdt' /\ fdt' \subseteq Fds'
  BY <1>2, <1>3 DEF Tables
<1>8. \A fd \in fdt' \ fdt : IsStream(endpoints'[fd].id) => fd \in Range(streams')
  BY <1>1, <1>2, <1>3 DEF IsStream
<1>9. \A p \in DOMAIN servers' :
        \/ p \in DOMAIN servers /\ servers'[p] = servers[p]
        \/ /\ p \in Nat
           /\ servers'[p] \in Fds' /\ servers'[p] \in fdt'
           /\ IsServer(endpoints'[servers'[p]].id)
           /\ endpoints'[servers'[p]].id.dstPort = p
  BY <1>1, <1>2, <1>3, <1>4
<1>10. Tables'
  BY <1>4, <1>5, <1>6, <1>7, <1>8, <1>9, AddTables
<1> QED
  BY <1>4, <1>10

\* Two endpoints more.
LEMMA TwoMore ==
    ASSUME TypeOK, NEW x \in StreamId, NEW y \in StreamId,
           endpoints' = endpoints \o <<Endpoint(x, "CLOSE_WAIT"), Endpoint(y, "CLOSE_WAIT")>>
    PROVE  /\ Fds' = Fds \cup {fdcounter, fdcounter + 1}
           /\ fdcounter \notin Fds /\ fdcounter + 1 \notin Fds /\ fdcounter \in Nat \ {0}
           /\ Len(endpoints') = fdcounter + 1
           /\ endpoints' \in Seq(EndpointOf(Len(endpoints')))
           /\ \A fd \in Fds : endpoints'[fd] = endpoints[fd]
           /\ endpoints'[fdcounter] = Endpoint(x, "CLOSE_WAIT")
           /\ endpoints'[fdcounter + 1] = Endpoint(y, "CLOSE_WAIT")
<1> DEFINE n == fdcounter + 1
           new == <<Endpoint(x, "CLOSE_WAIT"), Endpoint(y, "CLOSE_WAIT")>>
<1>1. /\ Len(endpoints) \in Nat /\ Fds = 1..Len(endpoints)
      /\ endpoints \in Seq(EndpointOf(Len(endpoints)))
      /\ fdcounter = Len(endpoints) + 1
  BY EndpointIn DEF fdcounter
<1>2. EndpointOf(Len(endpoints)) \subseteq EndpointOf(n)
  <2>1. fdcounter + 1 \in Nat /\ Len(endpoints) <= fdcounter + 1
    BY <1>1
  <2> QED
    BY <1>1, <2>1, EndpointGrows
<1>3. Endpoint(x, "CLOSE_WAIT") \in EndpointOf(n) /\ Endpoint(y, "CLOSE_WAIT") \in EndpointOf(n)
  <2>1. fdcounter + 1 \in Nat /\ "CLOSE_WAIT" \in StreamStatus
    BY <1>1 DEF StreamStatus
  <2> QED
    BY <2>1, EndpointType
<1>4. endpoints \in Seq(EndpointOf(n))
  <2>1. PICK S, T : S = EndpointOf(Len(endpoints)) /\ T = EndpointOf(n)
    OBVIOUS
  <2>2. endpoints \in Seq(S) /\ \A i \in 1..Len(endpoints) : endpoints[i] \in T
    BY <1>1, <1>2, <2>1
  <2> QED
    BY <2>1, <2>2, SequenceIn
<1>5. new \in Seq(EndpointOf(n)) /\ Len(new) = 2
  BY <1>3
<1>6. endpoints' \in Seq(EndpointOf(n))
  BY <1>4, <1>5
<1>7. /\ Len(endpoints') = n
      /\ \A fd \in Fds : endpoints'[fd] = endpoints[fd]
      /\ endpoints'[fdcounter] = new[1] /\ endpoints'[n] = new[2]
  <2> HIDE DEF new
  <2>1. endpoints' = endpoints \o new
    BY DEF new
  <2> QED
    BY <1>1, <1>4, <1>5, <2>1
<1>8. Fds' = 1..n
  BY <1>7 DEF Fds
<1> QED
  BY <1>1, <1>6, <1>7, <1>8

\* A refused stream and its server enter the maps.
LEMMA RefusedTables ==
    ASSUME TypeOK, Tables, NEW id \in StreamIdsHere, RefusedStream(id)
    PROVE  /\ Tables'
           /\ \A x \in DOMAIN streams : x \in DOMAIN streams' /\ streams'[x] = streams[x]
           /\ DOMAIN servers' = DOMAIN servers \cup {id.dstPort}
           /\ servers'[id.dstPort] = fdcounter + 1
           /\ \A p \in DOMAIN servers : p # id.dstPort => servers'[p] = servers[p]
<1>1. /\ id \in StreamId /\ IsStream(id) /\ GetServerId(id) \in StreamId
      /\ IsServer(GetServerId(id)) /\ GetServerId(id).dstPort = id.dstPort /\ id.dstPort \in Nat
  BY IdsHere
<1>2. /\ endpoints' = endpoints \o <<Endpoint(id, "CLOSE_WAIT"),
                                     Endpoint(GetServerId(id), "CLOSE_WAIT")>>
      /\ streams' = Put(streams, id, fdcounter)
      /\ servers' = Put(servers, id.dstPort, fdcounter + 1)
      /\ fdt' = fdt \cup {fdcounter, fdcounter + 1}
      /\ clientPorts' = clientPorts /\ id \notin DOMAIN streams
  BY DEF RefusedStream
<1>3. /\ Fds' = Fds \cup {fdcounter, fdcounter + 1}
      /\ \A fd \in Fds : endpoints'[fd] = endpoints[fd]
      /\ endpoints'[fdcounter].id = id
      /\ endpoints'[fdcounter + 1].id = GetServerId(id)
      /\ fdcounter \in Nat
  <2>1. /\ Fds' = Fds \cup {fdcounter, fdcounter + 1}
        /\ \A fd \in Fds : endpoints'[fd] = endpoints[fd]
        /\ endpoints'[fdcounter] = Endpoint(id, "CLOSE_WAIT")
        /\ endpoints'[fdcounter + 1] = Endpoint(GetServerId(id), "CLOSE_WAIT")
        /\ fdcounter \in Nat
    BY <1>1, <1>2, TwoMore
  <2>2. \A x : Endpoint(x, "CLOSE_WAIT").id = x
    BY DEF Endpoint
  <2> QED
    BY <2>1, <2>2
<1>4. /\ DOMAIN streams' = DOMAIN streams \cup {id}
      /\ streams'[id] = fdcounter
      /\ \A x \in DOMAIN streams : streams'[x] = streams[x]
      /\ streams' = [x \in DOMAIN streams' |-> streams'[x]]
  BY <1>2 DEF Put
<1>5. /\ DOMAIN servers' = DOMAIN servers \cup {id.dstPort}
      /\ servers'[id.dstPort] = fdcounter + 1
      /\ \A p \in DOMAIN servers : p # id.dstPort => servers'[p] = servers[p]
      /\ servers' = [x \in DOMAIN servers' |-> servers'[x]]
  BY <1>2 DEF Put
<1>6. SameIds
  BY <1>3 DEF SameIds
<1>7. fdt \subseteq fdt' /\ fdt' \subseteq Fds' /\ clientPorts' \subseteq Ports
  BY <1>2, <1>3 DEF Tables
<1>8. \A fd \in fdt' \ fdt : IsStream(endpoints'[fd].id) => fd \in Range(streams')
  <2>1. \A fd \in fdt' \ fdt : fd \in {fdcounter, fdcounter + 1}
    BY <1>2
  <2>2. fdcounter \in Range(streams')
    BY <1>4 DEF Range
  <2>3. ~IsStream(endpoints'[fdcounter + 1].id)
    BY <1>1, <1>3 DEF IsStream
  <2> QED
    BY <2>1, <2>2, <2>3
<1>9. \A p \in DOMAIN servers' :
        \/ p \in DOMAIN servers /\ servers'[p] = servers[p]
        \/ /\ p \in Nat
           /\ servers'[p] \in Fds' /\ servers'[p] \in fdt'
           /\ IsServer(endpoints'[servers'[p]].id)
           /\ endpoints'[servers'[p]].id.dstPort = p
  <2>1. /\ servers'[id.dstPort] \in Fds' /\ servers'[id.dstPort] \in fdt'
        /\ endpoints'[servers'[id.dstPort]].id = GetServerId(id)
    <3>1. servers'[id.dstPort] = fdcounter + 1 /\ fdcounter + 1 \in fdt'
      BY <1>2, <1>5
    <3> QED
      BY <1>3, <3>1
  <2>2. \A p \in DOMAIN servers' : p # id.dstPort => p \in DOMAIN servers /\ servers'[p] = servers[p]
    BY <1>5
  <2> QED
    BY <1>1, <2>1, <2>2
<1>10. \A x \in DOMAIN streams' \ DOMAIN streams :
         /\ x \in StreamIdsHere /\ streams'[x] \in Fds' /\ streams'[x] \in fdt'
         /\ endpoints'[streams'[x]].id = x
  BY <1>2, <1>3, <1>4
<1>11. Tables'
  BY <1>2, <1>4, <1>5, <1>6, <1>7, <1>8, <1>9, <1>10, AddTables
<1> QED
  BY <1>4, <1>5, <1>11


-----------------------------------------------------------------------------
(***************************************************************************)
(* The invariant but for the queue of SMEs, and the steps of the MAC       *)
(* thread that only move statuses.                                         *)
(***************************************************************************)
EndpointsType == endpoints \in Seq(EndpointOf(Len(endpoints)))

CallRecords == [pc : {"idle"} \cup Waiting \cup Running, fd : Fds \cup {NoObject}]

DescriptorsType ==
    /\ handles \subseteq [fd : Fds, call : {"connect", "listen", "accept"}]
    /\ arrival \in [server : Fds \cup {NoObject}, stream : Fds \cup {NoObject}]

MacType ==
    /\ macPc \in {"idle", "schedule", "pending", "desync", "crashed"}
    /\ todo \subseteq StreamIdsHere
    /\ removedStreams \subseteq StreamIdsHere
    /\ announced \subseteq StreamId

\* The elements of the queue, each under its key.
Elements == {e \in [key : StreamId \X {0, 1}, val : SMEs] : e.key = GetKey(e.val)}

QueueOK == smeQueue \in Seq(Elements) /\ UniqueKeys(smeQueue)

Core ==
    /\ EndpointsType /\ Tables /\ thread \in [Threads -> CallRecords]
    /\ DescriptorsType /\ MacType
    /\ CallParts

\* The invariant is the core and what is said of the queue.
LEMMA IInvParts == IInv <=> Core /\ QueueOK /\ LastWordIsConnect
<1>1. (smeQueue \in Seq([key : StreamId \X {0, 1}, val : SMEs]) /\ QueueSound)
         <=> smeQueue \in Seq(Elements)
  <2> DEFINE Typed == [key : StreamId \X {0, 1}, val : SMEs]
  <2>1. \A e : e \in Elements <=> e \in Typed /\ e.key = GetKey(e.val)
    BY DEF Elements
  <2> HIDE DEF Typed
  <2>2. ASSUME smeQueue \in Seq(Elements)
        PROVE  smeQueue \in Seq(Typed) /\ QueueSound
    <3>1. \A i \in 1..Len(smeQueue) : smeQueue[i] \in Elements
      BY <2>2
    <3>2. QueueSound
      BY <2>1, <3>1 DEF QueueSound
    <3> QED
      BY <2>1, <2>2, <3>1, <3>2, SequenceIn
  <2>3. ASSUME smeQueue \in Seq(Typed), QueueSound
        PROVE  smeQueue \in Seq(Elements)
    <3>1. \A i \in 1..Len(smeQueue) : smeQueue[i] \in Typed
      BY <2>3
    <3>2. \A i \in 1..Len(smeQueue) : smeQueue[i] \in Elements
      BY <2>1, <2>3, <3>1 DEF QueueSound
    <3> QED
      BY <2>3, <3>2, SequenceIn
  <2> QED
    BY <2>2, <2>3 DEF Typed
<1>2. TypeOK <=> /\ EndpointsType
                 /\ fdt \subseteq Fds
                 /\ DOMAIN streams \subseteq StreamIdsHere /\ streams \in [DOMAIN streams -> Fds]
                 /\ DOMAIN servers \subseteq Nat /\ servers \in [DOMAIN servers -> Fds]
                 /\ clientPorts \subseteq Ports
                 /\ smeQueue \in Seq([key : StreamId \X {0, 1}, val : SMEs])
                 /\ UniqueKeys(smeQueue)
                 /\ thread \in [Threads -> CallRecords]
                 /\ DescriptorsType /\ MacType
  BY DEF TypeOK, EndpointsType, EndpointOf, Fds, CallRecords, DescriptorsType, MacType
<1> QED
  BY <1>1, <1>2 DEF IInv, Core, Tables, CallParts, QueueOK

\* Statuses move and the statuses only, of as many endpoints as before.
MovesOnly ==
    /\ endpoints' = [fd \in DOMAIN endpoints |-> endpoints'[fd]]
    /\ \A fd \in Fds :
          /\ endpoints'[fd] \in EndpointOf(Len(endpoints))
          /\ Moves(endpoints[fd], endpoints'[fd])
          /\ \/ endpoints[fd].status = "LISTEN" \/ endpoints'[fd].status # "LISTEN"
             \/ IsServed(fd)

LEMMA MovesOnlyType ==
    ASSUME TypeOK, MovesOnly
    PROVE  Len(endpoints') = Len(endpoints) /\ Fds' = Fds /\ EndpointsType' /\ SameIds
<1>1. Len(endpoints) \in Nat /\ DOMAIN endpoints = 1..Len(endpoints) /\ Fds = 1..Len(endpoints)
  BY EndpointIn
<1>2. endpoints' = [fd \in 1..Len(endpoints) |-> endpoints'[fd]]
  BY <1>1 DEF MovesOnly
<1>3. \A fd \in 1..Len(endpoints) : endpoints'[fd] \in EndpointOf(Len(endpoints))
  BY <1>1 DEF MovesOnly
<1>4. endpoints' \in Seq(EndpointOf(Len(endpoints))) /\ Len(endpoints') = Len(endpoints)
  BY <1>1, <1>2, <1>3
<1> QED
  BY <1>1, <1>4 DEF EndpointsType, Fds, MovesOnly, Moves, SameIds

\* ... and streams with which nobody works leave the maps.
LEMMA MovesCore ==
    ASSUME IInv, MovesOnly,
           \/ UNCHANGED tableVars
           \/ \E ids : /\ RemoveStreams(ids)
                       /\ \A id \in ids \cap DOMAIN streams : Removable(endpoints[streams[id]]),
           \A t \in Threads : SameCall(t),
           thread' \in [Threads -> CallRecords],
           UNCHANGED <<handles, arrival>>,
           macPc' = "pending" <=> macPc = "pending",
           MacType'
    PROVE  Core'
<1>1. TypeOK /\ MapsSound /\ CallParts /\ Tables /\ DescriptorsType
  BY IInvParts DEF IInv, Core, Tables
<1>2. Fds' = Fds /\ EndpointsType' /\ SameIds
  BY <1>1, MovesOnlyType
<1>3. Tables'
  BY <1>1, <1>2, SameTables, RemoveStreamsTables
<1>4. thread' \in [Threads -> CallRecords'] /\ DescriptorsType'
  BY <1>1, <1>2 DEF CallRecords, DescriptorsType
<1>5. servers' = servers
  BY DEF RemoveStreams, tableVars
<1>6. ASSUME NEW id \in DOMAIN streams, ~Removable(endpoints[streams[id]])
      PROVE  id \in DOMAIN streams' /\ streams'[id] = streams[id]
  BY <1>6 DEF RemoveStreams, tableVars
<1>7. QuietStep
  <2>1. \A fd \in Fds :
          /\ Moves(endpoints[fd], endpoints'[fd])
          /\ endpoints[fd].status = "LISTEN" \/ endpoints'[fd].status # "LISTEN"
                \/ IsServed(fd)'
    BY <1>5 DEF MovesOnly, Moves, IsServed, PortOf
  <2> QED
    BY <1>2, <1>5, <1>6, <2>1 DEF QuietStep
<1>8. CallParts'
  BY <1>1, <1>7, QuietFrame
<1> QED
  BY <1>2, <1>3, <1>4, <1>8 DEF Core

\* One endpoint's status moves.
LEMMA MovesOne ==
    ASSUME TypeOK, NEW fd \in Fds, NEW e, e \in EndpointOf(Len(endpoints)),
           Moves(endpoints[fd], e),
           endpoints[fd].status = "LISTEN" \/ e.status # "LISTEN" \/ IsServed(fd),
           endpoints' = [endpoints EXCEPT ![fd] = e]
    PROVE  MovesOnly
<1>1. /\ Fds = 1..Len(endpoints) /\ DOMAIN endpoints = Fds
      /\ \A f \in Fds : endpoints[f] \in EndpointOf(Len(endpoints))
  BY EndpointIn
<1>2. /\ DOMAIN endpoints' = DOMAIN endpoints
      /\ endpoints' = [f \in DOMAIN endpoints |-> endpoints'[f]]
      /\ \A f \in Fds : endpoints'[f] = IF f = fd THEN e ELSE endpoints[f]
  BY <1>1
<1>3. \A f \in Fds : Moves(endpoints[f], endpoints[f])
  BY DEF Moves, StatusMoves
<1> QED
  BY <1>1, <1>2, <1>3 DEF MovesOnly

\* A thread that nobody wakes is in the same call.
LEMMA SameThreads ==
    ASSUME thread' = thread
    PROVE  \A t \in Threads : SameCall(t)
  BY DEF SameCall

\* What a schedule does to the streams of the map.
LEMMA AddedStreamCore ==
    ASSUME IInv, NEW id \in StreamIdsHere, AddedStream(id)
    PROVE  Core'
<1>1. TypeOK /\ MapsSound /\ MacType /\ thread \in [Threads -> CallRecords]
  BY IInvParts DEF IInv, Core
<1>2. PICK fd : fd = streams[id]
  OBVIOUS
<1>3. fd \in Fds /\ endpoints[fd] \in EndpointOf(Len(endpoints))
  BY <1>1, <1>2, MappedKind, EndpointIn DEF AddedStream
<1>4. /\ endpoints' = [endpoints EXCEPT ![fd] = Added(endpoints[fd])]
      /\ thread' \in Notified(thread, fd)
      /\ todo' = todo \ {id} /\ removedStreams' = removedStreams \ {id}
      /\ UNCHANGED <<tableVars, handles, macPc, arrival, announced>>
  BY <1>2 DEF AddedStream
<1>5. MovesOnly
  <2>1. Added(endpoints[fd]) \in EndpointOf(Len(endpoints)) /\ Moves(endpoints[fd], Added(endpoints[fd]))
    BY <1>3, MacMoves
  <2>2. Added(endpoints[fd]).status = "LISTEN" => endpoints[fd].status = "LISTEN"
    BY DEF Added, SetStatus
  <2> QED
    BY <1>1, <1>3, <1>4, <2>1, <2>2, MovesOne
<1>6. (\A t \in Threads : SameCall(t)) /\ thread' \in [Threads -> CallRecords]
  BY <1>1, <1>4, NotifiedSameCall DEF CallRecords
<1>7. MacType'
  BY <1>1, <1>4 DEF MacType
<1> QED
  BY <1>4, <1>5, <1>6, <1>7, MovesCore

LEMMA RemovedStreamCore ==
    ASSUME IInv, NEW id \in StreamIdsHere, RemovedStream(id)
    PROVE  Core'
<1>1. TypeOK /\ MapsSound /\ MacType /\ thread \in [Threads -> CallRecords]
  BY IInvParts DEF IInv, Core
<1>2. PICK fd : fd = streams[id]
  OBVIOUS
<1>3. fd \in Fds /\ endpoints[fd] \in EndpointOf(Len(endpoints))
  BY <1>1, <1>2, MappedKind, EndpointIn DEF RemovedStream
<1>4. /\ endpoints' = [endpoints EXCEPT ![fd] = Removed(endpoints[fd])]
      /\ removedStreams' = removedStreams \ {id}
      /\ UNCHANGED <<thread, handles, macPc, arrival, announced, todo>>
      /\ \/ UNCHANGED tableVars
         \/ RemoveStreams({id}) /\ Removable(endpoints[streams[id]])
  BY <1>2 DEF RemovedStream
<1>5. MovesOnly
  <2>1. /\ Removed(endpoints[fd]) \in EndpointOf(Len(endpoints))
        /\ Moves(endpoints[fd], Removed(endpoints[fd]))
    BY <1>3, MacMoves
  <2>2. Removed(endpoints[fd]).status = "LISTEN" => endpoints[fd].status = "LISTEN"
    BY DEF Removed, SetStatus
  <2> QED
    BY <1>1, <1>3, <1>4, <2>1, <2>2, MovesOne
<1>6. (\A t \in Threads : SameCall(t)) /\ thread' \in [Threads -> CallRecords]
  BY <1>1, <1>4, SameThreads
<1>7. MacType'
  BY <1>1, <1>4 DEF MacType
<1>8. \/ UNCHANGED tableVars
      \/ \E ids : /\ RemoveStreams(ids)
                  /\ \A x \in ids \cap DOMAIN streams : Removable(endpoints[streams[x]])
  BY <1>4
<1> QED
  BY <1>4, <1>5, <1>6, <1>7, <1>8, MovesCore

\* What an info element does to a server or stream of the map.
LEMMA InfoElementCore ==
    ASSUME IInv, NEW fd \in Fds, NEW e,
           e \in {AcceptedServer(endpoints[fd]), RejectedStream(endpoints[fd]),
                  IF endpoints[fd].status = "LISTEN_WAIT"
                  THEN SetStatus(endpoints[fd], "LISTEN_FAILED") ELSE endpoints[fd]},
           e.status = "LISTEN" => IsServed(fd) \/ endpoints[fd].status = "LISTEN",
           endpoints' = [endpoints EXCEPT ![fd] = e],
           thread' \in Notified(thread, fd),
           UNCHANGED <<tableVars, handles, macVars, announced>>
    PROVE  Core'
<1>1. TypeOK /\ MapsSound /\ MacType /\ thread \in [Threads -> CallRecords]
  BY IInvParts DEF IInv, Core
<1>2. endpoints[fd] \in EndpointOf(Len(endpoints))
  BY <1>1, EndpointIn
<1>3. e \in EndpointOf(Len(endpoints)) /\ Moves(endpoints[fd], e)
  BY <1>2, MacMoves
<1>4. MovesOnly
  BY <1>1, <1>3, MovesOne
<1>5. (\A t \in Threads : SameCall(t)) /\ thread' \in [Threads -> CallRecords]
  BY <1>1, NotifiedSameCall DEF CallRecords
<1>6. MacType' /\ UNCHANGED <<macPc, arrival, handles>>
  BY <1>1 DEF MacType, macVars
<1> QED
  BY <1>4, <1>5, <1>6, MovesCore

LEMMA InfoElementsCore ==
    ASSUME IInv,
           \/ \E port \in ListenPorts :
                 (ServerOpened(port) /\ port \in DOMAIN servers) \/ ServerClosed(port)
           \/ \E id \in StreamIdsHere : StreamReject(id)
    PROVE  Core'
<1>1. TypeOK /\ MapsSound
  BY DEF IInv
<1>2. ASSUME NEW port \in ListenPorts, ServerOpened(port), port \in DOMAIN servers
      PROVE  Core'
  <2>1. PICK fd : fd = servers[port]
    OBVIOUS
  <2>2. fd \in Fds /\ IsServed(fd)
    BY <1>1, <1>2, <2>1, MappedKind
  <2>3. /\ endpoints' = [endpoints EXCEPT ![fd] = AcceptedServer(endpoints[fd])]
        /\ thread' \in Notified(thread, fd)
        /\ UNCHANGED <<tableVars, handles, macVars, announced>>
    BY <1>2, <2>1 DEF ServerOpened
  <2> QED
    BY <2>2, <2>3, InfoElementCore
<1>3. ASSUME NEW port \in ListenPorts, ServerClosed(port)
      PROVE  Core'
  <2>1. PICK fd : fd = servers[port]
    OBVIOUS
  <2>2. fd \in Fds /\ IsServed(fd)
    BY <1>1, <1>3, <2>1, MappedKind DEF ServerClosed
  <2> DEFINE e == IF endpoints[fd].status = "LISTEN_WAIT"
                  THEN SetStatus(endpoints[fd], "LISTEN_FAILED") ELSE endpoints[fd]
  <2>3. /\ endpoints' = [endpoints EXCEPT ![fd] = e]
        /\ thread' \in Notified(thread, fd)
        /\ UNCHANGED <<tableVars, handles, macVars, announced>>
    BY <1>3, <2>1 DEF ServerClosed
  <2> QED
    BY <2>2, <2>3, InfoElementCore
<1>4. ASSUME NEW id \in StreamIdsHere, StreamReject(id)
      PROVE  Core'
  <2>1. PICK fd : fd = streams[id]
    OBVIOUS
  <2>2. /\ fd \in Fds
        /\ RejectedStream(endpoints[fd]).status = "LISTEN" => endpoints[fd].status = "LISTEN"
    <3>1. fd \in Fds
      BY <1>1, <1>4, <2>1, MappedKind DEF StreamReject
    <3>2. SetStatus(endpoints[fd], "CONNECT_FAILED").status = "CONNECT_FAILED"
      BY <1>1, <3>1, EndpointIn, SetStatusType DEF StreamStatus
    <3> QED
      BY <3>1, <3>2 DEF RejectedStream
  <2>3. /\ endpoints' = [endpoints EXCEPT ![fd] = RejectedStream(endpoints[fd])]
        /\ thread' \in Notified(thread, fd)
        /\ UNCHANGED <<tableVars, handles, macVars, announced>>
    BY <1>4, <2>1 DEF StreamReject
  <2> QED
    BY <2>2, <2>3, InfoElementCore
<1> QED
  BY <1>2, <1>3, <1>4

\* A tile goes by.
LEMMA PeriodicUpdateCore ==
    ASSUME IInv, PeriodicUpdate
    PROVE  Core'
<1>1. TypeOK /\ MapsSound /\ MacType /\ thread \in [Threads -> CallRecords] /\ EndpointsSound
  BY IInvParts DEF IInv, Core
<1>2. /\ endpoints' = [fd \in DOMAIN endpoints |->
           IF fd \in Mapped THEN Updated(endpoints[fd]) ELSE endpoints[fd]]
      /\ thread' = AllNotified(thread, {fd \in Mapped : Fails(endpoints[fd])})
      /\ UNCHANGED <<tableVars, handles, macVars, announced>>
  BY DEF PeriodicUpdate
<1>3. /\ DOMAIN endpoints = Fds
      /\ \A fd \in Fds : endpoints[fd] \in EndpointOf(Len(endpoints))
  BY <1>1, EndpointIn
<1>4. MovesOnly
  <2>1. ASSUME NEW fd \in Fds
        PROVE  /\ endpoints'[fd] \in EndpointOf(Len(endpoints))
               /\ Moves(endpoints[fd], endpoints'[fd])
               /\ endpoints'[fd].status = "LISTEN" => endpoints[fd].status = "LISTEN"
    <3>1. Moves(endpoints[fd], endpoints[fd])
      BY DEF Moves, StatusMoves
    <3>2. Updated(endpoints[fd]).status = "LISTEN" => endpoints[fd].status = "LISTEN"
      <4> DEFINE e == endpoints[fd]
      <4>1. CASE Fails(e)
        <5>1. /\ e.status \in {"CONNECTING", "LISTEN_WAIT"}
              /\ GivenUp["CONNECTING"] = "CONNECT_FAILED"
              /\ GivenUp["LISTEN_WAIT"] = "LISTEN_FAILED"
              /\ ~Closing(e)
          BY <4>1 DEF Fails, Opening, GivenUp, Closing
        <5>2. Updated(e) = SetStatus(e, GivenUp[e.status])
          BY <4>1, <5>1 DEF Updated
        <5> QED
          BY <5>1, <5>2 DEF SetStatus
      <4>2. CASE ~Fails(e)
        <5>1. ~(Opening(e) /\ Closing(e))
          BY DEF Opening, Closing, GivenUp
        <5>2. Updated(e).status = e.status
          <6>0. e \in EndpointOf(Len(endpoints))
            BY <1>3
          <6>1. CASE Opening(e)
            BY <4>2, <5>1, <6>0, <6>1 DEF Updated, EndpointOf
          <6>2. CASE Closing(e)
            BY <4>2, <5>1, <6>0, <6>2 DEF Updated, EndpointOf
          <6>3. CASE ~Opening(e) /\ ~Closing(e)
            BY <4>2, <6>3 DEF Updated
          <6> QED
            BY <6>1, <6>2, <6>3
        <5> QED
          BY <5>2
      <4> QED
        BY <4>1, <4>2
    <3>3. /\ Updated(endpoints[fd]) \in EndpointOf(Len(endpoints))
          /\ Moves(endpoints[fd], Updated(endpoints[fd]))
      BY <1>3, MacMoves
    <3> QED
      BY <1>2, <1>3, <3>1, <3>2, <3>3
  <2>2. endpoints' = [fd \in DOMAIN endpoints |-> endpoints'[fd]]
    BY <1>2
  <2> QED
    BY <2>1, <2>2 DEF MovesOnly
<1>5. (\A t \in Threads : SameCall(t)) /\ thread' \in [Threads -> CallRecords]
  BY <1>1, <1>2, AllNotifiedSameCall DEF CallRecords
<1>6. MacType' /\ UNCHANGED <<macPc, arrival, handles, tableVars>>
  BY <1>1, <1>2 DEF MacType, macVars
<1> QED
  BY <1>4, <1>5, <1>6, MovesCore

\* The node loses synchronization.
LEMMA DesyncCore ==
    ASSUME IInv, Desync
    PROVE  Core'
<1>1. TypeOK /\ MapsSound /\ MacType /\ thread \in [Threads -> CallRecords]
  BY IInvParts DEF IInv, Core
<1> DEFINE fds == {streams[id] : id \in DOMAIN streams}
<1>2. /\ endpoints' = [fd \in DOMAIN endpoints |->
              IF fd \in fds THEN Desynced(endpoints[fd]) ELSE endpoints[fd]]
      /\ thread' = AllNotified(thread, fds)
      /\ RemoveStreams({id \in DOMAIN streams : Removable(endpoints[streams[id]])})
      /\ macPc' = "desync" /\ macPc = "idle"
      /\ UNCHANGED <<handles, todo, removedStreams, arrival, announced>>
  BY DEF Desync, MacIdle
<1> HIDE DEF fds
<1>3. /\ DOMAIN endpoints = Fds
      /\ \A fd \in Fds : endpoints[fd] \in EndpointOf(Len(endpoints))
  BY <1>1, EndpointIn
<1>4. MovesOnly
  <2>1. ASSUME NEW fd \in Fds
        PROVE  /\ endpoints'[fd] \in EndpointOf(Len(endpoints))
               /\ Moves(endpoints[fd], endpoints'[fd])
               /\ endpoints'[fd].status = "LISTEN" => endpoints[fd].status = "LISTEN"
    <3>1. Moves(endpoints[fd], endpoints[fd])
      BY DEF Moves, StatusMoves
    <3>2. Desynced(endpoints[fd]).status = "LISTEN" => endpoints[fd].status = "LISTEN"
      BY DEF Desynced, SetStatus
    <3>3. /\ Desynced(endpoints[fd]) \in EndpointOf(Len(endpoints))
          /\ Moves(endpoints[fd], Desynced(endpoints[fd]))
      BY <1>3, MacMoves
    <3> QED
      BY <1>2, <1>3, <3>1, <3>2, <3>3
  <2>2. endpoints' = [fd \in DOMAIN endpoints |-> endpoints'[fd]]
    BY <1>2
  <2> QED
    BY <2>1, <2>2 DEF MovesOnly
<1>5. (\A t \in Threads : SameCall(t)) /\ thread' \in [Threads -> CallRecords]
  BY <1>1, <1>2, AllNotifiedSameCall DEF CallRecords
<1>6. MacType'
  BY <1>1, <1>2 DEF MacType
<1>7. \E ids : /\ RemoveStreams(ids)
               /\ \A id \in ids \cap DOMAIN streams : Removable(endpoints[streams[id]])
  BY <1>2
<1> QED
  BY <1>2, <1>4, <1>5, <1>6, <1>7, MovesCore

\* Steps of the MAC thread that change no endpoint and no map.
LEMMA MacQuietCore ==
    ASSUME IInv,
           \/ \E schedule \in SUBSET StreamIdsHere : BeginSchedule(schedule)
           \/ \E id \in StreamIdsHere : RemovedMissingStream(id)
           \/ EndSchedule \/ DesyncClear \/ DequeueSMEs
           \/ UNCHANGED vars
    PROVE  Core'
<1>1. TypeOK /\ MacType /\ thread \in [Threads -> CallRecords]
  BY IInvParts DEF IInv, Core
<1>2. UNCHANGED <<endpoints, tableVars, thread, handles, arrival>>
  BY DEF BeginSchedule, RemovedMissingStream, EndSchedule, DesyncClear, DequeueSMEs, vars, macVars
<1>3. (macPc' = "pending" <=> macPc = "pending") /\ MacType'
  <2>1. CASE \E schedule \in SUBSET StreamIdsHere : BeginSchedule(schedule)
    <3>1. DOMAIN streams \subseteq StreamIdsHere
      BY <1>1 DEF TypeOK
    <3> QED
      BY <1>1, <2>1, <3>1 DEF BeginSchedule, MacType, MacIdle
  <2>2. CASE \E id \in StreamIdsHere : RemovedMissingStream(id)
    BY <1>1, <2>2 DEF RemovedMissingStream, MacType
  <2>3. CASE EndSchedule \/ DesyncClear \/ UNCHANGED vars
    BY <1>1, <2>3 DEF EndSchedule, DesyncClear, vars, macVars, MacType
  <2>4. CASE DequeueSMEs
    <3>1. \A sme \in QueuedVals(smeQueue) : sme.id \in StreamId
      <4>1. smeQueue \in Seq(Elements)
        BY IInvParts DEF QueueOK
      <4>2. \A i \in 1..Len(smeQueue) : smeQueue[i] \in Elements
        BY <4>1
      <4>3. \A e \in Elements : e.val.id \in StreamId
        BY DEF Elements, SMEs
      <4> QED
        BY <4>2, <4>3 DEF QueuedVals
    <3>2. announced' \subseteq StreamId
      BY <1>1, <2>4, <3>1 DEF DequeueSMEs, MacType
    <3> QED
      BY <1>1, <2>4, <3>2 DEF DequeueSMEs, MacType, macVars
  <2> QED
    BY <2>1, <2>2, <2>3, <2>4
<1>4. MovesOnly
  <2>1. /\ DOMAIN endpoints = Fds /\ endpoints = [fd \in DOMAIN endpoints |-> endpoints[fd]]
        /\ \A fd \in Fds : endpoints[fd] \in EndpointOf(Len(endpoints))
    BY <1>1, EndpointIn
  <2> QED
    BY <1>2, <2>1 DEF MovesOnly, Moves, StatusMoves
<1>5. \A t \in Threads : SameCall(t)
  BY <1>2, SameThreads
<1> QED
  BY <1>1, <1>2, <1>3, <1>4, <1>5, MovesCore

-----------------------------------------------------------------------------
(***************************************************************************)
(* Threads that go on in their calls, or leave them.                       *)
(***************************************************************************)
\* One thread's step, and the others'.
LEMMA OneThread ==
    ASSUME thread \in [Threads -> CallRecords], Fds \subseteq Fds',
           NEW t \in Threads, NEW r, r \in CallRecords', thread' = [thread EXCEPT ![t] = r]
    PROVE  /\ thread' \in [Threads -> CallRecords']
           /\ thread'[t] = r
           /\ \A u \in Threads \ {t} : thread'[u] = thread[u] /\ SameCall(u)
<1>1. CallRecords \subseteq CallRecords'
  BY DEF CallRecords
<1> QED
  BY <1>1 DEF SameCall

LEMMA GotoRecord ==
    ASSUME thread \in [Threads -> CallRecords], NEW t \in Threads, NEW pc,
           pc \in {"idle"} \cup Waiting \cup Running
    PROVE  /\ Goto(thread, t, pc) = [thread EXCEPT ![t] = [pc |-> pc, fd |-> thread[t].fd]]
           /\ [pc |-> pc, fd |-> thread[t].fd] \in CallRecords
           /\ Done(thread, t) = [thread EXCEPT ![t] = Idle]
           /\ Idle \in CallRecords
<1>1. thread[t] \in CallRecords
  OBVIOUS
<1>2. [thread[t] EXCEPT !.pc = pc] = [pc |-> pc, fd |-> thread[t].fd]
  BY <1>1 DEF CallRecords
<1> QED
  BY <1>1, <1>2 DEF Goto, Done, Idle, CallRecords

\* A thread goes on: to sleep, or to the next step of its call.
LEMMA GoOnCore ==
    ASSUME IInv, NEW t \in Threads, NEW pc, pc \in Waiting \cup Running,
           thread' = Goto(thread, t, pc),
           \/ thread[t].pc \in ConnectPcs /\ pc \in ConnectPcs
           \/ /\ thread[t].pc \in ListenPcs /\ pc \in ListenPcs
              /\ pc = "unlisten" => Object(t).status \notin {"LISTEN_WAIT", "LISTEN"}
           \/ thread[t].pc \in AcceptPcs /\ pc \in AcceptPcs
           \/ thread[t].pc \in HandOverPcs /\ pc \in HandOverPcs,
           UNCHANGED <<endpoints, tableVars, handles, macVars, announced>>
    PROVE  Core'
<1>1. TypeOK /\ MacType /\ thread \in [Threads -> CallRecords]
  BY IInvParts DEF IInv, Core
<1>2. /\ Fds' = Fds /\ CallRecords' = CallRecords
      /\ UNCHANGED <<arrival, macPc, handles, tableVars>> /\ MacType'
  BY <1>1 DEF macVars, MacType, Fds, CallRecords
<1> DEFINE r == [pc |-> pc, fd |-> thread[t].fd]
<1>3. thread' = [thread EXCEPT ![t] = r] /\ r \in CallRecords
  BY <1>1, GotoRecord
<1>4. /\ thread' \in [Threads -> CallRecords]
      /\ thread'[t] = r
      /\ \A u \in Threads \ {t} : SameCall(u)
  <2> HIDE DEF r
  <2> QED
    BY <1>1, <1>2, <1>3, OneThread
<1>5. SameCall(t)
  BY <1>4 DEF SameCall
<1>6. MovesOnly
  <2>1. /\ DOMAIN endpoints = Fds /\ endpoints = [fd \in DOMAIN endpoints |-> endpoints[fd]]
        /\ \A fd \in Fds : endpoints[fd] \in EndpointOf(Len(endpoints))
    BY <1>1, EndpointIn
  <2> QED
    BY <2>1 DEF MovesOnly, Moves, StatusMoves
<1>7. \A u \in Threads : SameCall(u)
  BY <1>4, <1>5
<1> QED
  BY <1>2, <1>4, <1>6, <1>7, MovesCore

\* A thread leaves its call, and takes its object from the maps when the call
\* is connect, listen or close.
LEMMA LeaveCore ==
    ASSUME IInv, NEW t \in Threads, thread[t].pc # "idle",
           thread' = Done(thread, t),
           \/ UNCHANGED tableVars
           \/ thread[t].pc \in {"unconnect", "closeRemove"} /\ RemoveStreams({Object(t).id})
           \/ thread[t].pc = "unlisten" /\ RemoveServer(Object(t).id.dstPort),
           UNCHANGED <<endpoints, handles, macVars, announced>>
    PROVE  Core'
<1>1. /\ TypeOK /\ MapsSound /\ CallParts /\ Tables /\ MacType /\ DescriptorsType
      /\ EndpointsType /\ thread \in [Threads -> CallRecords]
  BY IInvParts DEF IInv, Core
<1>2. /\ Fds' = Fds /\ CallRecords' = CallRecords /\ SameIds /\ MacType' /\ DescriptorsType'
      /\ EndpointsType'
      /\ UNCHANGED <<arrival, macPc, handles>>
  BY <1>1 DEF macVars, MacType, DescriptorsType, EndpointsType, Fds, CallRecords, SameIds
<1>3. /\ thread' \in [Threads -> CallRecords]
      /\ thread'[t] = Idle
      /\ \A u \in Threads \ {t} : SameCall(u)
  <2>1. thread' = [thread EXCEPT ![t] = Idle] /\ Idle \in CallRecords
    BY <1>1 DEF Done, Idle, CallRecords
  <2> QED
    BY <1>1, <1>2, <2>1, OneThread
<1>4. PICK fd, port : fd = thread[t].fd /\ port = Object(t).id.dstPort
  OBVIOUS
<1>5. Tables'
  <2>1. CASE UNCHANGED tableVars
    BY <1>1, <1>2, <2>1, SameTables
  <2>2. CASE RemoveStreams({Object(t).id})
    <3>1. PICK ids : ids = {Object(t).id}
      OBVIOUS
    <3> QED
      BY <1>1, <1>2, <2>2, <3>1, RemoveStreamsTables
  <2>3. CASE RemoveServer(Object(t).id.dstPort)
    BY <1>1, <1>2, <1>4, <2>3, RemoveServerTables
  <2> QED
    BY <2>1, <2>2, <2>3
<1>6. \A id \in DOMAIN streams :
        \/ id \in DOMAIN streams' /\ streams'[id] = streams[id]
        \/ thread[t].fd = streams[id]
  <2>1. CASE UNCHANGED tableVars \/ RemoveServer(Object(t).id.dstPort)
    BY <2>1 DEF tableVars, RemoveServer
  <2>2. CASE thread[t].pc \in {"unconnect", "closeRemove"} /\ RemoveStreams({Object(t).id})
    <3>1. IsMapped(thread[t].fd)
      BY <1>1, <2>2 DEF CallParts, ThreadsSound, ConnectSound, CloseSound, ConnectPcs
    <3>2. streams[Object(t).id] = thread[t].fd
      BY <3>1 DEF IsMapped, Object
    <3> QED
      BY <2>2, <3>2 DEF RemoveStreams
  <2> QED
    BY <2>1, <2>2
<1>7. \A p \in DOMAIN servers :
        \/ p \in DOMAIN servers' /\ servers'[p] = servers[p]
        \/ thread[t].pc = "unlisten" /\ PortOf(thread[t].fd) = p
  BY DEF tableVars, RemoveStreams, RemoveServer, PortOf, Object
<1>8. QuietStep
  <2>1. \A e : Moves(e, e)
    BY DEF Moves, StatusMoves
  <2>2. \A fd_1 \in Fds : endpoints'[fd_1] = endpoints[fd_1]
    OBVIOUS
  <2>3. \A u \in Threads : SameCall(u) \/ thread'[u] = Idle
    BY <1>3
  <2> QED
    BY <1>2, <1>3, <1>6, <1>7, <2>1, <2>2, <2>3 DEF QuietStep
<1>9. CallParts'
  BY <1>1, <1>8, QuietFrame
<1> QED
  BY <1>2, <1>3, <1>5, <1>9 DEF Core

\* A thread leaves its call, and the application has the descriptor.
LEMMA GiveCore ==
    ASSUME IInv, NEW t \in Threads, NEW fd, fd = thread[t].fd, NEW call,
           thread' = Done(thread, t),
           handles' = handles \cup {Handle(fd, call)},
           \/ /\ call = "connect" /\ thread[t].pc \in ConnectPcs
              /\ endpoints[fd].status = "ESTABLISHED"
           \/ /\ call = "listen" /\ thread[t].pc \in ListenPcs
              /\ endpoints[fd].status = "LISTEN"
           \/ call = "accept" /\ thread[t].pc \in HandOverPcs,
           EndpointsType', Len(endpoints') = Len(endpoints),
           \A f \in Fds : /\ endpoints'[f].id = endpoints[f].id
                          /\ endpoints'[f].pendingAccept = endpoints[f].pendingAccept
                          /\ endpoints'[f].status = IF f = fd /\ call = "accept"
                                THEN "ESTABLISHED" ELSE endpoints[f].status,
           UNCHANGED <<tableVars, macVars, announced>>
    PROVE  Core'
<1>1. /\ TypeOK /\ MapsSound /\ Tables /\ MacType /\ DescriptorsType
      /\ thread \in [Threads -> CallRecords]
      /\ EndpointsSound /\ HandlesSound /\ ArrivalSound /\ OneHolder
      /\ \A u \in Threads : CallSound(u)
  BY IInvParts DEF IInv, Core, CallParts, ThreadsSound, CallSound
<1>2. /\ Fds' = Fds /\ CallRecords' = CallRecords /\ SameIds /\ MacType'
      /\ UNCHANGED <<arrival, macPc, streams, servers>>
  BY <1>1 DEF macVars, tableVars, MacType, Fds, CallRecords, SameIds
<1>3. /\ fd \in Fds
      /\ call = "listen" => ServerFd(fd)
      /\ call # "listen" => StreamFd(fd)
      /\ call = "accept" => endpoints[fd].status = "ACCEPT_WAIT"
      /\ call = "connect" => IsMapped(fd)
      /\ call \in {"connect", "listen", "accept"}
  BY <1>1 DEF CallSound, ConnectSound, ListenSound, AcceptSound, StreamFd, ServerFd, Object
<1>4. /\ thread' \in [Threads -> CallRecords]
      /\ thread'[t] = Idle
      /\ \A u \in Threads \ {t} : thread'[u] = thread[u] /\ SameCall(u)
  <2>1. thread' = [thread EXCEPT ![t] = Idle] /\ Idle \in CallRecords
    BY <1>1 DEF Done, Idle, CallRecords
  <2> QED
    BY <1>1, <1>2, <2>1, OneThread
<1>5. Tables'
  BY <1>1, <1>2, SameTables
<1>6. DescriptorsType'
  BY <1>1, <1>2, <1>3 DEF DescriptorsType, Handle
<1>7. Steady
  BY <1>2, <1>3 DEF Steady
<1>8. ASSUME NEW f \in Fds, f # fd \/ call # "accept" PROVE Kept(f)
  BY <1>2, <1>8 DEF Kept, StatusMoves, IsMapped
<1>9. \A f : (StreamFd(f)' <=> StreamFd(f)) /\ (ServerFd(f)' <=> ServerFd(f))
  BY <1>2 DEF StreamFd, ServerFd
<1>10. EndpointsSound'
  <2> SUFFICES ASSUME NEW s \in Fds
               PROVE  /\ ServerFd(s) =>
                            /\ endpoints'[s].status \in {"LISTEN_WAIT", "LISTEN_FAILED",
                                                         "LISTEN", "CLOSE_WAIT"}
                            /\ endpoints'[s].status = "LISTEN" => IsServed(s)'
                      /\ StreamFd(s) => endpoints'[s].pendingAccept = << >>
                      /\ \A f \in Range(endpoints'[s].pendingAccept) :
                            /\ StreamFd(f)
                            /\ endpoints'[f].status \in {"ACCEPT_WAIT", "CLOSE_WAIT"}
                            /\ endpoints'[s].status # "CLOSE_WAIT" =>
                                  endpoints'[f].status = "ACCEPT_WAIT"
    BY <1>2, <1>9 DEF EndpointsSound
  <2>1. IsServed(s)' <=> IsServed(s)
    BY <1>2 DEF IsServed, PortOf
  <2>2. ServerFd(s) => ~(s = fd /\ call = "accept")
    BY <1>3 DEF ServerFd, StreamFd, IsStream
  <2>3. ASSUME NEW f \in Range(endpoints[s].pendingAccept)
        PROVE  /\ StreamFd(f) /\ f \in Fds
               /\ endpoints[f].status \in {"ACCEPT_WAIT", "CLOSE_WAIT"}
               /\ endpoints[s].status # "CLOSE_WAIT" => endpoints[f].status = "ACCEPT_WAIT"
               /\ ServerFd(s)
               /\ f # fd
    <3>1. /\ StreamFd(f)
          /\ endpoints[f].status \in {"ACCEPT_WAIT", "CLOSE_WAIT"}
          /\ endpoints[s].status # "CLOSE_WAIT" => endpoints[f].status = "ACCEPT_WAIT"
          /\ StreamFd(s) => endpoints[s].pendingAccept = << >>
      BY <1>1 DEF EndpointsSound
    <3>2. ServerFd(s)
      BY <3>1 DEF ServerFd, StreamFd, IsStream, Range
    <3>3. f # fd
      BY <1>1, <3>1, HeldOnce
    <3> QED
      BY <3>1, <3>2, <3>3 DEF StreamFd
  <2>4. /\ ServerFd(s) =>
              /\ endpoints[s].status \in {"LISTEN_WAIT", "LISTEN_FAILED", "LISTEN",
                                          "CLOSE_WAIT"}
              /\ endpoints[s].status = "LISTEN" => IsServed(s)
        /\ StreamFd(s) => endpoints[s].pendingAccept = << >>
    BY <1>1 DEF EndpointsSound
  <2> QED
    BY <2>1, <2>2, <2>3, <2>4
<1>11. ASSUME NEW u \in Threads \ {t} PROVE CallSound(u)'
  <2>1. ASSUME NEW f \in Fds, f = thread[u].fd, thread[u].pc \notin AcceptPcs PROVE Kept(f)
    <3>1. StreamFd(fd) => f # fd
      BY <1>1, <1>3, <2>1, HeldOnce
    <3> QED
      BY <1>3, <1>8, <3>1
  <2>2. ASSUME NEW h \in handles' \ handles PROVE HandleApart(u, h)
    <3>1. h = Handle(fd, call) /\ h.fd = fd /\ h.call = call
      BY <2>2 DEF Handle
    <3>2. CASE call # "listen"
      <4>1. thread[u].fd # fd
        BY <1>1, <1>3, <3>2, HeldOnce
      <4> QED
        BY <1>3, <3>1, <3>2, <4>1 DEF HandleApart
    <3>3. CASE call = "listen"
      <4>1. /\ thread[u].fd # fd
            /\ thread[u].pc \in ListenPcs => PortOf(thread[u].fd) # PortOf(fd)
        BY <1>1, <3>3 DEF CallSound, ListenSound
      <4> QED
        BY <1>3, <3>1, <3>3, <4>1 DEF HandleApart, PortOf
    <3> QED
      BY <3>2, <3>3
  <2>3. \A v \in Threads \ {u} : Apart(u, v)
    BY <1>4 DEF Apart
  <2>4. \A v \in Threads : thread[v].pc \in ListenPcs => thread[v].fd \in Fds
    BY <1>1 DEF CallSound, ListenSound, ServerFd
  <2>5. thread[u].pc \in ListenPcs => PortKept(PortOf(thread[u].fd))
    <3>1. PICK p : p = PortOf(thread[u].fd)
      OBVIOUS
    <3>2. ASSUME thread[u].pc \in ListenPcs PROVE PortOf(thread[u].fd)' = p
      BY <1>2, <1>4, <2>4, <3>1, <3>2 DEF PortOf
    <3>3. PortKept(p)
      BY <1>2 DEF PortKept
    <3> QED
      BY <3>1, <3>2, <3>3 DEF PortKept
  <2> QED
    BY <1>1, <1>4, <1>7, <2>1, <2>2, <2>3, <2>4, <2>5, CallFrame
<1>12. ThreadsSound'
  BY <1>4, <1>11, IdleSound DEF ThreadsSound, CallSound
<1>13. HandlesSound'
  <2>1. ASSUME NEW h \in handles PROVE Kept(h.fd)
    <3>1. PICK f \in Fds : f = h.fd
      BY <1>1 DEF DescriptorsType
    <3>2. call = "accept" => f # fd
      BY <1>1, <1>3, <3>1, HeldOnce
    <3>3. Kept(f)
      BY <1>8, <3>2
    <3> QED
      BY <3>1, <3>3 DEF Kept
  <2>2. ASSUME NEW h \in handles' \ handles
        PROVE  /\ h.call = "listen" => ServerFd(h.fd)' /\ endpoints'[h.fd].status = "LISTEN"
               /\ h.call # "listen" =>
                     StreamFd(h.fd)' /\ endpoints'[h.fd].status \in OpenedStatus
               /\ h.call = "connect" => IsMapped(h.fd)'
    <3>1. h.fd = fd /\ h.call = call
      BY <2>2 DEF Handle
    <3>2. IsMapped(fd)' <=> IsMapped(fd)
      BY <1>2, <1>3 DEF IsMapped
    <3> QED
      BY <1>3, <1>9, <3>1, <3>2 DEF OpenedStatus, ConnectPcs, ListenPcs, HandOverPcs
  <2> QED
    BY <1>1, <1>7, <2>1, <2>2, HandlesFrame
<1>14. ArrivalSound'
  <2>1. ASSUME NEW f \in Fds, f = arrival.stream PROVE Kept(f)
    <3>1. StreamFd(fd) => f # fd
      BY <1>1, <2>1, HeldOnce
    <3> QED
      BY <1>3, <1>8, <3>1
  <2> QED
    BY <1>1, <1>2, <1>7, <2>1, ArrivalFrame
<1>15. OneHolder'
  <2>1. ASSUME NEW f \in Fds, StreamFd(f) PROVE \A x, y \in Holders(f)' : x = y
    <3>0. \A x, y \in Holders(f) : x = y
      BY <1>1, <2>1 DEF OneHolder
    <3>1. CASE f # fd
      <4>1. \A u \in Threads : thread'[u].fd = f => thread[u].fd = f
        BY <1>4, <2>1 DEF Idle, NoObject, Fds
      <4>2. \A h \in handles' : h.fd = f => h \in handles
        BY <3>1 DEF Handle
      <4>3. Holders(f)' \subseteq Holders(f)
        BY <1>2, <4>1, <4>2 DEF Holders
      <4> QED
        BY <3>0, <4>3
    <3>2. CASE f = fd
      <4>1. \A u \in Threads : thread'[u].fd = f => u # t /\ thread[u].fd = f
        BY <1>4, <2>1 DEF Idle, NoObject, Fds
      <4>2. \A h \in handles' : h \in handles \/ h.call = call
        BY DEF Handle
      <4>3. <<"thread", t>> \in Holders(f)
        BY <3>2 DEF Holders
      <4>4. Holders(f)' \subseteq (Holders(f) \ {<<"thread", t>>}) \cup {<<"application", call>>}
        <5> SUFFICES ASSUME NEW x \in Holders(f)', x # <<"application", call>>
                     PROVE  x \in Holders(f) /\ x # <<"thread", t>>
          OBVIOUS
        <5>1. CASE \E s \in Fds : f \in Range(endpoints[s].pendingAccept) /\ x = <<"server", s>>
          BY <5>1 DEF Holders
        <5>2. CASE \E u \in Threads : thread'[u].fd = f /\ x = <<"thread", u>>
          <6>1. PICK u \in Threads : thread'[u].fd = f /\ x = <<"thread", u>>
            BY <5>2
          <6> QED
            BY <4>1, <6>1 DEF Holders
        <5>3. CASE arrival.stream = f /\ x = <<"mac", NoObject>>
          BY <5>3 DEF Holders
        <5>4. CASE \E h \in handles' : h.fd = f /\ x = <<"application", h.call>>
          BY <4>2, <5>4 DEF Holders
        <5> QED
          BY <1>2, <5>1, <5>2, <5>3, <5>4 DEF Holders
      <4> QED
        BY <3>0, <4>3, <4>4, HolderSwap
    <3> QED
      BY <3>1, <3>2
  <2>2. \A f \in Fds : \A i, j \in DOMAIN endpoints'[f].pendingAccept :
           endpoints'[f].pendingAccept[i] = endpoints'[f].pendingAccept[j] => i = j
    BY <1>1 DEF OneHolder
  <2> QED
    BY <1>2, <1>9, <2>1, <2>2 DEF OneHolder
<1> QED
  BY <1>2, <1>4, <1>5, <1>6, <1>10, <1>12, <1>13, <1>14, <1>15 DEF Core, CallParts

-----------------------------------------------------------------------------
(***************************************************************************)
(* Endpoints are made, and calls begin.                                    *)
(***************************************************************************)
\* A refused stream and its server.
LEMMA RefusedStreamCore ==
    ASSUME IInv, NEW id \in StreamIdsHere, RefusedStream(id)
    PROVE  Core'
<1>1. /\ TypeOK /\ MapsSound /\ CallParts /\ Tables /\ MacType /\ DescriptorsType
      /\ thread \in [Threads -> CallRecords]
  BY IInvParts DEF IInv, Core
<1>2. /\ endpoints' = endpoints \o <<Endpoint(id, "CLOSE_WAIT"),
                                     Endpoint(GetServerId(id), "CLOSE_WAIT")>>
      /\ ~ServerListens(id.dstPort)
      /\ todo' = todo \ {id}
      /\ UNCHANGED <<thread, handles, macPc, removedStreams, arrival, announced>>
  BY DEF RefusedStream
<1>3. /\ Fds' = Fds \cup {fdcounter, fdcounter + 1}
      /\ EndpointsType'
      /\ \A fd \in Fds : endpoints'[fd] = endpoints[fd]
      /\ \A fd \in Fds' \ Fds : /\ endpoints'[fd].pendingAccept = << >>
                                /\ endpoints'[fd].status = "CLOSE_WAIT"
  <2>1. id \in StreamId /\ GetServerId(id) \in StreamId
    BY IdsHere
  <2>2. /\ Fds' = Fds \cup {fdcounter, fdcounter + 1}
        /\ endpoints' \in Seq(EndpointOf(Len(endpoints')))
        /\ \A fd \in Fds : endpoints'[fd] = endpoints[fd]
        /\ endpoints'[fdcounter] = Endpoint(id, "CLOSE_WAIT")
        /\ endpoints'[fdcounter + 1] = Endpoint(GetServerId(id), "CLOSE_WAIT")
    BY <1>1, <1>2, <2>1, TwoMore
  <2>3. \A x : /\ Endpoint(x, "CLOSE_WAIT").pendingAccept = << >>
               /\ Endpoint(x, "CLOSE_WAIT").status = "CLOSE_WAIT"
    BY DEF Endpoint
  <2>4. \A fd \in Fds' \ Fds : fd \in {fdcounter, fdcounter + 1}
    BY <2>2
  <2> QED
    BY <2>2, <2>3, <2>4 DEF EndpointsType
<1>4. /\ Tables'
      /\ \A x \in DOMAIN streams : x \in DOMAIN streams' /\ streams'[x] = streams[x]
      /\ DOMAIN servers' = DOMAIN servers \cup {id.dstPort}
      /\ servers'[id.dstPort] = fdcounter + 1
      /\ \A p \in DOMAIN servers : p # id.dstPort => servers'[p] = servers[p]
  BY <1>1, RefusedTables
<1>5. QuietStep
  <2>1. \A e : Moves(e, e)
    BY DEF Moves, StatusMoves
  <2>2. endpoints'[servers'[id.dstPort]].status = "CLOSE_WAIT"
    <3>1. fdcounter + 1 \in Fds' /\ fdcounter + 1 \notin Fds
      <4>1. id \in StreamId /\ GetServerId(id) \in StreamId
        BY IdsHere
      <4> QED
        BY <1>1, <1>2, <4>1, TwoMore
    <3> QED
      BY <1>3, <1>4, <3>1
  <2>3. \A p \in DOMAIN servers :
          \/ p \in DOMAIN servers' /\ servers'[p] = servers[p]
          \/ /\ endpoints[servers[p]].status # "LISTEN"
             /\ p \in DOMAIN servers' /\ endpoints'[servers'[p]].status = "CLOSE_WAIT"
    BY <1>2, <1>4, <2>2 DEF ServerListens
  <2>4. \A t \in Threads : SameCall(t)
    BY <1>2, SameThreads
  <2> QED
    BY <1>2, <1>3, <1>4, <2>1, <2>3, <2>4 DEF QuietStep
<1>6. CallParts'
  BY <1>1, <1>5, QuietFrame
<1>7. thread' \in [Threads -> CallRecords'] /\ DescriptorsType' /\ MacType'
  BY <1>1, <1>2, <1>3 DEF CallRecords, DescriptorsType, MacType
<1> QED
  BY <1>3, <1>4, <1>6, <1>7 DEF Core

\* The info element of a server the node does not have.
LEMMA ServerOpenedCore ==
    ASSUME IInv, NEW port \in ListenPorts, ServerOpened(port), port \notin DOMAIN servers
    PROVE  Core'
<1>1. /\ TypeOK /\ MapsSound /\ CallParts /\ Tables /\ MacType /\ DescriptorsType
      /\ thread \in [Threads -> CallRecords]
  BY IInvParts DEF IInv, Core
<1>2. /\ AddServer(ServerId(port), "CLOSE_WAIT")
      /\ UNCHANGED <<streams, clientPorts, thread, handles, macPc, todo, removedStreams,
                     arrival, announced>>
      /\ "CLOSE_WAIT" \in StreamStatus
  BY DEF ServerOpened, macVars, StreamStatus
<1>3. /\ Fds' = Fds \cup {fdcounter}
      /\ EndpointsType'
      /\ \A fd \in Fds : endpoints'[fd] = endpoints[fd]
      /\ endpoints'[fdcounter].status = "CLOSE_WAIT"
      /\ endpoints'[fdcounter].pendingAccept = << >>
  BY <1>1, <1>2, IdsHere, OneMore DEF AddServer, EndpointsType
<1>4. /\ Tables'
      /\ DOMAIN servers' = DOMAIN servers \cup {port}
      /\ \A p \in DOMAIN servers : p # port => servers'[p] = servers[p]
  BY <1>1, <1>2, AddServerTables
<1>5. QuietStep
  <2>1. \A e : Moves(e, e)
    BY DEF Moves, StatusMoves
  <2>2. \A t \in Threads : SameCall(t)
    BY <1>2, SameThreads
  <2> QED
    BY <1>2, <1>3, <1>4, <2>1, <2>2 DEF QuietStep
<1>6. CallParts'
  BY <1>1, <1>5, QuietFrame
<1>7. thread' \in [Threads -> CallRecords'] /\ DescriptorsType' /\ MacType'
  BY <1>1, <1>2, <1>3 DEF CallRecords, DescriptorsType, MacType
<1> QED
  BY <1>3, <1>4, <1>6, <1>7 DEF Core

\* Whoever works on the other endpoints does not notice a new one.
LEMMA Grown ==
    ASSUME IInv, NEW id \in StreamId, NEW status \in StreamStatus,
           endpoints' = Append(endpoints, Endpoint(id, status)),
           IsServer(id) => status = "LISTEN_WAIT",
           \A x \in DOMAIN streams : x \in DOMAIN streams' /\ streams'[x] = streams[x],
           \A p \in DOMAIN servers : p \in DOMAIN servers' /\ servers'[p] = servers[p],
           handles' = handles
    PROVE  /\ Fds' = Fds \cup {fdcounter} /\ fdcounter \notin Fds /\ fdcounter # NoObject
           /\ EndpointsType' /\ Steady
           /\ \A fd \in Fds : Kept(fd) /\ endpoints'[fd] = endpoints[fd]
           /\ endpoints'[fdcounter].id = id
           /\ endpoints'[fdcounter].status = status
           /\ endpoints'[fdcounter].pendingAccept = << >>
           /\ EndpointsSound' /\ HandlesSound'
           /\ thread \in [Threads -> CallRecords] /\ CallRecords \subseteq CallRecords'
           /\ \A s \in Fds : fdcounter \notin Range(endpoints[s].pendingAccept)
           /\ \A t \in Threads : thread[t].fd # fdcounter
           /\ arrival.stream # fdcounter /\ \A h \in handles : h.fd # fdcounter
<1>1. /\ TypeOK /\ thread \in [Threads -> CallRecords]
      /\ EndpointsSound /\ HandlesSound
  BY IInvParts DEF IInv, Core
<1>2. /\ Fds' = Fds \cup {fdcounter} /\ fdcounter \notin Fds
      /\ EndpointsType'
      /\ \A fd \in Fds : endpoints'[fd] = endpoints[fd]
      /\ endpoints'[fdcounter].id = id
      /\ endpoints'[fdcounter].status = status
      /\ endpoints'[fdcounter].pendingAccept = << >>
  BY <1>1, OneMore DEF EndpointsType
<1>3. Steady
  BY <1>2 DEF Steady
<1>4. \A fd \in Fds : Kept(fd)
  BY <1>2 DEF Kept, StatusMoves, IsMapped
<1>5. EndpointsSound'
  <2>1. ASSUME NEW fd \in Fds, endpoints'[fd].status = "LISTEN", ServerFd(fd)
        PROVE  endpoints[fd].status = "LISTEN" /\ (IsServed(fd) => IsServed(fd)')
    BY <1>2, <2>1 DEF IsServed, PortOf
  <2>2. \A fd \in Fds' \ Fds :
           /\ endpoints'[fd].pendingAccept = << >>
           /\ ServerFd(fd)' => endpoints'[fd].status \in {"LISTEN_WAIT", "CLOSE_WAIT"}
    BY <1>2 DEF ServerFd
  <2>3. \A fd \in Fds : /\ StatusMoves(endpoints[fd], endpoints'[fd])
                        /\ endpoints'[fd].pendingAccept = endpoints[fd].pendingAccept
    BY <1>2 DEF StatusMoves
  <2> QED
    BY <1>1, <1>3, <2>1, <2>2, <2>3, EndpointsFrame
<1>6. HandlesSound'
  <2>1. ASSUME NEW h \in handles PROVE Kept(h.fd)
    <3>1. PICK fd \in Fds : fd = h.fd
      BY <1>1 DEF TypeOK
    <3> QED
      BY <1>4, <3>1 DEF Kept
  <2>2. handles' \ handles = {}
    OBVIOUS
  <2> QED
    BY <1>1, <1>3, <2>1, <2>2, HandlesFrame
<1>7. CallRecords \subseteq CallRecords'
  BY <1>2 DEF CallRecords
<1>8. fdcounter # NoObject
  BY <1>1, EndpointIn DEF fdcounter, NoObject
<1>9. /\ \A s \in Fds : fdcounter \notin Range(endpoints[s].pendingAccept)
      /\ \A t \in Threads : thread[t].fd # fdcounter
      /\ arrival.stream # fdcounter /\ \A h \in handles : h.fd # fdcounter
  <2>1. \A s \in Fds : fdcounter \notin Range(endpoints[s].pendingAccept)
    <3> SUFFICES ASSUME NEW s \in Fds, fdcounter \in Range(endpoints[s].pendingAccept)
                 PROVE  FALSE
      OBVIOUS
    <3>1. endpoints[s].pendingAccept \in Seq(Fds)
      BY <1>1, EndpointIn
    <3> QED
      BY <1>2, <3>1 DEF Range
  <2>2. \A t \in Threads : thread[t].fd # fdcounter
    BY <1>1, <1>2, <1>8 DEF CallRecords
  <2>3. arrival.stream # fdcounter /\ \A h \in handles : h.fd # fdcounter
    BY <1>1, <1>2, <1>8 DEF TypeOK
  <2> QED
    BY <2>1, <2>2, <2>3
<1> QED
  BY <1>1, <1>2, <1>3, <1>4, <1>5, <1>6, <1>7, <1>8, <1>9

\* connect and listen make their objects.
LEMMA BeginCore ==
    ASSUME IInv, NEW id \in StreamId, NEW status \in StreamStatus,
           NEW t \in Threads, NEW pc,
           endpoints' = Append(endpoints, Endpoint(id, status)),
           \/ IsStream(id) /\ status = "CONNECTING" /\ pc = "connectSend"
           \/ IsServer(id) /\ status = "LISTEN_WAIT" /\ pc = "listenSend",
           \A x \in DOMAIN streams : x \in DOMAIN streams' /\ streams'[x] = streams[x],
           \A p \in DOMAIN servers : p \in DOMAIN servers' /\ servers'[p] = servers[p],
           IsStream(id) => id \in DOMAIN streams' /\ streams'[id] = fdcounter,
           IsServer(id) => /\ id.dstPort \notin DOMAIN servers
                           /\ id.dstPort \in DOMAIN servers'
                           /\ servers'[id.dstPort] = fdcounter,
           Tables',
           thread[t].pc = "idle",
           thread' = [thread EXCEPT ![t] = [pc |-> pc, fd |-> fdcounter]],
           UNCHANGED <<handles, macVars, announced>>
    PROVE  Core'
<1>0. IsServer(id) => status = "LISTEN_WAIT"
  BY DEF IsStream
<1>1. /\ TypeOK /\ MacType /\ DescriptorsType
      /\ EndpointsSound /\ ArrivalSound /\ OneHolder /\ HandlesSound
      /\ \A u \in Threads : CallSound(u)
  BY IInvParts DEF IInv, Core, ThreadsSound, CallSound
<1>2. /\ Fds' = Fds \cup {fdcounter} /\ fdcounter \notin Fds /\ fdcounter # NoObject
      /\ EndpointsType' /\ Steady
      /\ \A fd \in Fds : Kept(fd) /\ endpoints'[fd] = endpoints[fd]
      /\ endpoints'[fdcounter].id = id
      /\ endpoints'[fdcounter].status = status
      /\ endpoints'[fdcounter].pendingAccept = << >>
      /\ EndpointsSound' /\ HandlesSound'
      /\ thread \in [Threads -> CallRecords] /\ CallRecords \subseteq CallRecords'
      /\ \A s \in Fds : fdcounter \notin Range(endpoints[s].pendingAccept)
      /\ \A u \in Threads : thread[u].fd # fdcounter
      /\ arrival.stream # fdcounter /\ \A h \in handles : h.fd # fdcounter
  BY <1>0, Grown
<1>3. /\ thread' \in [Threads -> CallRecords']
      /\ thread'[t] = [pc |-> pc, fd |-> fdcounter]
      /\ \A u \in Threads \ {t} : thread'[u] = thread[u] /\ SameCall(u)
  <2>1. [pc |-> pc, fd |-> fdcounter] \in CallRecords' /\ Fds \subseteq Fds'
    BY <1>2 DEF CallRecords, Running
  <2>2. PICK r : r = [pc |-> pc, fd |-> fdcounter]
    OBVIOUS
  <2>3. thread' = [thread EXCEPT ![t] = r] /\ r \in CallRecords'
    BY <2>1, <2>2
  <2> QED
    BY <1>2, <2>1, <2>2, <2>3, OneThread
<1>4. /\ MacType' /\ DescriptorsType' /\ UNCHANGED <<arrival, macPc>>
  BY <1>1, <1>2 DEF MacType, DescriptorsType, macVars
<1>5. ASSUME NEW u \in Threads, thread[u].pc \in ListenPcs
      PROVE  /\ thread[u].fd \in Fds /\ ServerFd(thread[u].fd)
             /\ PortOf(thread[u].fd) \in DOMAIN servers
  BY <1>1, <1>5 DEF CallSound, ListenSound, ServerFd
<1>6. ASSUME NEW u \in Threads \ {t} PROVE CallSound(u)'
  <2>1. Apart(u, t)
    <3>1. thread[u].fd # fdcounter
      BY <1>2 DEF CallRecords
    <3>2. ASSUME thread[u].pc \in ListenPcs, pc \in ListenPcs
          PROVE  endpoints'[fdcounter].id.dstPort # PortOf(thread[u].fd)
      BY <1>2, <1>5, <3>2 DEF ListenPcs
    <3> QED
      BY <1>3, <3>1, <3>2 DEF Apart
  <2>2. \A v \in Threads \ {u} : Apart(u, v)
    BY <1>3, <2>1 DEF Apart
  <2>3. thread[u].pc \in ListenPcs => PortKept(PortOf(thread[u].fd))
    <3>1. PICK p : p = PortOf(thread[u].fd)
      OBVIOUS
    <3>2. ASSUME thread[u].pc \in ListenPcs PROVE PortOf(thread[u].fd)' = p
      BY <1>2, <1>3, <1>5, <3>1, <3>2 DEF PortOf
    <3>3. PortKept(p)
      BY DEF PortKept
    <3> QED
      BY <3>1, <3>2, <3>3 DEF PortKept
  <2>4. \A h \in handles' \ handles : HandleApart(u, h)
    OBVIOUS
  <2>5. \A fd \in Fds : fd = thread[u].fd /\ thread[u].pc \notin AcceptPcs => Kept(fd)
    BY <1>2
  <2> QED
    BY <1>1, <1>2, <1>3, <1>5, <2>2, <2>3, <2>4, <2>5, CallFrame
<1>7. CallSound(t)'
  <2>1. CASE IsStream(id)
    <3>1. pc = "connectSend" /\ status = "CONNECTING"
      BY <2>1 DEF IsStream
    <3>2. ConnectSound(t)'
      BY <1>2, <1>3, <2>1, <3>1 DEF ConnectSound, StreamFd, IsMapped, Object, ConnectStatus
    <3> QED
      BY <1>2, <1>3, <3>1, <3>2
         DEF CallSound, ListenSound, AcceptSound, CloseSound, ListenPcs, AcceptPcs, HandOverPcs
  <2>2. CASE IsServer(id)
    <3>1. pc = "listenSend" /\ status = "LISTEN_WAIT"
      BY <2>2 DEF IsStream
    <3>2. \A h \in handles' : h.call = "listen" => PortOf(h.fd)' # id.dstPort
      <4> SUFFICES ASSUME NEW h \in handles, h.call = "listen"
                   PROVE  PortOf(h.fd)' # id.dstPort
        OBVIOUS
      <4>1. h.fd \in Fds /\ IsServed(h.fd)
        BY <1>1 DEF HandlesSound, EndpointsSound, ServerFd
      <4>2. PortOf(h.fd) # id.dstPort
        BY <2>2, <4>1 DEF IsServed
      <4> QED
        BY <1>2, <4>1, <4>2 DEF PortOf
    <3>3. \A u \in Threads \ {t} :
            /\ thread'[u].fd # fdcounter
            /\ thread'[u].pc \in ListenPcs => endpoints'[thread'[u].fd].id.dstPort # id.dstPort
      <4> SUFFICES ASSUME NEW u \in Threads \ {t}
                   PROVE  /\ thread'[u].fd # fdcounter
                          /\ thread'[u].pc \in ListenPcs =>
                                endpoints'[thread'[u].fd].id.dstPort # id.dstPort
        OBVIOUS
      <4>1. thread'[u] = thread[u] /\ thread[u].fd # fdcounter
        BY <1>2, <1>3 DEF CallRecords
      <4>2. thread[u].pc \in ListenPcs => endpoints'[thread[u].fd].id.dstPort # id.dstPort
        BY <1>2, <1>5, <2>2 DEF PortOf
      <4> QED
        BY <4>1, <4>2
    <3>4. ListenSound(t)'
      <4>1. /\ thread'[t].fd = fdcounter /\ thread'[t].pc = "listenSend"
            /\ endpoints'[fdcounter].id = id /\ fdcounter \in Fds'
        BY <1>2, <1>3, <3>1
      <4>2. id.dstPort \in DOMAIN servers' /\ servers'[id.dstPort] = fdcounter
        BY <2>2
      <4>3. \A h \in handles' : h.call = "listen" => endpoints'[h.fd].id.dstPort # id.dstPort
        BY <3>2 DEF PortOf
      <4> QED
        BY <2>2, <3>3, <4>1, <4>2, <4>3 DEF ListenSound, ServerFd, PortOf, Object
    <3> QED
      BY <1>2, <1>3, <3>1, <3>4
         DEF CallSound, ConnectSound, AcceptSound, CloseSound, ConnectPcs, AcceptPcs, HandOverPcs
  <2> QED
    BY <2>1, <2>2 DEF IsStream
<1>8. ThreadsSound'
  BY <1>6, <1>7 DEF ThreadsSound, CallSound
<1>9. ArrivalSound'
  BY <1>1, <1>2, <1>4, ArrivalFrame
<1>10. OneHolder'
  <2>0. thread[t].fd = NoObject /\ Range(<< >>) = {}
    BY <1>1 DEF CallSound, Range
  <2>1. PICK n : n = fdcounter
    OBVIOUS
  <2>2. \A f, s \in Fds' : f \in Range(endpoints'[s].pendingAccept) =>
           s \in Fds /\ f \in Range(endpoints[s].pendingAccept)
    BY <1>2, <2>0
  <2>3. \A u \in Threads \ {t} : thread'[u].fd # n /\ thread'[u].fd = thread[u].fd
    BY <1>2, <1>3, <2>1 DEF CallRecords
  <2>4. ASSUME NEW f \in Fds PROVE Holders(f)' \subseteq Holders(f)
    <3>1. \A u \in Threads : thread'[u].fd = f => thread[u].fd = f
      BY <1>2, <1>3
    <3>2. \A s \in Fds' : f \in Range(endpoints'[s].pendingAccept) =>
             s \in Fds /\ f \in Range(endpoints[s].pendingAccept)
      BY <1>2, <2>2
    <3>3. arrival' = arrival /\ handles' = handles
      BY <1>4
    <3> QED
      BY <3>1, <3>2, <3>3 DEF Holders
  <2>5. Holders(n)' \subseteq {<<"thread", t>>}
    <3>1. \A s \in Fds' : n \notin Range(endpoints'[s].pendingAccept)
      BY <1>2, <2>1, <2>2
    <3>2. arrival'.stream # n /\ \A h \in handles' : h.fd # n
      BY <1>2, <1>4, <2>1
    <3> QED
      BY <2>3, <3>1, <3>2 DEF Holders
  <2>6. \A f \in Fds : StreamFd(f)' <=> StreamFd(f)
    BY <1>2 DEF StreamFd
  <2>7. ASSUME NEW f \in Fds', StreamFd(f)' PROVE \A x, y \in Holders(f)' : x = y
    <3>1. CASE f \in Fds
      BY <1>1, <2>4, <2>6, <2>7, <3>1 DEF OneHolder
    <3>2. CASE f = n
      BY <2>5, <3>2
    <3> QED
      BY <1>2, <2>1, <3>1, <3>2
  <2>8. ASSUME NEW f \in Fds'
        PROVE  \A i, j \in DOMAIN endpoints'[f].pendingAccept :
                  endpoints'[f].pendingAccept[i] = endpoints'[f].pendingAccept[j] => i = j
    <3>1. CASE f \in Fds
      <4>1. endpoints'[f] = endpoints[f]
        BY <1>2, <3>1
      <4> QED
        BY <1>1, <3>1, <4>1 DEF OneHolder
    <3>2. CASE f \notin Fds
      <4>1. f = n
        BY <1>2, <2>1, <3>2
      <4>2. endpoints'[n].pendingAccept = << >>
        BY <1>2, <2>1
      <4>3. \A i \in DOMAIN << >> : FALSE
        OBVIOUS
      <4> QED
        BY <4>1, <4>2, <4>3
    <3> QED
      BY <3>1, <3>2
  <2> QED
    BY <2>7, <2>8 DEF OneHolder
<1> QED
  BY <1>2, <1>3, <1>4, <1>8, <1>9, <1>10 DEF Core, CallParts

LEMMA ConnectCore ==
    ASSUME IInv, NEW t \in Threads, NEW target \in Targets, Connect(t, target)
    PROVE  Core'
<1>1. TypeOK /\ Tables /\ thread[t].pc = "idle"
  BY IInvParts DEF IInv, Core, Connect, At
<1>2. PICK port \in Ports \ clientPorts :
        /\ ClientId(target, port) \notin DOMAIN streams
        /\ clientPorts' = clientPorts \cup {port}
        /\ AddStream(ClientId(target, port), "CONNECTING")
  BY DEF Connect
<1>3. PICK id : id = ClientId(target, port)
  OBVIOUS
<1>4. /\ id \in StreamIdsHere /\ id \in StreamId /\ IsStream(id)
      /\ id.src = Me /\ id.srcPort = port
  BY <1>2, <1>3, IdsHere DEF StreamIdsHere, ClientId
<1>5. /\ thread' = [thread EXCEPT ![t] = [pc |-> "connectSend", fd |-> fdcounter]]
      /\ UNCHANGED <<servers, handles, macVars, announced>>
      /\ "CONNECTING" \in StreamStatus
  BY DEF Connect, StreamStatus
<1>6. /\ Tables'
      /\ DOMAIN streams' = DOMAIN streams \cup {id}
      /\ streams'[id] = fdcounter
      /\ \A x \in DOMAIN streams : streams'[x] = streams[x]
  <2>1. AddStream(id, "CONNECTING") /\ id \notin DOMAIN streams
    BY <1>2, <1>3
  <2>2. id.src = Me /\ clientPorts' = clientPorts \cup {id.srcPort}
    BY <1>2, <1>4
  <2> QED
    BY <1>1, <1>4, <1>5, <2>1, <2>2, AddStreamTables
<1>7. endpoints' = Append(endpoints, Endpoint(id, "CONNECTING"))
  BY <1>2, <1>3 DEF AddStream
<1>8. ~IsServer(id)
  BY <1>4 DEF IsStream
<1>9. /\ \A x \in DOMAIN streams : x \in DOMAIN streams' /\ streams'[x] = streams[x]
      /\ \A p \in DOMAIN servers : p \in DOMAIN servers' /\ servers'[p] = servers[p]
      /\ id \in DOMAIN streams'
  BY <1>5, <1>6
<1> QED
  BY <1>1, <1>4, <1>5, <1>6, <1>7, <1>8, <1>9, BeginCore

LEMMA ListenCore ==
    ASSUME IInv, NEW t \in Threads, NEW port \in ListenPorts, Listen(t, port)
    PROVE  Core'
<1>1. TypeOK /\ Tables /\ thread[t].pc = "idle" /\ port \notin DOMAIN servers
  BY IInvParts DEF IInv, Core, Listen, At
<1>2. PICK id : id = ServerId(port)
  OBVIOUS
<1>3. id \in StreamId /\ IsServer(id) /\ id.dstPort = port /\ ~IsStream(id)
  BY <1>2, IdsHere DEF IsStream
<1>4. /\ thread' = [thread EXCEPT ![t] = [pc |-> "listenSend", fd |-> fdcounter]]
      /\ AddServer(ServerId(port), "LISTEN_WAIT")
      /\ UNCHANGED <<streams, clientPorts, handles, macVars, announced>>
      /\ "LISTEN_WAIT" \in StreamStatus
  BY DEF Listen, StreamStatus
<1>5. /\ Tables'
      /\ DOMAIN servers' = DOMAIN servers \cup {port}
      /\ servers'[port] = fdcounter
      /\ \A p \in DOMAIN servers : p # port => servers'[p] = servers[p]
  BY <1>1, <1>4, AddServerTables
<1>6. endpoints' = Append(endpoints, Endpoint(id, "LISTEN_WAIT"))
  BY <1>2, <1>4 DEF AddServer
<1>7. /\ \A x \in DOMAIN streams : x \in DOMAIN streams' /\ streams'[x] = streams[x]
      /\ \A p \in DOMAIN servers : p \in DOMAIN servers' /\ servers'[p] = servers[p]
      /\ id.dstPort \notin DOMAIN servers
      /\ id.dstPort \in DOMAIN servers' /\ servers'[id.dstPort] = fdcounter
  BY <1>1, <1>3, <1>4, <1>5
<1> QED
  BY <1>1, <1>3, <1>4, <1>5, <1>6, <1>7, BeginCore

\* A schedule brings a new stream for a server that listens.
LEMMA IncomingStreamCore ==
    ASSUME IInv, NEW id \in StreamIdsHere, IncomingStream(id)
    PROVE  Core'
<1>1. /\ TypeOK /\ MapsSound /\ Tables /\ MacType /\ DescriptorsType
      /\ ArrivalSound /\ OneHolder
      /\ \A u \in Threads : CallSound(u)
  BY IInvParts DEF IInv, Core, ThreadsSound, CallSound
<1>2. /\ id \notin DOMAIN streams /\ id.dstPort \in DOMAIN servers
      /\ AddStream(id, "ACCEPT_WAIT")
      /\ arrival' = [server |-> servers[id.dstPort], stream |-> fdcounter]
      /\ macPc = "schedule" /\ macPc' = "pending"
      /\ todo' = todo \ {id}
      /\ UNCHANGED <<servers, clientPorts, thread, handles, removedStreams, announced>>
      /\ "ACCEPT_WAIT" \in StreamStatus
  BY DEF IncomingStream, Visiting, ServerListens, StreamStatus
<1>3. id \in StreamId /\ IsStream(id) /\ ~IsServer(id)
  BY IdsHere DEF IsStream
<1>4. /\ Tables'
      /\ DOMAIN streams' = DOMAIN streams \cup {id}
      /\ \A x \in DOMAIN streams : streams'[x] = streams[x]
  BY <1>1, <1>2, AddStreamTables
<1>5. PICK n, s : n = fdcounter /\ s = servers[id.dstPort]
  OBVIOUS
<1>6. /\ Fds' = Fds \cup {n} /\ n \notin Fds /\ n # NoObject
      /\ EndpointsType' /\ Steady
      /\ \A fd \in Fds : Kept(fd) /\ endpoints'[fd] = endpoints[fd]
      /\ endpoints'[n].id = id
      /\ endpoints'[n].status = "ACCEPT_WAIT"
      /\ endpoints'[n].pendingAccept = << >>
      /\ EndpointsSound' /\ HandlesSound'
      /\ thread \in [Threads -> CallRecords] /\ CallRecords \subseteq CallRecords'
      /\ \A r \in Fds : n \notin Range(endpoints[r].pendingAccept)
      /\ \A t \in Threads : thread[t].fd # n
      /\ arrival.stream # n /\ \A h \in handles : h.fd # n
  <2>1. endpoints' = Append(endpoints, Endpoint(id, "ACCEPT_WAIT"))
    BY <1>2 DEF AddStream
  <2>2. /\ \A x \in DOMAIN streams : x \in DOMAIN streams' /\ streams'[x] = streams[x]
        /\ \A p \in DOMAIN servers : p \in DOMAIN servers' /\ servers'[p] = servers[p]
    BY <1>2, <1>4
  <2> QED
    BY <1>2, <1>3, <1>5, <2>1, <2>2, Grown
<1>7. s \in Fds /\ ServerFd(s)
  BY <1>1, <1>2, <1>5, MappedKind
<1>8. arrival = NoArrival /\ arrival' = [server |-> s, stream |-> n]
  BY <1>1, <1>2, <1>5 DEF ArrivalSound
<1>9. MacType' /\ DescriptorsType' /\ thread' \in [Threads -> CallRecords']
  BY <1>1, <1>2, <1>6, <1>7, <1>8 DEF MacType, DescriptorsType
<1>10. ThreadsSound'
  <2>1. ASSUME NEW u \in Threads PROVE CallSound(u)'
    <3>1. \A v \in Threads : SameCall(v)
      BY <1>2, SameThreads
    <3>2. \A v \in Threads : thread[v].pc \in ListenPcs => thread[v].fd \in Fds
      BY <1>1 DEF CallSound, ListenSound, ServerFd
    <3>3. thread[u].pc \in ListenPcs => PortKept(PortOf(thread[u].fd))
      <4>1. PICK p : p = PortOf(thread[u].fd)
        OBVIOUS
      <4>2. ASSUME thread[u].pc \in ListenPcs PROVE PortOf(thread[u].fd)' = p
        BY <1>2, <1>6, <3>2, <4>1, <4>2 DEF PortOf
      <4>3. PortKept(p)
        BY <1>2 DEF PortKept
      <4> QED
        BY <4>1, <4>2, <4>3 DEF PortKept
    <3>4. /\ \A h \in handles' \ handles : HandleApart(u, h)
          /\ \A v \in Threads \ {u} : Apart(u, v)
      BY <1>2, <3>1 DEF Apart
    <3>5. \A fd \in Fds : fd = thread[u].fd /\ thread[u].pc \notin AcceptPcs => Kept(fd)
      BY <1>6
    <3> QED
      BY <1>1, <1>6, <3>1, <3>2, <3>3, <3>4, <3>5, CallFrame
  <2> QED
    BY <2>1 DEF ThreadsSound, CallSound
<1>11. ArrivalSound'
  BY <1>2, <1>3, <1>6, <1>7, <1>8 DEF ArrivalSound, StreamFd, ServerFd
<1>12. OneHolder'
  <2>0. Range(<< >>) = {} /\ NoObject \notin Fds
    BY DEF Range, NoObject, Fds
  <2>1. \A f, r \in Fds' : f \in Range(endpoints'[r].pendingAccept) =>
           r \in Fds /\ f \in Range(endpoints[r].pendingAccept)
    BY <1>6, <2>0
  <2>2. handles' = handles /\ thread' = thread /\ arrival'.stream = n
    BY <1>2, <1>8
  <2>3. ASSUME NEW f \in Fds PROVE Holders(f)' \subseteq Holders(f)
    <3>1. \A r \in Fds' : f \in Range(endpoints'[r].pendingAccept) =>
             r \in Fds /\ f \in Range(endpoints[r].pendingAccept)
      BY <1>6, <2>1
    <3>2. f # n
      BY <1>6
    <3> QED
      BY <2>2, <3>1, <3>2 DEF Holders
  <2>4. Holders(n)' \subseteq {<<"mac", NoObject>>}
    <3>1. \A r \in Fds' : n \notin Range(endpoints'[r].pendingAccept)
      BY <1>6, <2>1
    <3>2. (\A t \in Threads : thread'[t].fd # n) /\ \A h \in handles' : h.fd # n
      BY <1>6, <2>2
    <3> QED
      BY <3>1, <3>2 DEF Holders
  <2>5. \A f \in Fds : StreamFd(f)' <=> StreamFd(f)
    BY <1>6 DEF StreamFd
  <2>6. ASSUME NEW f \in Fds', StreamFd(f)' PROVE \A x, y \in Holders(f)' : x = y
    <3>1. CASE f \in Fds
      BY <1>1, <2>3, <2>5, <2>6, <3>1 DEF OneHolder
    <3>2. CASE f = n
      BY <2>4, <3>2
    <3> QED
      BY <1>6, <3>1, <3>2
  <2>7. ASSUME NEW f \in Fds'
        PROVE  \A i, j \in DOMAIN endpoints'[f].pendingAccept :
                  endpoints'[f].pendingAccept[i] = endpoints'[f].pendingAccept[j] => i = j
    <3>1. CASE f \in Fds
      <4>1. endpoints'[f] = endpoints[f]
        BY <1>6, <3>1
      <4> QED
        BY <1>1, <3>1, <4>1 DEF OneHolder
    <3>2. CASE f = n
      <4>1. endpoints'[n].pendingAccept = << >>
        BY <1>6
      <4>2. \A i \in DOMAIN << >> : FALSE
        OBVIOUS
      <4> QED
        BY <3>2, <4>1, <4>2
    <3> QED
      BY <1>6, <3>1, <3>2
  <2> QED
    BY <2>6, <2>7 DEF OneHolder
<1> QED
  BY <1>4, <1>6, <1>9, <1>10, <1>11, <1>12 DEF Core, CallParts

\* What it means that a descriptor is in the application's hands.
LEMMA HandleFacts ==
    ASSUME IInv, NEW h \in handles
    PROVE  /\ h.fd \in Fds
           /\ h = Handle(h.fd, h.call)
           /\ h.call = "listen" => ServerFd(h.fd) /\ endpoints[h.fd].status = "LISTEN"
           /\ h.call # "listen" =>
                 StreamFd(h.fd) /\ endpoints[h.fd].status \in OpenedStatus
           /\ StreamFd(h.fd) /\ h.fd \in fdt => IsMapped(h.fd)
           /\ \A g \in handles : g.fd = h.fd => g = h
           /\ \A u \in Threads : thread[u].pc \in ListenPcs => thread[u].fd # h.fd
           /\ \A u \in Threads : thread[u].pc = "closeEndpoint" => thread[u].fd # h.fd
<1>1. /\ TypeOK /\ DescriptorsType /\ TablesAgree /\ HandlesSound /\ OneHolder
      /\ \A u \in Threads : CallSound(u)
  BY IInvParts DEF IInv, Core, MapsSound, ThreadsSound, CallSound
<1>2. \A g \in handles : g.fd \in Fds /\ g = Handle(g.fd, g.call)
  BY <1>1 DEF DescriptorsType, Handle
<1>3. /\ h.call = "listen" => ServerFd(h.fd) /\ endpoints[h.fd].status = "LISTEN"
      /\ h.call # "listen" => StreamFd(h.fd) /\ endpoints[h.fd].status \in OpenedStatus
  BY <1>1 DEF HandlesSound
<1>4. ASSUME NEW g \in handles, g.fd = h.fd PROVE g = h
  <2>1. CASE StreamFd(h.fd)
    <3>1. g.call = h.call
      BY <1>1, <1>4, <2>1, HeldOnce
    <3> QED
      BY <1>2, <1>4, <3>1
  <2>2. CASE ~StreamFd(h.fd)
    <3>1. g.call = "listen" /\ h.call = "listen"
      BY <1>1, <1>4, <2>2 DEF HandlesSound
    <3> QED
      BY <1>2, <1>4, <3>1
  <2> QED
    BY <2>1, <2>2
<1>5. ASSUME StreamFd(h.fd), h.fd \in fdt PROVE IsMapped(h.fd)
  <2>1. PICK id \in DOMAIN streams : h.fd = streams[id]
    BY <1>1, <1>5 DEF TablesAgree, StreamFd, Range
  <2> QED
    BY <1>1, <2>1 DEF TablesAgree, IsMapped
<1>6. ASSUME NEW u \in Threads, thread[u].pc \in ListenPcs PROVE thread[u].fd # h.fd
  <2>1. /\ ServerFd(thread[u].fd)
        /\ h.call = "listen" => PortOf(h.fd) # PortOf(thread[u].fd)
    BY <1>1, <1>6 DEF CallSound, ListenSound
  <2> QED
    BY <1>3, <2>1 DEF ServerFd, StreamFd, IsStream
<1>7. \A u \in Threads : thread[u].pc = "closeEndpoint" => thread[u].fd # h.fd
  BY <1>1 DEF CallSound, CloseSound
<1> QED
  BY <1>2, <1>3, <1>4, <1>5, <1>6, <1>7

\* accept and close take an object the application names.
LEMMA TakeCore ==
    ASSUME IInv, NEW t \in Threads, NEW h \in handles, NEW pc,
           thread[t].pc = "idle",
           thread' = [thread EXCEPT ![t] = [pc |-> pc, fd |-> h.fd]],
           \/ pc = "acceptCheck" /\ h.call = "listen" /\ handles' = handles
           \/ pc = "closeEndpoint" /\ h.fd \in fdt /\ handles' = handles \ {h},
           UNCHANGED <<endpoints, tableVars, macVars, announced>>
    PROVE  Core'
<1>1. /\ TypeOK /\ EndpointsType /\ Tables /\ MacType /\ DescriptorsType
      /\ thread \in [Threads -> CallRecords]
      /\ EndpointsSound /\ ArrivalSound /\ OneHolder /\ HandlesSound
      /\ \A u \in Threads : CallSound(u)
  BY IInvParts DEF IInv, Core, ThreadsSound, CallSound
<1>2. PICK fd : fd = h.fd
  OBVIOUS
<1>3. /\ fd \in Fds
      /\ h.call = "listen" => ServerFd(fd) /\ endpoints[fd].status = "LISTEN"
      /\ h.call # "listen" => StreamFd(fd) /\ endpoints[fd].status \in OpenedStatus
      /\ StreamFd(fd) /\ fd \in fdt => IsMapped(fd)
      /\ \A g \in handles : g.fd = fd => g = h
      /\ \A u \in Threads : thread[u].pc \in ListenPcs => thread[u].fd # fd
      /\ \A u \in Threads : thread[u].pc = "closeEndpoint" => thread[u].fd # fd
  BY <1>2, HandleFacts
<1>4. /\ Fds' = Fds /\ CallRecords' = CallRecords /\ SameIds /\ MacType'
      /\ EndpointsType' /\ Steady /\ handles' \subseteq handles
      /\ UNCHANGED <<arrival, macPc, streams, servers, endpoints>>
      /\ \A f : Kept(f)
  BY <1>1 DEF macVars, tableVars, MacType, EndpointsType, Fds, CallRecords, SameIds, Steady,
              Kept, StatusMoves, IsMapped
<1>5. DescriptorsType'
  BY <1>1, <1>4 DEF DescriptorsType
<1>6. /\ thread' \in [Threads -> CallRecords]
      /\ thread'[t] = [pc |-> pc, fd |-> fd]
      /\ \A u \in Threads \ {t} : thread'[u] = thread[u] /\ SameCall(u)
  <2>1. PICK r : r = [pc |-> pc, fd |-> fd]
    OBVIOUS
  <2>2. thread' = [thread EXCEPT ![t] = r] /\ r \in CallRecords
    BY <1>2, <1>3, <2>1 DEF CallRecords, Running
  <2> QED
    BY <1>1, <1>4, <2>1, <2>2, OneThread
<1>7. Tables'
  BY <1>1, <1>4, SameTables
<1>8. ASSUME NEW u \in Threads \ {t} PROVE CallSound(u)'
  <2>1. Apart(u, t)
    BY <1>3, <1>6 DEF Apart, ListenPcs
  <2>2. \A v \in Threads \ {u} : Apart(u, v)
    BY <1>6, <2>1 DEF Apart
  <2>3. \A v \in Threads : thread[v].pc \in ListenPcs => thread[v].fd \in Fds
    BY <1>1 DEF CallSound, ListenSound, ServerFd
  <2>4. thread[u].pc \in ListenPcs => PortKept(PortOf(thread[u].fd))
    <3>1. PICK p : p = PortOf(thread[u].fd)
      OBVIOUS
    <3>2. PortOf(thread[u].fd)' = p
      BY <1>4, <1>6, <3>1 DEF PortOf
    <3>3. PortKept(p)
      BY <1>4 DEF PortKept
    <3> QED
      BY <3>1, <3>2, <3>3 DEF PortKept
  <2>5. \A g \in handles' \ handles : HandleApart(u, g)
    BY <1>4
  <2> QED
    BY <1>1, <1>4, <1>6, <2>2, <2>3, <2>4, <2>5, CallFrame
<1>9. CallSound(t)'
  <2>1. \A f : (StreamFd(f)' <=> StreamFd(f)) /\ (ServerFd(f)' <=> ServerFd(f))
               /\ (IsMapped(f)' <=> IsMapped(f))
    BY <1>4 DEF StreamFd, ServerFd, IsMapped
  <2>2. CASE pc = "acceptCheck"
    <3>1. AcceptSound(t)'
      BY <1>3, <1>6, <2>1, <2>2 DEF AcceptSound, ServerFd, AcceptPcs, HandOverPcs
    <3> QED
      BY <1>3, <1>6, <2>2, <3>1
         DEF CallSound, ConnectSound, ListenSound, CloseSound, ConnectPcs, ListenPcs, NoObject, Fds
  <2>3. CASE pc = "closeEndpoint"
    <3>1. \A g \in handles' : g.fd # fd
      BY <1>3, <1>4, <2>3
    <3>2. \A u \in Threads \ {t} : thread'[u].pc = "closeEndpoint" => thread'[u].fd # fd
      BY <1>3, <1>6
    <3>3. \/ ServerFd(fd)' /\ endpoints'[fd].status = "LISTEN"
          \/ StreamFd(fd)' /\ IsMapped(fd)' /\ endpoints'[fd].status \in OpenedStatus
      BY <1>2, <1>3, <1>4, <2>1, <2>3
    <3>4. CloseSound(t)'
      BY <1>6, <2>3, <3>1, <3>2, <3>3 DEF CloseSound, Object, StreamFd, ServerFd, IsMapped
    <3> QED
      BY <1>3, <1>6, <2>3, <3>4
         DEF CallSound, ConnectSound, ListenSound, AcceptSound, ConnectPcs, ListenPcs, AcceptPcs,
             HandOverPcs, NoObject, Fds
  <2> QED
    BY <2>2, <2>3
<1>10. ThreadsSound'
  BY <1>8, <1>9 DEF ThreadsSound, CallSound
<1>11. EndpointsSound'
  BY <1>1, <1>4 DEF EndpointsSound, ServerFd, StreamFd, IsServed, PortOf
<1>12. HandlesSound'
  <2>1. \A g \in handles : Kept(g.fd)
    BY <1>4 DEF Kept, StatusMoves, IsMapped
  <2> QED
    BY <1>1, <1>4, <2>1, HandlesFrame
<1>13. ArrivalSound'
  BY <1>1, <1>4, ArrivalFrame
<1>14. OneHolder'
  <2>0. thread[t].fd = NoObject
    BY <1>1 DEF CallSound
  <2>1. ASSUME NEW f \in Fds, StreamFd(f) PROVE \A x, y \in Holders(f)' : x = y
    <3>0. \A x, y \in Holders(f) : x = y
      BY <1>1, <2>1 DEF OneHolder
    <3>1. CASE f # fd
      <4>1. \A u \in Threads : thread'[u].fd = f => thread[u].fd = f
        BY <1>6, <3>1
      <4>2. Holders(f)' \subseteq Holders(f)
        BY <1>4, <4>1 DEF Holders
      <4> QED
        BY <3>0, <4>2
    <3>2. CASE f = fd
      <4>1. \A g \in handles' : g.fd # f
        BY <1>3, <2>1, <3>2 DEF ServerFd, StreamFd, IsStream
      <4>2. \A u \in Threads : thread[u].fd # f /\ arrival.stream # f
        BY <1>1, <1>2, <2>1, <3>2, HeldOnce
      <4>3. \A s \in Fds : f \notin Range(endpoints[s].pendingAccept)
        BY <1>1, <1>2, <2>1, <3>2, HeldOnce
      <4>4. \A u \in Threads \ {t} : thread'[u].fd # f
        BY <1>6, <4>2
      <4>5. arrival'.stream # f
        BY <1>4, <4>2
      <4>6. Holders(f)' \subseteq {<<"thread", t>>}
        BY <1>4, <4>1, <4>3, <4>4, <4>5 DEF Holders
      <4> QED
        BY <4>6
    <3> QED
      BY <3>1, <3>2
  <2>2. \A f \in Fds : StreamFd(f)' <=> StreamFd(f)
    BY <1>4 DEF StreamFd
  <2> QED
    BY <1>1, <1>4, <2>1, <2>2 DEF OneHolder
<1> QED
  BY <1>4, <1>5, <1>6, <1>7, <1>10, <1>11, <1>12, <1>13, <1>14 DEF Core, CallParts

\* The descriptor of a stream that has left the tables.
LEMMA DropCore ==
    ASSUME IInv, handles' \subseteq handles,
           UNCHANGED <<endpoints, tableVars, thread, macVars, announced>>
    PROVE  Core'
<1>1. /\ TypeOK /\ MapsSound /\ CallParts /\ EndpointsType /\ Tables /\ MacType
      /\ DescriptorsType /\ thread \in [Threads -> CallRecords]
  BY IInvParts DEF IInv, Core
<1>2. /\ Fds' = Fds /\ CallRecords' = CallRecords /\ SameIds /\ MacType' /\ EndpointsType'
      /\ UNCHANGED <<arrival, macPc, streams, servers, endpoints, thread>>
  BY <1>1 DEF macVars, tableVars, MacType, EndpointsType, Fds, CallRecords, SameIds
<1>3. Tables'
  BY <1>1, <1>2, SameTables
<1>4. QuietStep
  <2>1. \A e : Moves(e, e)
    BY DEF Moves, StatusMoves
  <2>2. \A t \in Threads : SameCall(t)
    BY <1>2, SameThreads
  <2> QED
    BY <1>2, <2>1, <2>2 DEF QuietStep
<1>5. CallParts'
  BY <1>1, <1>4, QuietFrame
<1>6. DescriptorsType'
  BY <1>1, <1>2 DEF DescriptorsType
<1> QED
  BY <1>1, <1>2, <1>3, <1>5, <1>6 DEF Core

\* A call of the application starts.
LEMMA CallCore ==
    ASSUME IInv, NEW t \in Threads, Call(t)
    PROVE  Core'
<1>1. ASSUME NEW target \in Targets, Connect(t, target) PROVE Core'
  BY <1>1, ConnectCore
<1>2. ASSUME NEW port \in ListenPorts, Listen(t, port) PROVE Core'
  BY <1>2, ListenCore
<1>3. ASSUME NEW h \in handles, Accept(t, h.fd) PROVE Core'
  <2>1. /\ thread[t].pc = "idle"
        /\ Handle(h.fd, "listen") \in handles
        /\ thread' = [thread EXCEPT ![t] = [pc |-> "acceptCheck", fd |-> h.fd]]
        /\ UNCHANGED <<endpoints, tableVars, handles, macVars, announced>>
    BY <1>3 DEF Accept, At
  <2>2. PICK g \in handles : g = Handle(h.fd, "listen")
    BY <2>1
  <2>3. g.fd = h.fd /\ g.call = "listen"
    BY <2>2 DEF Handle
  <2> QED
    BY <2>1, <2>3, TakeCore
<1>4. ASSUME NEW h \in handles, Close(t, h) PROVE Core'
  <2>1. /\ thread[t].pc = "idle"
        /\ handles' = handles \ {h}
        /\ thread' = IF h.fd \in fdt
                     THEN [thread EXCEPT ![t] = [pc |-> "closeEndpoint", fd |-> h.fd]]
                     ELSE thread
        /\ UNCHANGED <<endpoints, tableVars, macVars, announced>>
    BY <1>4 DEF Close, At
  <2>2. CASE h.fd \in fdt
    BY <2>1, <2>2, TakeCore
  <2>3. CASE h.fd \notin fdt
    BY <2>1, <2>3, DropCore
  <2> QED
    BY <2>2, <2>3
<1> QED
  BY <1>1, <1>2, <1>3, <1>4 DEF Call

-----------------------------------------------------------------------------
(***************************************************************************)
(* The steps of a call, but for those on a server's pending streams.       *)
(***************************************************************************)
\* A handle on an object that is left as it is.
LEMMA GiveSameCore ==
    ASSUME IInv, NEW t \in Threads, NEW call,
           thread' = Done(thread, t),
           handles' = handles \cup {Handle(thread[t].fd, call)},
           \/ /\ call = "connect" /\ thread[t].pc \in ConnectPcs
              /\ Object(t).status = "ESTABLISHED"
           \/ /\ call = "listen" /\ thread[t].pc \in ListenPcs
              /\ Object(t).status = "LISTEN",
           UNCHANGED <<endpoints, tableVars, macVars, announced>>
    PROVE  Core'
<1>1. PICK fd : fd = thread[t].fd
  OBVIOUS
<1>2. EndpointsType' /\ Len(endpoints') = Len(endpoints)
  BY IInvParts DEF Core, EndpointsType
<1> QED
  BY <1>1, <1>2, GiveCore DEF Object

LEMMA ConnectOutcomeCore ==
    ASSUME IInv, NEW t \in Threads, ConnectOutcome(t), thread[t].pc \in ConnectPcs,
           UNCHANGED <<endpoints, tableVars, macVars, announced>>
    PROVE  Core'
<1>1. {"connectWait", "unconnect"} \subseteq (Waiting \cup Running) \cap ConnectPcs
  BY DEF Waiting, Running, ConnectPcs
<1>2. CASE thread' = Goto(thread, t, "connectWait") /\ UNCHANGED handles
  BY <1>1, <1>2, GoOnCore
<1>3. CASE thread' = Goto(thread, t, "unconnect") /\ UNCHANGED handles
  BY <1>1, <1>3, GoOnCore
<1>4. CASE /\ Object(t).status = "ESTABLISHED"
           /\ thread' = Done(thread, t)
           /\ handles' = handles \cup {Handle(thread[t].fd, "connect")}
  BY <1>4, GiveSameCore
<1> QED
  BY <1>2, <1>3, <1>4 DEF ConnectOutcome

LEMMA ListenOutcomeCore ==
    ASSUME IInv, NEW t \in Threads, ListenOutcome(t), thread[t].pc \in ListenPcs,
           UNCHANGED <<endpoints, tableVars, macVars, announced>>
    PROVE  Core'
<1>1. {"listenWait", "unlisten"} \subseteq (Waiting \cup Running) \cap ListenPcs
  BY DEF Waiting, Running, ListenPcs
<1>2. CASE thread' = Goto(thread, t, "listenWait") /\ UNCHANGED handles
  BY <1>1, <1>2, GoOnCore
<1>3. CASE /\ Object(t).status \notin {"LISTEN_WAIT", "LISTEN"}
           /\ thread' = Goto(thread, t, "unlisten") /\ UNCHANGED handles
  BY <1>1, <1>3, GoOnCore
<1>4. CASE /\ Object(t).status = "LISTEN"
           /\ thread' = Done(thread, t)
           /\ handles' = handles \cup {Handle(thread[t].fd, "listen")}
  BY <1>4, GiveSameCore
<1> QED
  BY <1>2, <1>3, <1>4 DEF ListenOutcome

LEMMA OpeningCore ==
    ASSUME IInv, NEW t \in Threads,
           \/ ConnectSend(t) \/ ConnectCheck(t) \/ Unconnect(t)
           \/ ListenSend(t) \/ ListenCheck(t) \/ Unlisten(t)
    PROVE  Core'
<1>1. CASE ConnectSend(t) \/ ConnectCheck(t)
  BY <1>1, ConnectOutcomeCore DEF ConnectSend, ConnectCheck, At, ConnectPcs
<1>2. CASE ListenSend(t) \/ ListenCheck(t)
  BY <1>2, ListenOutcomeCore DEF ListenSend, ListenCheck, At, ListenPcs
<1>3. CASE Unconnect(t) \/ Unlisten(t)
  BY <1>3, LeaveCore DEF Unconnect, Unlisten, At
<1> QED
  BY <1>1, <1>2, <1>3

\* accept finds its stream in the table, or not, and opens it.
LEMMA AcceptedCore ==
    ASSUME IInv, NEW t \in Threads, AcceptLookup(t) \/ AcceptFinish(t)
    PROVE  Core'
<1>1. /\ TypeOK /\ EndpointsType /\ thread \in [Threads -> CallRecords]
      /\ AcceptSound(t)
  BY IInvParts DEF IInv, Core, ThreadsSound
<1>2. CASE AcceptLookup(t)
  <2>1. {"acceptLookup", "acceptFinish"} \subseteq (Waiting \cup Running) \cap HandOverPcs
    BY DEF Waiting, Running, HandOverPcs
  <2>2. /\ thread[t].pc = "acceptLookup"
        /\ UNCHANGED <<endpoints, tableVars, handles, macVars, announced>>
        /\ thread' = Goto(thread, t, "acceptFinish") \/ thread' = Done(thread, t)
    BY <1>2 DEF AcceptLookup, At
  <2>3. CASE thread' = Goto(thread, t, "acceptFinish")
    BY <2>1, <2>2, <2>3, GoOnCore
  <2>4. CASE thread' = Done(thread, t)
    BY <2>2, <2>4, LeaveCore
  <2> QED
    BY <2>2, <2>3, <2>4
<1>3. CASE AcceptFinish(t)
  <2>1. PICK fd, n : fd = thread[t].fd /\ n = Len(endpoints)
    OBVIOUS
  <2>2. thread[t].pc = "acceptFinish"
    BY <1>3 DEF AcceptFinish, At
  <2>3. StreamFd(fd) /\ fd \in Fds /\ endpoints[fd].status = "ACCEPT_WAIT"
    BY <1>1, <2>1, <2>2 DEF AcceptSound, HandOverPcs, StreamFd, Object
  <2>4. PICK e : e = SetStatus(endpoints[fd], "ESTABLISHED")
    OBVIOUS
  <2>5. /\ endpoints' = [endpoints EXCEPT ![fd] = e]
        /\ thread' = Done(thread, t)
        /\ handles' = handles \cup {Handle(fd, "accept")}
        /\ UNCHANGED <<tableVars, macVars, announced>>
    BY <1>3, <2>1, <2>3, <2>4 DEF AcceptFinish, Object
  <2>6. /\ n \in Nat /\ Fds = 1..n /\ DOMAIN endpoints = 1..n
        /\ \A f \in Fds : endpoints[f] \in EndpointOf(n)
    BY <1>1, <2>1, EndpointIn
  <2>7. /\ e \in EndpointOf(n) /\ e.id = endpoints[fd].id /\ e.status = "ESTABLISHED"
        /\ e.pendingAccept = endpoints[fd].pendingAccept
    BY <2>3, <2>4, <2>6, SetStatusType DEF StreamStatus
  <2>8. endpoints' \in Seq(EndpointOf(n)) /\ Len(endpoints') = n
    <3>1. PICK S : S = EndpointOf(n)
      OBVIOUS
    <3>2. endpoints \in Seq(S) /\ e \in S /\ fd \in 1..n /\ Len(endpoints) = n
      BY <1>1, <2>1, <2>3, <2>6, <2>7, <3>1 DEF EndpointsType
    <3>3. endpoints' \in Seq(S) /\ Len(endpoints') = n
      BY <2>5, <3>2
    <3> QED
      BY <3>1, <3>3
  <2>9. EndpointsType'
    BY <2>8 DEF EndpointsType
  <2>10. \A f \in Fds : endpoints'[f] = IF f = fd THEN e ELSE endpoints[f]
    BY <2>3, <2>5, <2>6
  <2>11. \A f \in Fds :
           /\ endpoints'[f].id = endpoints[f].id
           /\ endpoints'[f].pendingAccept = endpoints[f].pendingAccept
           /\ endpoints'[f].status = IF f = fd THEN "ESTABLISHED" ELSE endpoints[f].status
    BY <2>7, <2>10
  <2>12. thread[t].pc \in HandOverPcs /\ Len(endpoints') = Len(endpoints)
    BY <2>1, <2>2, <2>8 DEF HandOverPcs
  <2> QED
    BY <2>1, <2>5, <2>9, <2>11, <2>12, GiveCore
<1> QED
  BY <1>2, <1>3

-----------------------------------------------------------------------------
(***************************************************************************)
(* The streams pending on a server.                                        *)
(***************************************************************************)
Once(s) == \A i, j \in DOMAIN s : s[i] = s[j] => i = j

\* The oldest stream is taken.
LEMMA TakeOldest ==
    ASSUME NEW S, NEW s \in Seq(S), s # << >>
    PROVE  /\ Head(s) \in Range(s) /\ Tail(s) \in Seq(S)
           /\ Range(Tail(s)) \subseteq Range(s)
           /\ Once(s) => Once(Tail(s)) /\ Head(s) \notin Range(Tail(s))
<1>1. /\ Len(s) \in Nat \ {0} /\ DOMAIN s = 1..Len(s) /\ Head(s) = s[1]
      /\ Tail(s) \in Seq(S) /\ Len(Tail(s)) = Len(s) - 1
      /\ DOMAIN Tail(s) = 1..(Len(s) - 1)
      /\ \A i \in 1..(Len(s) - 1) : Tail(s)[i] = s[i + 1]
  OBVIOUS
<1>2. \A i \in 1..(Len(s) - 1) : i + 1 \in 1..Len(s) /\ i + 1 # 1
  BY <1>1
<1>3. 1 \in DOMAIN s /\ Head(s) \in Range(s) /\ Range(Tail(s)) \subseteq Range(s)
  BY <1>1, <1>2 DEF Range
<1>4. ASSUME Once(s) PROVE Once(Tail(s)) /\ Head(s) \notin Range(Tail(s))
  <2>1. Once(Tail(s))
    BY <1>1, <1>2, <1>4 DEF Once
  <2>2. Head(s) \notin Range(Tail(s))
    BY <1>1, <1>2, <1>3, <1>4 DEF Once, Range
  <2> QED
    BY <2>1, <2>2
<1> QED
  BY <1>1, <1>3, <1>4

\* A stream comes behind the others.
LEMMA PutLast ==
    ASSUME NEW S, NEW s \in Seq(S), NEW x \in S
    PROVE  /\ Append(s, x) \in Seq(S)
           /\ Range(Append(s, x)) = Range(s) \cup {x}
           /\ Once(s) /\ x \notin Range(s) => Once(Append(s, x))
<1>1. /\ Append(s, x) \in Seq(S) /\ DOMAIN s = 1..Len(s) /\ Len(s) \in Nat
      /\ DOMAIN Append(s, x) = 1..(Len(s) + 1)
      /\ \A i \in 1..Len(s) : Append(s, x)[i] = s[i]
      /\ Append(s, x)[Len(s) + 1] = x
  OBVIOUS
<1>2. 1..(Len(s) + 1) = 1..Len(s) \cup {Len(s) + 1} /\ Len(s) + 1 \notin 1..Len(s)
  BY <1>1
<1>3. Range(Append(s, x)) = Range(s) \cup {x}
  BY <1>1, <1>2 DEF Range
<1>4. ASSUME Once(s), x \notin Range(s) PROVE Once(Append(s, x))
  BY <1>1, <1>2, <1>4 DEF Once, Range
<1> QED
  BY <1>1, <1>3, <1>4

\* A list of pending streams changes and nothing else of any endpoint.
OnlyPending(s, list) ==
    endpoints' = [endpoints EXCEPT ![s] = [endpoints[s] EXCEPT !.pendingAccept = list]]

LEMMA PendingFrame ==
    ASSUME IInv, NEW s, ServerFd(s), NEW list \in Seq(Fds), OnlyPending(s, list),
           UNCHANGED tableVars,
           \A f \in Range(list) :
              /\ StreamFd(f) /\ endpoints[f].status \in {"ACCEPT_WAIT", "CLOSE_WAIT"}
              /\ endpoints[s].status # "CLOSE_WAIT" => endpoints[f].status = "ACCEPT_WAIT"
    PROVE  /\ Fds' = Fds /\ EndpointsType' /\ Tables' /\ Steady /\ EndpointsSound'
           /\ CallRecords' = CallRecords
           /\ \A f \in Fds : /\ Kept(f)
                             /\ endpoints'[f].id = endpoints[f].id
                             /\ endpoints'[f].status = endpoints[f].status
                             /\ endpoints'[f].pendingAccept =
                                   IF f = s THEN list ELSE endpoints[f].pendingAccept
           /\ \A f : (StreamFd(f)' <=> StreamFd(f)) /\ (ServerFd(f)' <=> ServerFd(f))
           /\ streams' = streams /\ servers' = servers
<1>1. TypeOK /\ Tables /\ EndpointsSound /\ EndpointsType
  BY IInvParts DEF IInv, Core
<1>2. PICK n : n = Len(endpoints)
  OBVIOUS
<1>3. /\ n \in Nat /\ Fds = 1..n /\ DOMAIN endpoints = 1..n /\ s \in Fds
      /\ \A f \in Fds : endpoints[f] \in EndpointOf(n)
  BY <1>1, <1>2, EndpointIn DEF ServerFd
<1>4. PICK e : e = [endpoints[s] EXCEPT !.pendingAccept = list]
  OBVIOUS
<1>5. /\ e \in EndpointOf(n) /\ e.id = endpoints[s].id /\ e.status = endpoints[s].status
      /\ e.pendingAccept = list
  <2>1. endpoints[s] \in EndpointOf(n)
    BY <1>3
  <2> QED
    BY <1>3, <1>4, <2>1 DEF EndpointOf
<1>6. endpoints' \in Seq(EndpointOf(n)) /\ Len(endpoints') = n
      /\ \A f \in Fds : endpoints'[f] = IF f = s THEN e ELSE endpoints[f]
  <2>1. PICK S : S = EndpointOf(n)
    OBVIOUS
  <2>2. endpoints \in Seq(S) /\ e \in S /\ s \in 1..n /\ Len(endpoints) = n
    BY <1>1, <1>2, <1>3, <1>5, <2>1 DEF EndpointsType
  <2>3. endpoints' = [endpoints EXCEPT ![s] = e]
    BY <1>4 DEF OnlyPending
  <2>4. endpoints' \in Seq(S) /\ Len(endpoints') = n
    BY <2>2, <2>3
  <2>5. \A f \in Fds : endpoints'[f] = IF f = s THEN e ELSE endpoints[f]
    BY <1>3, <2>3
  <2> QED
    BY <2>1, <2>4, <2>5
<1>7. Fds' = Fds /\ EndpointsType' /\ CallRecords' = CallRecords
  BY <1>2, <1>6 DEF Fds, EndpointsType, CallRecords
<1>8. \A f \in Fds : /\ endpoints'[f].id = endpoints[f].id
                     /\ endpoints'[f].status = endpoints[f].status
                     /\ endpoints'[f].pendingAccept =
                           IF f = s THEN list ELSE endpoints[f].pendingAccept
  BY <1>5, <1>6
<1>9. streams' = streams /\ servers' = servers
  BY DEF tableVars
<1>10. SameIds /\ Steady /\ \A f \in Fds : Kept(f)
  BY <1>7, <1>8, <1>9 DEF SameIds, Steady, Kept, StatusMoves, IsMapped
<1>11. Tables'
  BY <1>1, <1>10, SameTables
<1>12. \A f : (StreamFd(f)' <=> StreamFd(f)) /\ (ServerFd(f)' <=> ServerFd(f))
  BY <1>7, <1>8 DEF StreamFd, ServerFd
<1>13. EndpointsSound'
  <2> SUFFICES ASSUME NEW r \in Fds
               PROVE  /\ ServerFd(r) =>
                            /\ endpoints'[r].status \in {"LISTEN_WAIT", "LISTEN_FAILED",
                                                         "LISTEN", "CLOSE_WAIT"}
                            /\ endpoints'[r].status = "LISTEN" => IsServed(r)'
                      /\ StreamFd(r) => endpoints'[r].pendingAccept = << >>
                      /\ \A f \in Range(endpoints'[r].pendingAccept) :
                            /\ StreamFd(f)
                            /\ endpoints'[f].status \in {"ACCEPT_WAIT", "CLOSE_WAIT"}
                            /\ endpoints'[r].status # "CLOSE_WAIT" =>
                                  endpoints'[f].status = "ACCEPT_WAIT"
    BY <1>7, <1>12 DEF EndpointsSound
  <2>1. IsServed(r)' <=> IsServed(r)
    BY <1>8, <1>9 DEF IsServed, PortOf
  <2>2. ~(StreamFd(r) /\ r = s)
    BY DEF StreamFd, ServerFd, IsStream
  <2>3. /\ ServerFd(r) =>
              /\ endpoints[r].status \in {"LISTEN_WAIT", "LISTEN_FAILED", "LISTEN",
                                          "CLOSE_WAIT"}
              /\ endpoints[r].status = "LISTEN" => IsServed(r)
        /\ StreamFd(r) => endpoints[r].pendingAccept = << >>
        /\ \A f \in Range(endpoints[r].pendingAccept) :
              /\ StreamFd(f)
              /\ endpoints[f].status \in {"ACCEPT_WAIT", "CLOSE_WAIT"}
              /\ endpoints[r].status # "CLOSE_WAIT" => endpoints[f].status = "ACCEPT_WAIT"
    BY <1>1 DEF EndpointsSound
  <2>4. ASSUME NEW f \in Range(endpoints'[r].pendingAccept)
        PROVE  /\ StreamFd(f)
               /\ endpoints'[f].status \in {"ACCEPT_WAIT", "CLOSE_WAIT"}
               /\ endpoints'[r].status # "CLOSE_WAIT" => endpoints'[f].status = "ACCEPT_WAIT"
    <3>1. /\ StreamFd(f) /\ endpoints[f].status \in {"ACCEPT_WAIT", "CLOSE_WAIT"}
          /\ endpoints[r].status # "CLOSE_WAIT" => endpoints[f].status = "ACCEPT_WAIT"
      BY <1>8, <2>3
    <3> QED
      BY <1>8, <3>1 DEF StreamFd
  <2> QED
    BY <1>8, <2>1, <2>2, <2>3, <2>4
<1> QED
  BY <1>7, <1>8, <1>9, <1>10, <1>11, <1>12, <1>13

\* accept takes the oldest stream of its server.
LEMMA PopCore ==
    ASSUME IInv, NEW t \in Threads, thread[t].pc = "acceptCheck",
           Object(t).status = "LISTEN", Object(t).pendingAccept # << >>,
           thread' = [thread EXCEPT ![t] =
                 [pc |-> "acceptLookup", fd |-> Head(Object(t).pendingAccept)]],
           endpoints' = [endpoints EXCEPT ![thread[t].fd].pendingAccept = Tail(@)],
           UNCHANGED <<tableVars, handles, macVars, announced>>
    PROVE  Core'
<1>1. /\ TypeOK /\ MacType /\ DescriptorsType /\ thread \in [Threads -> CallRecords]
      /\ EndpointsSound /\ ArrivalSound /\ OneHolder /\ HandlesSound
      /\ \A u \in Threads : CallSound(u)
  BY IInvParts DEF IInv, Core, ThreadsSound, CallSound
<1>2. PICK s, f, list : /\ s = thread[t].fd /\ f = Head(endpoints[s].pendingAccept)
                        /\ list = Tail(endpoints[s].pendingAccept)
  OBVIOUS
<1>3. ServerFd(s) /\ s \in Fds /\ endpoints[s].status = "LISTEN"
  BY <1>1, <1>2 DEF CallSound, AcceptSound, AcceptPcs, ServerFd, Object
<1>4. /\ f \in Range(endpoints[s].pendingAccept) /\ list \in Seq(Fds)
      /\ Range(list) \subseteq Range(endpoints[s].pendingAccept)
      /\ Once(list) /\ f \notin Range(list)
  <2>1. endpoints[s].pendingAccept \in Seq(Fds) /\ endpoints[s].pendingAccept # << >>
    BY <1>1, <1>2, <1>3, EndpointIn DEF Object
  <2>2. Once(endpoints[s].pendingAccept)
    BY <1>1, <1>3 DEF OneHolder, Once
  <2> QED
    BY <1>2, <2>1, <2>2, TakeOldest
<1>5. \A g \in Range(endpoints[s].pendingAccept) :
        StreamFd(g) /\ endpoints[g].status = "ACCEPT_WAIT"
  BY <1>1, <1>3 DEF EndpointsSound
<1>6. f \in Fds /\ StreamFd(f) /\ endpoints[f].status = "ACCEPT_WAIT" /\ f # s
  BY <1>3, <1>4, <1>5 DEF StreamFd, ServerFd, IsStream
<1>7. OnlyPending(s, list)
  BY <1>2 DEF OnlyPending
<1>8. /\ Fds' = Fds /\ EndpointsType' /\ Tables' /\ Steady /\ EndpointsSound'
      /\ CallRecords' = CallRecords
      /\ \A g \in Fds : /\ Kept(g)
                        /\ endpoints'[g].id = endpoints[g].id
                        /\ endpoints'[g].status = endpoints[g].status
                        /\ endpoints'[g].pendingAccept =
                              IF g = s THEN list ELSE endpoints[g].pendingAccept
      /\ \A g : (StreamFd(g)' <=> StreamFd(g)) /\ (ServerFd(g)' <=> ServerFd(g))
      /\ streams' = streams /\ servers' = servers
  <2>1. \A g \in Range(list) :
           /\ StreamFd(g) /\ endpoints[g].status \in {"ACCEPT_WAIT", "CLOSE_WAIT"}
           /\ endpoints[s].status # "CLOSE_WAIT" => endpoints[g].status = "ACCEPT_WAIT"
    BY <1>4, <1>5
  <2> QED
    BY <1>3, <1>4, <1>7, <2>1, PendingFrame
<1>9. UNCHANGED <<arrival, macPc, handles>> /\ MacType' /\ DescriptorsType'
  BY <1>1, <1>8 DEF macVars, MacType, DescriptorsType
<1>10. /\ thread' \in [Threads -> CallRecords]
       /\ thread'[t] = [pc |-> "acceptLookup", fd |-> f]
       /\ \A u \in Threads \ {t} : thread'[u] = thread[u] /\ SameCall(u)
  <2>1. PICK r : r = [pc |-> "acceptLookup", fd |-> f]
    OBVIOUS
  <2>2. thread' = [thread EXCEPT ![t] = r] /\ r \in CallRecords
    BY <1>2, <1>6, <2>1 DEF CallRecords, Running, Object
  <2> QED
    BY <1>1, <1>8, <2>1, <2>2, OneThread
<1>11. ASSUME NEW u \in Threads \ {t} PROVE CallSound(u)'
  <2>1. Apart(u, t)
    <3>1. thread[u].pc \in ListenPcs => thread[u].fd # f
      BY <1>1, <1>6 DEF CallSound, ListenSound, ServerFd, StreamFd, IsStream
    <3> QED
      BY <1>10, <3>1 DEF Apart, ListenPcs
  <2>2. \A v \in Threads \ {u} : Apart(u, v)
    BY <1>10, <2>1 DEF Apart
  <2>3. \A v \in Threads : thread[v].pc \in ListenPcs => thread[v].fd \in Fds
    BY <1>1 DEF CallSound, ListenSound, ServerFd
  <2>4. thread[u].pc \in ListenPcs => PortKept(PortOf(thread[u].fd))
    <3>1. PICK p : p = PortOf(thread[u].fd)
      OBVIOUS
    <3>2. ASSUME thread[u].pc \in ListenPcs PROVE PortOf(thread[u].fd)' = p
      BY <1>8, <1>10, <2>3, <3>1, <3>2 DEF PortOf
    <3>3. PortKept(p)
      BY <1>8 DEF PortKept
    <3> QED
      BY <3>1, <3>2, <3>3 DEF PortKept
  <2>5. \A g \in handles' \ handles : HandleApart(u, g)
    BY <1>9
  <2> QED
    BY <1>1, <1>8, <1>10, <2>2, <2>3, <2>4, <2>5, CallFrame
<1>12. CallSound(t)'
  <2>1. endpoints'[f].status = "ACCEPT_WAIT" /\ StreamFd(f)'
    BY <1>6, <1>8
  <2>2. AcceptSound(t)'
    BY <1>10, <2>1 DEF AcceptSound, StreamFd, Object, AcceptPcs
  <2> QED
    BY <1>6, <1>10, <2>2
       DEF CallSound, ConnectSound, ListenSound, CloseSound, ConnectPcs, ListenPcs, NoObject, Fds
<1>13. ThreadsSound'
  BY <1>11, <1>12 DEF ThreadsSound, CallSound
<1>14. HandlesSound'
  <2>1. ASSUME NEW h \in handles PROVE Kept(h.fd)
    <3>1. PICK g \in Fds : g = h.fd
      BY <1>1 DEF DescriptorsType
    <3> QED
      BY <1>8, <3>1 DEF Kept
  <2>2. handles' \ handles = {}
    BY <1>9
  <2> QED
    BY <1>1, <1>8, <2>1, <2>2, HandlesFrame
<1>15. ArrivalSound'
  BY <1>1, <1>8, <1>9, ArrivalFrame
<1>16. OneHolder'
  <2>1. ASSUME NEW g \in Fds, StreamFd(g) PROVE \A x, y \in Holders(g)' : x = y
    <3>0. \A x, y \in Holders(g) : x = y
      BY <1>1, <2>1 DEF OneHolder
    <3>1. \A r \in Fds' : g \in Range(endpoints'[r].pendingAccept) =>
             r \in Fds /\ g \in Range(endpoints[r].pendingAccept)
      BY <1>4, <1>8
    <3>2. CASE g # f
      <4>1. \A u \in Threads : thread'[u].fd = g => thread[u].fd = g
        BY <1>10, <3>2
      <4>2. Holders(g)' \subseteq Holders(g)
        BY <1>9, <3>1, <4>1 DEF Holders
      <4> QED
        BY <3>0, <4>2
    <3>3. CASE g = f
      <4>1. /\ \A u \in Threads : thread[u].fd # g
            /\ \A h \in handles : h.fd # g
            /\ arrival.stream # g
            /\ \A r \in Fds : g \in Range(endpoints[r].pendingAccept) => r = s
        BY <1>1, <1>3, <1>4, <2>1, <3>3, HeldOnce
      <4>2. \A r \in Fds' : g \notin Range(endpoints'[r].pendingAccept)
        BY <1>4, <1>8, <3>1, <3>3, <4>1
      <4>3. \A u \in Threads \ {t} : thread'[u].fd # g
        BY <1>10, <4>1
      <4>4. (\A h \in handles' : h.fd # g) /\ arrival'.stream # g
        BY <1>9, <4>1
      <4>5. Holders(g)' \subseteq {<<"thread", t>>}
        BY <4>2, <4>3, <4>4 DEF Holders
      <4> QED
        BY <4>5
    <3> QED
      BY <3>2, <3>3
  <2>2. \A g \in Fds : Once(endpoints'[g].pendingAccept)
    <3>1. \A g \in Fds : Once(endpoints[g].pendingAccept)
      BY <1>1 DEF OneHolder, Once
    <3>2. \A g \in Fds : \/ endpoints'[g].pendingAccept = list
                         \/ endpoints'[g].pendingAccept = endpoints[g].pendingAccept
      BY <1>8
    <3> QED
      BY <1>4, <3>1, <3>2
  <2> QED
    BY <1>8, <2>1, <2>2 DEF OneHolder, Once
<1> QED
  BY <1>8, <1>9, <1>10, <1>13, <1>14, <1>15, <1>16 DEF Core, CallParts

LEMMA AcceptCheckCore ==
    ASSUME IInv, NEW t \in Threads, AcceptCheck(t)
    PROVE  Core'
<1>1. /\ thread[t].pc = "acceptCheck" /\ thread[t].pc \in AcceptPcs
      /\ UNCHANGED <<tableVars, handles, macVars, announced>>
  BY DEF AcceptCheck, At, AcceptPcs
<1>2. CASE thread' = Done(thread, t) /\ UNCHANGED endpoints
  BY <1>1, <1>2, LeaveCore
<1>3. CASE thread' = Goto(thread, t, "acceptWait") /\ UNCHANGED endpoints
  <2>1. "acceptWait" \in (Waiting \cup Running) \cap AcceptPcs
    BY DEF Waiting, AcceptPcs
  <2> QED
    BY <1>1, <1>3, <2>1, GoOnCore
<1>4. CASE /\ Object(t).status = "LISTEN" /\ Object(t).pendingAccept # << >>
           /\ thread' = [thread EXCEPT ![t] =
                 [pc |-> "acceptLookup", fd |-> Head(Object(t).pendingAccept)]]
           /\ endpoints' = [endpoints EXCEPT ![thread[t].fd].pendingAccept = Tail(@)]
  BY <1>1, <1>4, PopCore
<1> QED
  BY <1>2, <1>3, <1>4 DEF AcceptCheck

\* applySchedule hands a new stream to its server.
LEMMA AddPendingStreamCore ==
    ASSUME IInv, AddPendingStream
    PROVE  Core'
<1>1. /\ TypeOK /\ MacType /\ DescriptorsType /\ thread \in [Threads -> CallRecords]
      /\ EndpointsSound /\ ArrivalSound /\ OneHolder /\ HandlesSound
      /\ \A u \in Threads : CallSound(u)
  BY IInvParts DEF IInv, Core, ThreadsSound, CallSound
<1>2. PICK s, f, list : /\ s = arrival.server /\ f = arrival.stream
                        /\ list = Append(endpoints[s].pendingAccept, f)
  OBVIOUS
<1>3. /\ ServerFd(s) /\ s \in Fds
      /\ StreamFd(f) /\ f \in Fds /\ endpoints[f].status = "ACCEPT_WAIT"
  BY <1>1, <1>2 DEF AddPendingStream, ArrivalSound, ServerFd, StreamFd
<1>4. /\ \A u \in Threads : thread[u].fd # f
      /\ \A h \in handles : h.fd # f
      /\ \A r \in Fds : f \notin Range(endpoints[r].pendingAccept)
  BY <1>1, <1>2, <1>3, HeldOnce
<1>5. /\ list \in Seq(Fds)
      /\ Range(list) = Range(endpoints[s].pendingAccept) \cup {f}
      /\ Once(list)
  <2>1. endpoints[s].pendingAccept \in Seq(Fds)
    BY <1>1, <1>3, EndpointIn
  <2>2. Once(endpoints[s].pendingAccept)
    BY <1>1, <1>3 DEF OneHolder, Once
  <2> QED
    BY <1>2, <1>3, <1>4, <2>1, <2>2, PutLast
<1>6. OnlyPending(s, list)
  BY <1>2 DEF OnlyPending, AddPendingStream
<1>7. UNCHANGED tableVars /\ UNCHANGED <<handles, todo, removedStreams, announced>>
      /\ thread' \in Notified(thread, s) /\ macPc' = "schedule" /\ arrival' = NoArrival
  BY <1>2 DEF AddPendingStream
<1>8. /\ Fds' = Fds /\ EndpointsType' /\ Tables' /\ Steady /\ EndpointsSound'
      /\ CallRecords' = CallRecords
      /\ \A g \in Fds : /\ Kept(g)
                        /\ endpoints'[g].id = endpoints[g].id
                        /\ endpoints'[g].status = endpoints[g].status
                        /\ endpoints'[g].pendingAccept =
                              IF g = s THEN list ELSE endpoints[g].pendingAccept
      /\ \A g : (StreamFd(g)' <=> StreamFd(g)) /\ (ServerFd(g)' <=> ServerFd(g))
      /\ streams' = streams /\ servers' = servers
  <2>1. \A g \in Range(endpoints[s].pendingAccept) :
           /\ StreamFd(g) /\ endpoints[g].status \in {"ACCEPT_WAIT", "CLOSE_WAIT"}
           /\ endpoints[s].status # "CLOSE_WAIT" => endpoints[g].status = "ACCEPT_WAIT"
    BY <1>1, <1>3 DEF EndpointsSound
  <2>2. \A g \in Range(list) :
           /\ StreamFd(g) /\ endpoints[g].status \in {"ACCEPT_WAIT", "CLOSE_WAIT"}
           /\ endpoints[s].status # "CLOSE_WAIT" => endpoints[g].status = "ACCEPT_WAIT"
    BY <1>3, <1>5, <2>1
  <2> QED
    BY <1>3, <1>5, <1>6, <1>7, <2>2, PendingFrame
<1>9. MacType' /\ DescriptorsType'
  BY <1>1, <1>7, <1>8 DEF MacType, DescriptorsType, NoArrival
<1>10. (\A u \in Threads : SameCall(u)) /\ thread' \in [Threads -> CallRecords']
  BY <1>1, <1>7, <1>8, NotifiedSameCall DEF CallRecords
<1>11. ThreadsSound'
  <2>1. ASSUME NEW u \in Threads PROVE CallSound(u)'
    <3>1. \A v \in Threads \ {u} : Apart(u, v)
      BY <1>10 DEF Apart
    <3>2. \A v \in Threads : thread[v].pc \in ListenPcs => thread[v].fd \in Fds
      BY <1>1 DEF CallSound, ListenSound, ServerFd
    <3>3. thread[u].pc \in ListenPcs => PortKept(PortOf(thread[u].fd))
      <4>1. PICK p : p = PortOf(thread[u].fd)
        OBVIOUS
      <4>2. ASSUME thread[u].pc \in ListenPcs PROVE PortOf(thread[u].fd)' = p
        <5>1. thread'[u].fd = thread[u].fd
          BY <1>10 DEF SameCall
        <5> QED
          BY <1>8, <3>2, <4>1, <4>2, <5>1 DEF PortOf
      <4>3. PortKept(p)
        BY <1>8 DEF PortKept
      <4> QED
        BY <4>1, <4>2, <4>3 DEF PortKept
    <3>4. \A g \in handles' \ handles : HandleApart(u, g)
      BY <1>7
    <3> QED
      BY <1>1, <1>8, <1>10, <3>1, <3>2, <3>3, <3>4, CallFrame
  <2> QED
    BY <2>1 DEF ThreadsSound, CallSound
<1>12. HandlesSound'
  <2>1. ASSUME NEW h \in handles PROVE Kept(h.fd)
    <3>1. PICK g \in Fds : g = h.fd
      BY <1>1 DEF DescriptorsType
    <3> QED
      BY <1>8, <3>1 DEF Kept
  <2>2. handles' \ handles = {}
    BY <1>7
  <2> QED
    BY <1>1, <1>8, <2>1, <2>2, HandlesFrame
<1>13. ArrivalSound'
  BY <1>7 DEF ArrivalSound, NoArrival
<1>14. OneHolder'
  <2>1. ASSUME NEW g \in Fds, StreamFd(g) PROVE \A x, y \in Holders(g)' : x = y
    <3>1. \A u \in Threads : thread'[u].fd = thread[u].fd
      BY <1>10 DEF SameCall
    <3>2. arrival'.stream # g
      BY <1>7, <2>1 DEF NoArrival, NoObject, Fds
    <3>3. CASE g # f
      <4>1. \A r \in Fds' : g \in Range(endpoints'[r].pendingAccept) =>
               r \in Fds /\ g \in Range(endpoints[r].pendingAccept)
        BY <1>5, <1>8, <3>3
      <4>2. Holders(g)' \subseteq Holders(g)
        BY <1>7, <3>1, <3>2, <4>1 DEF Holders
      <4>3. \A x, y \in Holders(g) : x = y
        BY <1>1, <2>1 DEF OneHolder
      <4> QED
        BY <4>2, <4>3
    <3>4. CASE g = f
      <4>1. \A r \in Fds' : g \in Range(endpoints'[r].pendingAccept) => r = s
        BY <1>4, <1>8, <3>4
      <4>2. (\A u \in Threads : thread'[u].fd # g) /\ \A h \in handles' : h.fd # g
        BY <1>4, <1>7, <3>1, <3>4
      <4>3. Holders(g)' \subseteq {<<"server", s>>}
        BY <3>2, <4>1, <4>2 DEF Holders
      <4> QED
        BY <4>3
    <3> QED
      BY <3>3, <3>4
  <2>2. \A g \in Fds : Once(endpoints'[g].pendingAccept)
    <3>1. \A g \in Fds : Once(endpoints[g].pendingAccept)
      BY <1>1 DEF OneHolder, Once
    <3>2. \A g \in Fds : \/ endpoints'[g].pendingAccept = list
                         \/ endpoints'[g].pendingAccept = endpoints[g].pendingAccept
      BY <1>8
    <3> QED
      BY <1>5, <3>1, <3>2
  <2> QED
    BY <1>8, <2>1, <2>2 DEF OneHolder, Once
<1> QED
  BY <1>8, <1>9, <1>10, <1>11, <1>12, <1>13, <1>14 DEF Core, CallParts

-----------------------------------------------------------------------------
(***************************************************************************)
(* close.                                                                  *)
(***************************************************************************)
\* A signal, and then a step of the thread t that sent it.
LEMMA SignalThreads ==
    ASSUME thread \in [Threads -> CallRecords], NEW t \in Threads,
           thread[t].pc \notin Waiting, NEW fd, NEW T \in Notified(thread, fd),
           NEW r \in CallRecords, thread' = [T EXCEPT ![t] = r]
    PROVE  /\ T[t] = thread[t]
           /\ thread' \in [Threads -> CallRecords]
           /\ thread'[t] = r
           /\ \A u \in Threads \ {t} : SameCall(u)
<1>1. CASE T = thread
  BY <1>1 DEF SameCall
<1>2. CASE T # thread
  <2>1. PICK w \in Sleepers(thread, fd) : T = Goto(thread, w, Awake(thread[w].pc))
    BY <1>2 DEF Notified
  <2>2. w \in Threads /\ thread[w].pc \in Waiting /\ w # t
    BY <2>1 DEF Sleepers
  <2>3. PICK pc : pc = Awake(thread[w].pc)
    OBVIOUS
  <2>4. /\ pc \in {"idle"} \cup Waiting \cup Running
        /\ \/ thread[w].pc = "connectWait" /\ pc = "connectCheck"
           \/ thread[w].pc = "listenWait" /\ pc = "listenCheck"
           \/ thread[w].pc = "acceptWait" /\ pc = "acceptCheck"
    BY <2>2, <2>3 DEF Awake, Waiting, Running
  <2>5. PICK q : q = [pc |-> pc, fd |-> thread[w].fd]
    OBVIOUS
  <2>6. T = [thread EXCEPT ![w] = q] /\ q \in CallRecords
    BY <2>1, <2>2, <2>3, <2>4, <2>5, GotoRecord
  <2>7. /\ T[t] = thread[t] /\ thread'[t] = r /\ thread'[w] = q
        /\ thread' \in [Threads -> CallRecords]
        /\ \A u \in Threads \ {t, w} : thread'[u] = thread[u]
    BY <2>2, <2>6
  <2>8. SameCall(w)
    BY <2>4, <2>5, <2>7 DEF SameCall, ConnectPcs, ListenPcs, AcceptPcs
  <2>9. \A u \in Threads \ {t, w} : SameCall(u)
    BY <2>7 DEF SameCall
  <2> QED
    BY <2>7, <2>8, <2>9
<1> QED
  BY <1>1, <1>2

\* What close does to the endpoints: it closes its object, and with a server
\* the streams pending on it, which nobody else has.
LEMMA CloseFacts ==
    ASSUME IInv, NEW t \in Threads, CloseEndpoint(t), NEW fd, fd = thread[t].fd
    PROVE  /\ thread[t].pc = "closeEndpoint" /\ fd \in Fds
           /\ \/ ServerFd(fd) /\ endpoints[fd].status = "LISTEN"
              \/ StreamFd(fd) /\ IsMapped(fd) /\ endpoints[fd].status \in OpenedStatus
           /\ \A f \in Range(endpoints[fd].pendingAccept) :
                 /\ ServerFd(fd) /\ endpoints[fd].status = "LISTEN"
                 /\ StreamFd(f) /\ f \in Fds /\ f # fd /\ endpoints[f].status = "ACCEPT_WAIT"
           /\ Fds' = Fds /\ EndpointsType'
           /\ \A f \in Fds :
                 /\ endpoints'[f].id = endpoints[f].id
                 /\ endpoints'[f].pendingAccept = endpoints[f].pendingAccept
                 /\ endpoints'[f].status =
                       IF \/ f = fd /\ endpoints[f].status # "REMOTELY_CLOSED"
                          \/ f \in Range(endpoints[fd].pendingAccept)
                       THEN "CLOSE_WAIT" ELSE endpoints[f].status
<1>1. /\ TypeOK /\ EndpointsType /\ CloseSound(t) /\ EndpointsSound /\ OneHolder
  BY IInvParts DEF IInv, Core, ThreadsSound
<1>2. thread[t].pc = "closeEndpoint"
  BY DEF CloseEndpoint, At
<1>3. /\ \/ ServerFd(fd) /\ endpoints[fd].status = "LISTEN"
         \/ StreamFd(fd) /\ IsMapped(fd) /\ endpoints[fd].status \in OpenedStatus
      /\ fd \in Fds
  BY <1>1, <1>2 DEF CloseSound, Object, ServerFd, StreamFd
<1>4. PICK P : P = Range(endpoints[fd].pendingAccept)
  OBVIOUS
<1>5. \A f \in P :
        /\ ServerFd(fd) /\ endpoints[fd].status = "LISTEN"
        /\ StreamFd(f) /\ f \in Fds /\ f # fd /\ endpoints[f].status = "ACCEPT_WAIT"
  <2> SUFFICES ASSUME NEW f \in P
               PROVE  /\ ServerFd(fd) /\ endpoints[fd].status = "LISTEN"
                      /\ StreamFd(f) /\ f \in Fds /\ f # fd
                      /\ endpoints[f].status = "ACCEPT_WAIT"
    OBVIOUS
  <2>1. ~StreamFd(fd)
    <3>1. Range(<< >>) = {}
      BY DEF Range
    <3> QED
      BY <1>1, <1>3, <1>4, <3>1 DEF EndpointsSound
  <2>2. ServerFd(fd) /\ endpoints[fd].status = "LISTEN"
    BY <1>3, <2>1
  <2>3. StreamFd(f) /\ endpoints[f].status = "ACCEPT_WAIT"
    BY <1>1, <1>3, <1>4, <2>2 DEF EndpointsSound
  <2> QED
    BY <2>2, <2>3 DEF StreamFd, ServerFd, IsStream
<1>6. PICK n : n = Len(endpoints)
  OBVIOUS
<1>7. /\ n \in Nat /\ Fds = 1..n /\ DOMAIN endpoints = 1..n
      /\ \A f \in Fds : endpoints[f] \in EndpointOf(n)
  BY <1>1, <1>6, EndpointIn
<1>8. endpoints' = [f \in DOMAIN endpoints |->
         IF f = fd THEN Closed(endpoints[f])
         ELSE IF f \in P THEN ClosedServer(endpoints[f])
         ELSE endpoints[f]]
  BY <1>4 DEF CloseEndpoint
<1>9. ASSUME NEW f \in Fds
      PROVE  /\ endpoints'[f] \in EndpointOf(n)
             /\ endpoints'[f].id = endpoints[f].id
             /\ endpoints'[f].pendingAccept = endpoints[f].pendingAccept
             /\ endpoints'[f].status =
                   IF (f = fd /\ endpoints[f].status # "REMOTELY_CLOSED") \/ f \in P
                   THEN "CLOSE_WAIT" ELSE endpoints[f].status
  <2>0. PICK e : e = SetStatus(endpoints[f], "CLOSE_WAIT")
    OBVIOUS
  <2>1. /\ e \in EndpointOf(n)
        /\ e.id = endpoints[f].id
        /\ e.pendingAccept = endpoints[f].pendingAccept
        /\ e.status = "CLOSE_WAIT"
    BY <1>7, <2>0, SetStatusType DEF StreamStatus
  <2>2. endpoints'[f] = IF (f = fd /\ endpoints[f].status # "REMOTELY_CLOSED") \/ f \in P
                        THEN e ELSE endpoints[f]
    <3>1. CASE f = fd
      <4>1. Closed(endpoints[f]) =
              IF endpoints[f].status # "REMOTELY_CLOSED" THEN e ELSE endpoints[f]
        BY <1>3, <2>0, <3>1 DEF Closed, OpenedStatus
      <4> QED
        BY <1>5, <1>7, <1>8, <3>1, <4>1
    <3>2. CASE f # fd /\ f \in P
      <4>1. ClosedServer(endpoints[f]) = e
        BY <1>5, <2>0, <3>2 DEF ClosedServer
      <4> QED
        BY <1>7, <1>8, <3>2, <4>1
    <3>3. CASE f # fd /\ f \notin P
      BY <1>7, <1>8, <3>3
    <3> QED
      BY <3>1, <3>2, <3>3
  <2> QED
    BY <1>7, <2>1, <2>2
<1>10. endpoints' \in Seq(EndpointOf(n)) /\ Len(endpoints') = n
  <2>1. endpoints' = [f \in 1..n |-> endpoints'[f]]
    BY <1>7, <1>8
  <2>2. \A f \in 1..n : endpoints'[f] \in EndpointOf(n)
    BY <1>7, <1>9
  <2> QED
    BY <1>7, <2>1, <2>2
<1>11. Fds' = Fds /\ EndpointsType'
  BY <1>7, <1>10 DEF Fds, EndpointsType
<1> QED
  BY <1>2, <1>3, <1>4, <1>5, <1>9, <1>11

LEMMA CloseEndpointCore ==
    ASSUME IInv, NEW t \in Threads, CloseEndpoint(t)
    PROVE  Core'
<1>1. /\ TypeOK /\ Tables /\ MacType /\ DescriptorsType /\ thread \in [Threads -> CallRecords]
      /\ EndpointsSound /\ ArrivalSound /\ OneHolder /\ HandlesSound
      /\ \A u \in Threads : CallSound(u)
  BY IInvParts DEF IInv, Core, ThreadsSound, CallSound
<1>2. PICK fd, P : fd = thread[t].fd /\ P = Range(endpoints[fd].pendingAccept)
  OBVIOUS
<1>3. /\ thread[t].pc = "closeEndpoint" /\ fd \in Fds
      /\ \/ ServerFd(fd) /\ endpoints[fd].status = "LISTEN"
         \/ StreamFd(fd) /\ IsMapped(fd) /\ endpoints[fd].status \in OpenedStatus
      /\ \A f \in P :
            /\ ServerFd(fd) /\ endpoints[fd].status = "LISTEN"
            /\ StreamFd(f) /\ f \in Fds /\ f # fd /\ endpoints[f].status = "ACCEPT_WAIT"
      /\ Fds' = Fds /\ EndpointsType'
      /\ \A f \in Fds :
            /\ endpoints'[f].id = endpoints[f].id
            /\ endpoints'[f].pendingAccept = endpoints[f].pendingAccept
            /\ endpoints'[f].status =
                  IF (f = fd /\ endpoints[f].status # "REMOTELY_CLOSED") \/ f \in P
                  THEN "CLOSE_WAIT" ELSE endpoints[f].status
  BY <1>2, CloseFacts
<1>4. /\ UNCHANGED <<tableVars, handles, macVars, announced>>
      /\ UNCHANGED <<streams, servers, arrival, macPc>>
      /\ CallRecords' = CallRecords /\ MacType' /\ DescriptorsType'
  BY <1>1, <1>3 DEF CloseEndpoint, tableVars, macVars, CallRecords, MacType, DescriptorsType
<1>5. \A f \in P :
        /\ \A u \in Threads : thread[u].fd # f
        /\ \A h \in handles : h.fd # f
        /\ arrival.stream # f
        /\ \A r \in Fds : f \in Range(endpoints[r].pendingAccept) => r = fd
  BY <1>1, <1>2, <1>3, HeldOnce
<1>6. /\ \A h \in handles : h.fd # fd
      /\ \A u \in Threads \ {t} : thread[u].fd = fd => thread[u].pc \in AcceptPcs
  <2>1. \A h \in handles : h.fd # fd
    BY <1>1, <1>2, <1>3 DEF CallSound, CloseSound
  <2>2. ASSUME NEW u \in Threads \ {t}, thread[u].fd = fd, thread[u].pc \notin AcceptPcs
        PROVE  FALSE
    <3>1. ServerFd(fd)
      BY <1>1, <1>2, <1>3, <2>2, HeldOnce
    <3>2. ~StreamFd(fd)
      BY <3>1 DEF ServerFd, StreamFd, IsStream
    <3>3. CallSound(u) /\ thread[u].pc \in {"idle"} \cup Waiting \cup Running
      BY <1>1 DEF CallRecords
    <3>4. thread[u].pc # "idle"
      BY <1>3, <2>2, <3>3 DEF CallSound, NoObject, Fds
    <3>5. thread[u].pc \notin ConnectPcs /\ thread[u].pc \notin HandOverPcs
          /\ thread[u].pc # "closeRemove"
      BY <2>2, <3>2, <3>3 DEF CallSound, ConnectSound, AcceptSound, CloseSound
    <3>6. thread[u].pc \notin ListenPcs
      BY <1>2, <2>2, <3>3 DEF CallSound, ListenSound
    <3>7. thread[u].pc # "closeEndpoint"
      BY <1>1, <1>2, <1>3, <2>2 DEF CallSound, CloseSound
    <3> QED
      BY <2>2, <3>3, <3>4, <3>5, <3>6, <3>7
         DEF Waiting, Running, ConnectPcs, ListenPcs, AcceptPcs, HandOverPcs
  <2> QED
    BY <2>1, <2>2
<1>7. Steady /\ SameIds
  BY <1>3 DEF Steady, SameIds
<1>8. Tables'
  BY <1>1, <1>4, <1>7, SameTables
<1>9. ASSUME NEW f \in Fds, f # fd, f \notin P PROVE Kept(f)
  BY <1>3, <1>4, <1>9 DEF Kept, StatusMoves, IsMapped
<1>10. PICK r : /\ r = Idle \/ (/\ r = [pc |-> "closeRemove", fd |-> fd]
                                /\ endpoints[fd].status = "REMOTELY_CLOSED")
                /\ r \in CallRecords
                /\ thread' \in [Threads -> CallRecords]
                /\ thread'[t] = r
                /\ \A u \in Threads \ {t} : SameCall(u)
  <2>1. PICK T \in Notified(thread, fd) :
           thread' = IF Deletable(Object(t)) THEN Goto(T, t, "closeRemove") ELSE Done(T, t)
    BY <1>2 DEF CloseEndpoint
  <2>2. thread[t].pc \notin Waiting
    BY <1>3 DEF Waiting
  <2>3. CASE ~Deletable(Object(t))
    <3>1. thread' = [T EXCEPT ![t] = Idle] /\ Idle \in CallRecords
      BY <2>1, <2>3 DEF Done, Idle, CallRecords
    <3> QED
      BY <1>1, <2>2, <3>1, SignalThreads
  <2>4. CASE Deletable(Object(t))
    <3>0. PICK r : r = [pc |-> "closeRemove", fd |-> fd]
      OBVIOUS
    <3>1. T[t] = thread[t]
      <4>1. CASE T = thread
        BY <4>1
      <4>2. CASE T # thread
        <5>1. PICK w \in Sleepers(thread, fd) : T = Goto(thread, w, Awake(thread[w].pc))
          BY <4>2 DEF Notified
        <5> QED
          BY <1>1, <2>2, <5>1 DEF Sleepers, Goto
      <4> QED
        BY <4>1, <4>2
    <3>2. [T[t] EXCEPT !.pc = "closeRemove"] = r
      <4>1. thread[t] \in CallRecords
        BY <1>1
      <4> QED
        BY <1>2, <3>0, <3>1, <4>1 DEF CallRecords
    <3>3. thread' = [T EXCEPT ![t] = r] /\ r \in CallRecords
      <4>1. r \in CallRecords
        BY <1>3, <3>0 DEF CallRecords, Running
      <4>2. Goto(T, t, "closeRemove") = [T EXCEPT ![t] = [T[t] EXCEPT !.pc = "closeRemove"]]
        BY DEF Goto
      <4> QED
        BY <2>1, <2>4, <3>2, <4>1, <4>2
    <3>4. endpoints[fd].status = "REMOTELY_CLOSED"
      BY <1>2, <2>4 DEF Deletable, Object
    <3> QED
      BY <1>1, <2>2, <3>0, <3>3, <3>4, SignalThreads
  <2> QED
    BY <2>3, <2>4
<1>11. ASSUME NEW u \in Threads \ {t} PROVE CallSound(u)'
  <2>1. Apart(u, t)
    <3>1. thread[u].pc \in ListenPcs => thread[u].fd # fd
      BY <1>6 DEF ListenPcs, AcceptPcs
    <3> QED
      BY <1>10, <3>1 DEF Apart, ListenPcs
  <2>2. \A v \in Threads \ {u} : Apart(u, v)
    BY <1>10, <2>1 DEF Apart
  <2>3. \A v \in Threads : thread[v].pc \in ListenPcs => thread[v].fd \in Fds
    BY <1>1 DEF CallSound, ListenSound, ServerFd
  <2>4. thread[u].pc \in ListenPcs => PortKept(PortOf(thread[u].fd))
    <3>1. PICK p : p = PortOf(thread[u].fd)
      OBVIOUS
    <3>2. ASSUME thread[u].pc \in ListenPcs PROVE PortOf(thread[u].fd)' = p
      <4>1. thread'[u].fd = thread[u].fd
        BY <1>10 DEF SameCall
      <4> QED
        BY <1>3, <2>3, <3>1, <3>2, <4>1 DEF PortOf
    <3>3. PortKept(p)
      BY <1>4 DEF PortKept
    <3> QED
      BY <3>1, <3>2, <3>3 DEF PortKept
  <2>5. \A g \in handles' \ handles : HandleApart(u, g)
    BY <1>4
  <2>6. \A f \in Fds : f = thread[u].fd /\ thread[u].pc \notin AcceptPcs => Kept(f)
    BY <1>5, <1>6, <1>9
  <2>7. CallSound(u) /\ SameCall(u)
    BY <1>1, <1>10
  <2> QED
    BY <1>1, <1>7, <2>2, <2>3, <2>4, <2>5, <2>6, <2>7, CallFrame
<1>12. CallSound(t)'
  <2>1. CASE r = Idle
    BY <1>10, <2>1, IdleSound
  <2>2. CASE r = [pc |-> "closeRemove", fd |-> fd] /\ endpoints[fd].status = "REMOTELY_CLOSED"
    <3>1. StreamFd(fd) /\ IsMapped(fd)
      BY <1>3, <2>2
    <3>2. endpoints'[fd].status = "REMOTELY_CLOSED" /\ StreamFd(fd)' /\ IsMapped(fd)'
      BY <1>3, <1>4, <2>2, <3>1 DEF StreamFd, IsMapped
    <3>3. CloseSound(t)'
      BY <1>10, <2>2, <3>2 DEF CloseSound, Object, StreamFd, IsMapped
    <3> QED
      BY <1>3, <1>10, <2>2, <3>3
         DEF CallSound, ConnectSound, ListenSound, AcceptSound, ConnectPcs, ListenPcs, AcceptPcs,
             HandOverPcs, NoObject, Fds
  <2> QED
    BY <1>10, <2>1, <2>2
<1>13. ThreadsSound'
  BY <1>11, <1>12 DEF ThreadsSound, CallSound
<1>14. \A f : (StreamFd(f)' <=> StreamFd(f)) /\ (ServerFd(f)' <=> ServerFd(f))
  BY <1>3 DEF StreamFd, ServerFd
<1>15. EndpointsSound'
  <2> SUFFICES ASSUME NEW s \in Fds
               PROVE  /\ ServerFd(s) =>
                            /\ endpoints'[s].status \in {"LISTEN_WAIT", "LISTEN_FAILED",
                                                         "LISTEN", "CLOSE_WAIT"}
                            /\ endpoints'[s].status = "LISTEN" => IsServed(s)'
                      /\ StreamFd(s) => endpoints'[s].pendingAccept = << >>
                      /\ \A f \in Range(endpoints[s].pendingAccept) :
                            /\ StreamFd(f)
                            /\ endpoints'[f].status \in {"ACCEPT_WAIT", "CLOSE_WAIT"}
                            /\ endpoints'[s].status # "CLOSE_WAIT" =>
                                  endpoints'[f].status = "ACCEPT_WAIT"
    BY <1>3, <1>14 DEF EndpointsSound
  <2>1. IsServed(s)' <=> IsServed(s)
    BY <1>3, <1>4 DEF IsServed, PortOf
  <2>2. /\ ServerFd(s) =>
              /\ endpoints[s].status \in {"LISTEN_WAIT", "LISTEN_FAILED", "LISTEN",
                                          "CLOSE_WAIT"}
              /\ endpoints[s].status = "LISTEN" => IsServed(s)
        /\ StreamFd(s) => endpoints[s].pendingAccept = << >>
        /\ \A f \in Range(endpoints[s].pendingAccept) :
              /\ StreamFd(f)
              /\ endpoints[f].status \in {"ACCEPT_WAIT", "CLOSE_WAIT"}
              /\ endpoints[s].status # "CLOSE_WAIT" => endpoints[f].status = "ACCEPT_WAIT"
    BY <1>1 DEF EndpointsSound
  <2>3. ASSUME NEW f \in Range(endpoints[s].pendingAccept)
        PROVE  /\ StreamFd(f)
               /\ endpoints'[f].status \in {"ACCEPT_WAIT", "CLOSE_WAIT"}
               /\ endpoints'[s].status # "CLOSE_WAIT" => endpoints'[f].status = "ACCEPT_WAIT"
    <3>1. StreamFd(f) /\ f \in Fds
      BY <2>2 DEF StreamFd
    <3>2. f # fd
      BY <1>1, <1>2, <2>3, <3>1, HeldOnce
    <3>3. endpoints'[f].status \in {"ACCEPT_WAIT", "CLOSE_WAIT"}
      BY <1>3, <2>2, <2>3, <3>1, <3>2
    <3>4. ASSUME endpoints'[s].status # "CLOSE_WAIT" PROVE endpoints'[f].status = "ACCEPT_WAIT"
      <4>1. endpoints[s].status # "CLOSE_WAIT"
        BY <1>3, <3>4
      <4>2. f \notin P
        <5> SUFFICES ASSUME f \in P PROVE FALSE
          OBVIOUS
        <5>1. s = fd /\ endpoints[fd].status = "LISTEN"
          BY <1>3, <1>5, <2>3
        <5> QED
          BY <1>3, <3>4, <5>1
      <4> QED
        BY <1>3, <2>2, <2>3, <3>1, <3>2, <4>1, <4>2
    <3> QED
      BY <3>1, <3>3, <3>4
  <2> QED
    BY <1>3, <2>1, <2>2, <2>3
<1>16. HandlesSound'
  <2>1. ASSUME NEW h \in handles PROVE Kept(h.fd)
    <3>1. PICK f \in Fds : f = h.fd
      BY <1>1 DEF DescriptorsType
    <3>2. Kept(f)
      BY <1>5, <1>6, <1>9, <3>1
    <3> QED
      BY <3>1, <3>2 DEF Kept
  <2>2. handles' \ handles = {}
    BY <1>4
  <2> QED
    BY <1>1, <1>7, <2>1, <2>2, HandlesFrame
<1>17. ArrivalSound'
  <2>1. ASSUME NEW f \in Fds, f = arrival.stream PROVE Kept(f)
    <3>1. StreamFd(f)
      BY <1>1, <2>1 DEF ArrivalSound, NoArrival, NoObject, Fds
    <3>2. f # fd
      BY <1>1, <1>2, <2>1, <3>1, HeldOnce
    <3> QED
      BY <1>5, <1>9, <2>1, <3>2
  <2> QED
    BY <1>1, <1>4, <1>7, <2>1, ArrivalFrame
<1>18. OneHolder'
  <2>1. \A u \in Threads : thread'[u].fd \in {thread[u].fd, NoObject}
    BY <1>2, <1>10 DEF SameCall, Idle
  <2>2. handles' \subseteq handles /\ arrival' = arrival /\ Fds' \ Fds = {}
    BY <1>3, <1>4
  <2> QED
    BY <1>1, <1>3, <1>7, <2>1, <2>2, HolderFrame
<1> QED
  BY <1>3, <1>4, <1>8, <1>10, <1>13, <1>15, <1>16, <1>17, <1>18 DEF Core, CallParts

-----------------------------------------------------------------------------
(***************************************************************************)
(* Every step keeps the core.                                              *)
(***************************************************************************)
LEMMA ThreadStepCore ==
    ASSUME IInv, NEW t \in Threads, ThreadStep(t)
    PROVE  Core'
<1>1. CASE \/ ConnectSend(t) \/ ConnectCheck(t) \/ Unconnect(t)
           \/ ListenSend(t) \/ ListenCheck(t) \/ Unlisten(t)
  BY <1>1, OpeningCore
<1>2. CASE AcceptCheck(t)
  BY <1>2, AcceptCheckCore
<1>3. CASE AcceptLookup(t) \/ AcceptFinish(t)
  BY <1>3, AcceptedCore
<1>4. CASE CloseEndpoint(t)
  BY <1>4, CloseEndpointCore
<1>5. CASE CloseRemove(t)
  <2>1. CloseSound(t)
    BY IInvParts DEF IInv, Core, ThreadsSound
  <2>2. thread[t].pc = "closeRemove" /\ ~IsServer(Object(t).id)
    BY <1>5, <2>1 DEF CloseRemove, At, CloseSound, StreamFd, IsStream, Object
  <2>3. /\ thread' = Done(thread, t) /\ RemoveStreams({Object(t).id})
        /\ UNCHANGED <<endpoints, handles, macVars, announced>>
    BY <1>5, <2>2 DEF CloseRemove
  <2> QED
    BY <2>2, <2>3, LeaveCore
<1> QED
  BY <1>1, <1>2, <1>3, <1>4, <1>5 DEF ThreadStep

LEMMA ScheduleStepCore ==
    ASSUME IInv, ScheduleStep
    PROVE  Core'
<1>1. ASSUME NEW id \in StreamIdsHere, AddedStream(id) PROVE Core'
  BY <1>1, AddedStreamCore
<1>2. ASSUME NEW id \in StreamIdsHere, IncomingStream(id) PROVE Core'
  BY <1>2, IncomingStreamCore
<1>3. ASSUME NEW id \in StreamIdsHere, RefusedStream(id) PROVE Core'
  BY <1>3, RefusedStreamCore
<1>4. ASSUME NEW id \in StreamIdsHere, RemovedStream(id) PROVE Core'
  BY <1>4, RemovedStreamCore
<1>5. ASSUME NEW id \in StreamIdsHere, RemovedMissingStream(id) PROVE Core'
  BY <1>5, MacQuietCore
<1>6. CASE AddPendingStream
  BY <1>6, AddPendingStreamCore
<1>7. CASE EndSchedule
  BY <1>7, MacQuietCore
<1> QED
  BY <1>1, <1>2, <1>3, <1>4, <1>5, <1>6, <1>7 DEF ScheduleStep

LEMMA MacCallCore ==
    ASSUME IInv, MacCall
    PROVE  Core'
<1>1. ASSUME NEW schedule \in SUBSET StreamIdsHere, BeginSchedule(schedule) PROVE Core'
  BY <1>1, MacQuietCore
<1>2. ASSUME NEW port \in ListenPorts, ServerOpened(port) PROVE Core'
  BY <1>2, InfoElementsCore, ServerOpenedCore
<1>3. ASSUME NEW port \in ListenPorts, ServerClosed(port) PROVE Core'
  BY <1>3, InfoElementsCore
<1>4. ASSUME NEW id \in StreamIdsHere, StreamReject(id) PROVE Core'
  BY <1>4, InfoElementsCore
<1>5. CASE PeriodicUpdate
  BY <1>5, PeriodicUpdateCore
<1>6. CASE Desync
  BY <1>6, DesyncCore
<1>7. CASE DequeueSMEs
  BY <1>7, MacQuietCore
<1> QED
  BY <1>1, <1>2, <1>3, <1>4, <1>5, <1>6, <1>7 DEF MacCall

LEMMA NextCore ==
    ASSUME IInv, [Next]_vars
    PROVE  Core'
<1>1. ASSUME NEW t \in Threads, ThreadStep(t) PROVE Core'
  BY <1>1, ThreadStepCore
<1>2. ASSUME NEW t \in Threads, Call(t) PROVE Core'
  BY <1>2, CallCore
<1>3. CASE ScheduleStep
  BY <1>3, ScheduleStepCore
<1>4. CASE MacCall
  BY <1>4, MacCallCore
<1>5. CASE DesyncClear
  BY <1>5, MacQuietCore
<1>6. CASE UNCHANGED vars
  BY <1>6, MacQuietCore
<1> QED
  BY <1>1, <1>2, <1>3, <1>4, <1>5, <1>6 DEF Next
=============================================================================
