------------------------- MODULE ScheduleComputation -------------------------
(***************************************************************************)
(* The master's scheduling pipeline: the scheduler thread                  *)
(* (network_module/scheduler/schedule_computation.{h,cpp}), the            *)
(* StreamCollection it shares with the MAC thread, and the MAC thread's    *)
(* MasterScheduleDownlinkPhase                                             *)
(* (network_module/downlink_phase/master_schedule_distribution.cpp), which *)
(* sends and applies the schedule.                                         *)
(*                                                                         *)
(* Which streams the router and the slot allocator can place is left open: *)
(* any subset, and so is which have a single hop.  Of the network topology *)
(* only its modified flag is kept.                                         *)
(***************************************************************************)
EXTENDS StreamCollection

CONSTANT MaxScheduleId   \* bound: no new request once this id is computed

ASSUME BoundAssumption == MaxScheduleId \in Nat

VARIABLES
    \* NetworkTopology: its modified flag, and whether link changes came while
    \* a computation was in progress.
    topologyModified, changedWhileScheduling,
    \* The scheduler thread: where it is, and the locals of run and reschedule.
    pc, forceReschedule, forceResend, stream_snapshot, graph_changed, newSchedule,
    \* Written by the scheduler thread, shared under sched_mutex.
    schedule, scheduleNotApplied,
    \* The MAC thread's downlink phase: its state, its copy of the schedule and
    \* the schedule the master executes.
    status, sending, applied

topologyVars == <<topologyModified, changedWhileScheduling>>
schedulerVars == <<pc, forceReschedule, forceResend, stream_snapshot,
                   graph_changed, newSchedule>>
sharedVars == <<schedule, scheduleNotApplied>>
downlinkVars == <<status, sending, applied>>

vars == <<collVars, topologyVars, schedulerVars, sharedVars, downlinkVars>>

-----------------------------------------------------------------------------
\* A schedule: its id and, for each scheduled stream, the parameters its
\* elements carry (an element per hop and repetition in the code).
ScheduleElement == [id : Ids, params : StreamParameters]

Schedule == [id : Nat, elements : SUBSET ScheduleElement]

ScheduledIds(sched) == {el.id : el \in sched.elements}

\* toInt(Redundancy)
DOUBLE == 1
DOUBLE_SPATIAL == 2
TRIPLE == 3
TRIPLE_SPATIAL == 4

\* Router::run gives the elements of a single-hop stream, which has no second
\* path, the redundancy of as many copies on the one; the collection keeps its own.
Downgraded(params) ==
    [params EXCEPT !.redundancy = CASE @ = DOUBLE_SPATIAL -> DOUBLE
                                    [] @ = TRIPLE_SPATIAL -> TRIPLE
                                    [] OTHER -> @]

\* The elements of the streams of S, of which those in direct have a single hop.
ElementsOf(coll, S, direct) ==
    {[id |-> id, params |-> IF id \in direct THEN Downgraded(coll[id].params)
                            ELSE coll[id].params] : id \in S}

Snapshot ==
    [collection : [Ids -> MasterStreamInfo], modified : BOOLEAN,
     removed : BOOLEAN, added : BOOLEAN]

SchedulerStep ==
    {"waiting", "checkTopology", "getOperation", "getSnapshot", "updateGraph",
     "compute", "tellTopology", "applyChanges", "publish", "resend"}

ScheduleDownlinkStatus ==
    {"APPLIED_SCHEDULE", "SENDING_SCHEDULE", "AWAITING_ACTIVATION"}

EmptySchedule == [id |-> 0, elements |-> {}]

EmptySnapshot ==
    [collection |-> [id \in Ids |-> NoEntry], modified |-> FALSE,
     removed |-> FALSE, added |-> FALSE]

TypeOK ==
    /\ CollTypeOK
    /\ topologyModified \in BOOLEAN
    /\ changedWhileScheduling \in BOOLEAN
    /\ pc \in SchedulerStep
    /\ forceReschedule \in BOOLEAN
    /\ forceResend \in BOOLEAN
    /\ stream_snapshot \in Snapshot
    /\ graph_changed \in BOOLEAN
    /\ newSchedule \in Schedule
    /\ schedule \in Schedule
    /\ scheduleNotApplied \in BOOLEAN
    /\ status \in ScheduleDownlinkStatus
    /\ sending \in Schedule
    /\ applied \in Schedule

Init ==
    /\ CollInit
    /\ topologyModified = FALSE
    /\ changedWhileScheduling = FALSE
    /\ pc = "waiting"
    /\ forceReschedule = FALSE
    /\ forceResend = FALSE
    /\ stream_snapshot = EmptySnapshot
    /\ graph_changed = FALSE
    /\ newSchedule = EmptySchedule
    /\ schedule = EmptySchedule
    /\ scheduleNotApplied = FALSE
    /\ status = "APPLIED_SCHEDULE"
    /\ sending = EmptySchedule
    /\ applied = EmptySchedule

-----------------------------------------------------------------------------
(***************************************************************************)
(* The scheduler thread: ScheduleComputation::run and ::reschedule.        *)
(***************************************************************************)
\* Mutant: the thread does not wait for the last schedule to be applied.
WakeEarly ==
    /\ pc = "waiting"
    /\ pc' = "checkTopology"
    /\ UNCHANGED <<collVars, topologyVars, forceReschedule, forceResend,
                   stream_snapshot, graph_changed, newSchedule, sharedVars,
                   downlinkVars>>

\* beginScheduling wakes the thread; it goes on only when the last schedule
\* has been applied.
Wake ==
    /\ pc = "waiting"
    /\ ~scheduleNotApplied
    /\ pc' = "checkTopology"
    /\ UNCHANGED <<collVars, topologyVars, forceReschedule, forceResend,
                   stream_snapshot, graph_changed, newSchedule, sharedVars,
                   downlinkVars>>

CheckTopology ==
    /\ pc = "checkTopology"
    /\ forceReschedule' = topologyModified
    /\ pc' = "getOperation"
    /\ UNCHANGED <<collVars, topologyVars, forceResend, stream_snapshot,
                   graph_changed, newSchedule, sharedVars, downlinkVars>>

\* Either change makes a reschedule; the resend request is taken in both cases.
CheckOperation ==
    /\ pc = "getOperation"
    /\ GetOperation
    /\ forceReschedule' = (forceReschedule \/ modified_flag)
    /\ forceResend' = resend_flag
    /\ pc' = IF forceReschedule' THEN "getSnapshot" ELSE "resend"
    /\ UNCHANGED <<topologyVars, stream_snapshot, graph_changed, newSchedule,
                   sharedVars, downlinkVars>>

TakeSnapshot ==
    /\ pc = "getSnapshot"
    /\ stream_snapshot' = [collection |-> collection, modified |-> modified_flag,
                           removed |-> removed_flag, added |-> added_flag]
    /\ GetSnapshot
    /\ pc' = "updateGraph"
    /\ UNCHANGED <<topologyVars, forceReschedule, forceResend, graph_changed,
                   newSchedule, sharedVars, downlinkVars>>

\* NetworkTopology::updateSchedulerNetworkGraph returns and clears its flag.
UpdateGraph ==
    /\ pc = "updateGraph"
    /\ graph_changed' = topologyModified
    /\ topologyModified' = FALSE
    /\ pc' = "compute"
    /\ UNCHANGED <<collVars, changedWhileScheduling, forceReschedule,
                   forceResend, stream_snapshot, newSchedule, sharedVars,
                   downlinkVars>>

\* Mutant: removed streams do not start over.
StartOverOnGraph == graph_changed

\* Start from the established streams, or from the last schedule.
StartOver == graph_changed \/ stream_snapshot.removed

ScheduleChanged == StartOver \/ stream_snapshot.added

\* est and acc are the established and accepted streams that find a route and
\* slots; the others get none.
ComputedElements(est, acc, direct) ==
    LET coll == stream_snapshot.collection
        base == IF StartOver THEN ElementsOf(coll, est, direct) ELSE schedule.elements
    IN  base \cup (IF stream_snapshot.added THEN ElementsOf(coll, acc, direct) ELSE {})

ComputeSchedule ==
    /\ pc = "compute"
    /\ \E est \in SUBSET WithStatus(stream_snapshot.collection, "ESTABLISHED"),
          acc \in SUBSET WithStatus(stream_snapshot.collection, "ACCEPTED") :
          \E direct \in SUBSET (est \cup acc) :
             newSchedule' = [id |-> schedule.id + 1,
                             elements |-> ComputedElements(est, acc, direct)]
    /\ pc' = "tellTopology"
    /\ UNCHANGED <<collVars, topologyVars, forceReschedule, forceResend,
                   stream_snapshot, graph_changed, sharedVars, downlinkVars>>

\* NetworkTopology::scheduleChanged / scheduleNotChanged: the link changes that
\* came during the computation are checked now, against the links in use.
TellTopology ==
    /\ pc = "tellTopology"
    /\ \/ topologyModified' = topologyModified
       \/ changedWhileScheduling /\ topologyModified' = TRUE
    /\ changedWhileScheduling' = FALSE
    /\ pc' = IF ScheduleChanged THEN "applyChanges" ELSE "resend"
    /\ UNCHANGED <<collVars, forceReschedule, forceResend, stream_snapshot,
                   graph_changed, newSchedule, sharedVars, downlinkVars>>

ApplyStreamChanges ==
    /\ pc = "applyChanges"
    /\ ApplyChanges(stream_snapshot.collection, ScheduledIds(newSchedule))
    /\ pc' = "publish"
    /\ UNCHANGED <<topologyVars, forceReschedule, forceResend, stream_snapshot,
                   graph_changed, newSchedule, sharedVars, downlinkVars>>

\* The locals end here.  So does the snapshot: it is not read before the next.
EndRound ==
    /\ pc' = "waiting"
    /\ forceReschedule' = FALSE
    /\ forceResend' = FALSE
    /\ graph_changed' = FALSE
    /\ newSchedule' = EmptySchedule
    /\ stream_snapshot' = EmptySnapshot

Publish ==
    /\ pc = "publish"
    /\ schedule' = newSchedule
    /\ scheduleNotApplied' = TRUE
    /\ EndRound
    /\ UNCHANGED <<collVars, topologyVars, downlinkVars>>

\* Mutant: the request is forgotten.
ResendNothing ==
    /\ pc = "resend"
    /\ EndRound
    /\ UNCHANGED <<collVars, topologyVars, sharedVars, downlinkVars>>

\* The schedule did not change: send it again if some node asked for it.
Resend ==
    /\ pc = "resend"
    /\ scheduleNotApplied' = (scheduleNotApplied \/ forceResend)
    /\ EndRound
    /\ UNCHANGED <<collVars, topologyVars, schedule, downlinkVars>>

Scheduler ==
    \/ Wake \/ CheckTopology \/ CheckOperation \/ TakeSnapshot \/ UpdateGraph
    \/ ComputeSchedule \/ TellTopology \/ ApplyStreamChanges \/ Publish \/ Resend

-----------------------------------------------------------------------------
(***************************************************************************)
(* The MAC thread: MasterScheduleDownlinkPhase::execute, by its status.    *)
(***************************************************************************)
\* getScheduleAndComputeActivation copies the schedule; nothing is sent.
StartSending ==
    /\ status = "APPLIED_SCHEDULE"
    /\ scheduleNotApplied
    /\ sending' = schedule
    /\ status' = "SENDING_SCHEDULE"
    /\ UNCHANGED <<collVars, topologyVars, schedulerVars, sharedVars, applied>>

\* sendSchedulePkt: the space left by the schedule elements takes num info
\* elements.  How many packets are sent is not modelled.
SendSchedulePacket(num) ==
    /\ status = "SENDING_SCHEDULE"
    /\ DequeueInfo(num)
    /\ UNCHANGED <<topologyVars, schedulerVars, sharedVars, downlinkVars>>

\* sendInfoPkt, when no schedule is to be sent or all its packets were: the
\* wait for the activation tile begins or goes on.
SendInfoPacket(num) ==
    /\ status = "APPLIED_SCHEDULE" => ~scheduleNotApplied
    /\ infoQueue # EmptyQueue
    /\ DequeueInfo(num)
    /\ status' = IF status = "SENDING_SCHEDULE" THEN "AWAITING_ACTIVATION" ELSE status
    /\ UNCHANGED <<topologyVars, schedulerVars, sharedVars, sending, applied>>

\* All packets were sent, the activation tile has not come and there is no
\* info element to send.
AwaitActivation ==
    /\ status = "SENDING_SCHEDULE"
    /\ infoQueue = EmptyQueue
    /\ status' = "AWAITING_ACTIVATION"
    /\ UNCHANGED <<collVars, topologyVars, schedulerVars, sharedVars, sending,
                   applied>>

\* The activation tile: applySchedule and scheduleSentAndApplied.
ApplySchedule ==
    /\ status \in {"SENDING_SCHEDULE", "AWAITING_ACTIVATION"}
    /\ applied' = sending
    /\ scheduleNotApplied' = FALSE
    /\ status' = "APPLIED_SCHEDULE"
    /\ UNCHANGED <<collVars, topologyVars, schedulerVars, schedule, sending>>

\* The uplink phase delivers an SME.
Uplink(sme) ==
    /\ schedule.id < MaxScheduleId
    /\ ReceiveSME(sme)
    /\ UNCHANGED <<topologyVars, schedulerVars, sharedVars, downlinkVars>>

\* NetworkTopology::scheduleInProgress
ScheduleInProgress == pc \in {"compute", "tellTopology"}

\* The uplink phase delivers a topology that adds or removes a link; a change
\* that does not matter to the schedule in use has no effect here.
TopologyChange ==
    /\ schedule.id < MaxScheduleId
    /\ IF ScheduleInProgress
       THEN /\ changedWhileScheduling' = TRUE
            /\ UNCHANGED topologyModified
       ELSE /\ topologyModified' = TRUE
            /\ UNCHANGED changedWhileScheduling
    /\ UNCHANGED <<collVars, schedulerVars, sharedVars, downlinkVars>>

\* The space of a downlink packet, in info elements.
InfoPerPacket == 1..Cardinality(Ids)

Downlink ==
    \/ StartSending
    \/ \E num \in InfoPerPacket : SendSchedulePacket(num)
    \/ \E num \in InfoPerPacket : SendInfoPacket(num)
    \/ AwaitActivation
    \/ ApplySchedule

Next ==
    \/ Scheduler
    \/ Downlink
    \/ \E sme \in NodeSMEs : Uplink(sme)
    \/ TopologyChange

Spec == Init /\ [][Next]_vars

-----------------------------------------------------------------------------
(***************************************************************************)
(* Properties.                                                             *)
(***************************************************************************)
\* A snapshot was taken and its outcome is not yet applied to the collection.
InWindow == pc \in {"updateGraph", "compute", "tellTopology", "applyChanges"}

\* Some round, this one or the next, starts over without the removed streams.
RemovalPending == removed_flag \/ (InWindow /\ stream_snapshot.removed)

\* The schedule the collection's statuses refer to: "If a schedule is being
\* distributed, the status corresponds the next schedule."
CurrentSchedule == IF pc = "publish" THEN newSchedule ELSE schedule

\* What the elements of a stream with these parameters may say.
Carried(params) == {params, Downgraded(params)}

\* An established stream owns slots in the current schedule, with the
\* parameters the collection holds for it, as far as its redundancy was not
\* downgraded for a single hop.  The parameters may be stale only when a CLOSED
\* and a new CONNECT overtook the computation, and then the removed flag makes
\* the next round repair them.
EstablishedIsScheduled ==
    \A id \in Ids : collection[id].status = "ESTABLISHED" =>
        \E el \in CurrentSchedule.elements :
            /\ el.id = id
            /\ el.params \in Carried(collection[id].params) \/ RemovalPending

\* No slots leak: a stream that owns slots is established, or the removed flag
\* is up and a reschedule from scratch will give its slots back.
NoLeakedSlots ==
    \A el \in CurrentSchedule.elements :
        collection[el.id].status = "ESTABLISHED" \/ RemovalPending

\* An accepted request is never forgotten: the added flag is up, or the round
\* in progress has the stream in its snapshot and will decide it.
AcceptedIsRemembered ==
    \A id \in Ids : collection[id].status = "ACCEPTED" =>
        \/ added_flag
        \/ /\ InWindow
           /\ stream_snapshot.added
           /\ stream_snapshot.collection[id].status = "ACCEPTED"

\* A stream has one set of parameters in a schedule.
ElementsUnique(sched) ==
    \A e1, e2 \in sched.elements : e1.id = e2.id => e1 = e2

\* When accepted streams are added to the last schedule none of them has slots
\* in it already, so no stream is given slots twice.
NoDoubleAllocation ==
    /\ pc = "compute" /\ ~StartOver =>
          WithStatus(stream_snapshot.collection, "ACCEPTED")
              \cap ScheduledIds(schedule) = {}
    /\ ElementsUnique(schedule)

\* Every reschedule that starts ends in a schedule to be sent.  Taking the
\* snapshot drops a resend request that came after getOperation, and this is
\* why the request is served all the same.
RescheduleChanges ==
    /\ pc = "getSnapshot" => topologyModified \/ removed_flag \/ added_flag
    /\ pc = "updateGraph" =>
          topologyModified \/ stream_snapshot.removed \/ stream_snapshot.added
    /\ pc \in {"compute", "tellTopology"} => ScheduleChanged

\* The two threads agree on the schedule: while it is distributed the copy
\* being sent is the latest one, and when no distribution is due the master
\* executes the latest one.
DistributionConsistent ==
    /\ status # "APPLIED_SCHEDULE" => scheduleNotApplied /\ sending = schedule
    /\ ~scheduleNotApplied => applied = schedule

\* The announcement queued for a server agrees with the collection, however
\* LISTEN and CLOSED alternate while it waits for a downlink packet.
ServerAnnouncementsAgree ==
    \A i \in 1..Len(infoQueue) :
        /\ infoQueue[i].val = "SERVER_OPENED" => Present(infoQueue[i].key)
        /\ infoQueue[i].val = "SERVER_CLOSED" => ~Present(infoQueue[i].key)

\* The scheduler never overwrites a schedule whose distribution is not over.
ScheduleHeldWhileSent ==
    [][scheduleNotApplied /\ scheduleNotApplied' => schedule' = schedule]_vars

\* The steps in which a CLOSED of the stream comes, which changes no other entry.
ClosedByItsNode(id) ==
    /\ \E sme \in NodeSMEs : sme.id = id /\ sme.type = "CLOSED" /\ Uplink(sme)
    /\ \A other \in Ids \ {id} : collection'[other] = collection[other]

\* A stream the master drops learns it: the CLOSED of this very stream has come,
\* or its round ends, and it was pending and a STREAM_REJECT is queued, or it was
\* established and is not in the schedule that the round publishes.
DropIsAnnounced ==
    [][\A id \in Streams : Present(id) /\ collection'[id].status = "ABSENT" =>
          \/ ClosedByItsNode(id)
          \/ /\ pc = "applyChanges" /\ pc' = "publish"
             /\ collection[id].status = "ACCEPTED"
             /\ [key |-> id, val |-> "STREAM_REJECT"]
                    \in {infoQueue'[i] : i \in 1..Len(infoQueue')}
          \/ /\ pc = "applyChanges" /\ pc' = "publish"
             /\ collection[id].status = "ESTABLISHED"
             /\ id \notin ScheduledIds(newSchedule')]_vars

\* schedule_computation.h: "schedule with id=0 are not sent in
\* MasterScheduleDistribution".  The code sends it when a CLOSED for an unknown
\* stream or a RESEND_SCHEDULE comes before the first schedule is computed.
ScheduleZeroNotSent == status = "SENDING_SCHEDULE" => sending.id # 0

-----------------------------------------------------------------------------
(***************************************************************************)
(* The inductive invariant behind the safety properties.  The two threads  *)
(* work on copies: it says what a snapshot taken some steps ago still      *)
(* tells about the collection, and what the flags stand for.               *)
(***************************************************************************)
Owners == {"ACCEPTED", "ESTABLISHED"}

\* Servers listen, streams are accepted or established, and a server's
\* announcement is queued under the server's id.
KindsKept ==
    /\ \A id \in Ids :
          /\ IsServer(id) => collection[id].status \notin Owners
          /\ IsStream(id) => collection[id].status # "LISTEN"
    /\ \A i \in 1..Len(infoQueue) :
          infoQueue[i].val \in {"SERVER_OPENED", "SERVER_CLOSED"} =>
              IsServer(infoQueue[i].key)

\* The flags of the snapshot and of the collection.
FlagsAgree ==
    /\ modified_flag => removed_flag \/ added_flag
    /\ pc = "getOperation" /\ forceReschedule => topologyModified
    /\ RescheduleChanges

\* Since the snapshot no stream was established, and every stream that was
\* closed left the removed flag up.
SnapshotStillTells ==
    InWindow =>
        \A id \in Ids :
            /\ collection[id].status = "ESTABLISHED" =>
                  collection[id] = stream_snapshot.collection[id]
            /\ stream_snapshot.collection[id].status \in Owners =>
                  \/ collection[id] = stream_snapshot.collection[id]
                  \/ removed_flag
            /\ stream_snapshot.collection[id].status = "ACCEPTED" =>
                  stream_snapshot.added

\* el is an element for a stream that has this status in the snapshot.
TakenFrom(el, statuses) ==
    /\ stream_snapshot.collection[el.id].status \in statuses
    /\ el.params \in Carried(stream_snapshot.collection[el.id].params)

\* The last schedule is continued only if all its streams are still there,
\* and the new one serves the streams of the snapshot only.
SchedulesFitSnapshot ==
    /\ InWindow /\ ~stream_snapshot.removed =>
          \A el \in schedule.elements : TakenFrom(el, {"ESTABLISHED"})
    /\ pc \in {"tellTopology", "applyChanges"} =>
          \A el \in newSchedule.elements : TakenFrom(el, Owners)

\* No schedule is computed while one is being distributed.
OneAtATime == pc # "waiting" => ~scheduleNotApplied

IInv ==
    /\ TypeOK
    /\ KindsKept
    /\ FlagsAgree
    /\ SnapshotStillTells
    /\ SchedulesFitSnapshot
    /\ ElementsUnique(schedule)
    /\ ElementsUnique(newSchedule)
    /\ OneAtATime
    /\ EstablishedIsScheduled
    /\ NoLeakedSlots
    /\ AcceptedIsRemembered
    /\ DistributionConsistent
    /\ ServerAnnouncementsAgree

-----------------------------------------------------------------------------
(***************************************************************************)
(* Liveness.  The scheduler thread runs, and the MAC thread calls          *)
(* beginScheduling and the downlink phase in every downlink tile; the      *)
(* activation tile is computed when the sending starts and is reached.     *)
(***************************************************************************)
Fairness ==
    /\ WF_vars(Scheduler)
    /\ WF_vars(StartSending)
    /\ WF_vars(ApplySchedule)

FairSpec == Spec /\ Fairness

\* Every accepted request is decided.
RequestsDecided ==
    \A id \in Streams :
        collection[id].status = "ACCEPTED" ~> collection[id].status # "ACCEPTED"

\* Every request to send the schedule again is served.
ResendServed == resend_flag ~> status = "SENDING_SCHEDULE"

\* The slots of closed streams are given back in the schedule the master runs.
SlotsGivenBack ==
    \A id \in Streams :
        id \in ScheduledIds(applied) /\ ~Present(id) ~>
            id \notin ScheduledIds(applied) \/ Present(id)
=============================================================================
