-------------------- MODULE ScheduleComputation_proofs --------------------
(***************************************************************************)
(* Proofs about the master's scheduling pipeline: its invariants, and that *)
(* it implements StreamService, each of its steps being one step of the    *)
(* service or none.                                                        *)
(***************************************************************************)
EXTENDS ScheduleService, FiniteSetTheorems, TLAPS

-----------------------------------------------------------------------------
(***************************************************************************)
(* The queue of info elements.                                             *)
(***************************************************************************)
Element(K, V) == [key : K, val : V]

\* Enqueueing keeps the queue a queue of such elements.
LEMMA EnqueueType ==
    ASSUME NEW K, NEW V, NEW q \in Seq(Element(K, V)), NEW k \in K, NEW v \in V
    PROVE  Enqueue(q, k, v) \in Seq(Element(K, V))
<1>1. ReplaceVal(q, k, v) \in Seq(Element(K, V))
  <2>1. \A i \in 1..Len(q) : q[i] \in Element(K, V)
    OBVIOUS
  <2>2. [key |-> k, val |-> v] \in Element(K, V)
    BY DEF Element
  <2> QED
    BY <2>1, <2>2 DEF ReplaceVal
<1>2. Append(q, [key |-> k, val |-> v]) \in Seq(Element(K, V))
  BY DEF Element
<1> QED
  BY <1>1, <1>2 DEF Enqueue

\* So does dequeueing any number of elements.
LEMMA DequeueManyType ==
    ASSUME NEW S, NEW q \in Seq(S), NEW n \in Nat
    PROVE  DequeueMany(q, n) \in Seq(S)
  BY DEF DequeueMany, EmptyQueue

\* An element of the queue after an Enqueue is the new one, or it was in the
\* queue under another key.
LEMMA EnqueueElements ==
    ASSUME NEW K, NEW V, NEW q \in Seq(Element(K, V)), NEW k \in K, NEW v \in V,
           NEW i \in 1..Len(Enqueue(q, k, v))
    PROVE  \/ Enqueue(q, k, v)[i] = [key |-> k, val |-> v]
           \/ /\ i \in 1..Len(q)
              /\ Enqueue(q, k, v)[i] = q[i]
              /\ q[i].key # k
<1>1. CASE HasKey(q, k)
  BY <1>1 DEF Enqueue, ReplaceVal
<1>2. CASE ~HasKey(q, k)
  BY <1>2 DEF Enqueue, HasKey
<1> QED
  BY <1>1, <1>2

\* What is left after a dequeue was in the queue.
LEMMA DequeueElements ==
    ASSUME NEW S, NEW q \in Seq(S), NEW n \in Nat,
           NEW i \in 1..Len(DequeueMany(q, n))
    PROVE  \E j \in 1..Len(q) : DequeueMany(q, n)[i] = q[j]
<1>1. CASE n >= Len(q)
  BY <1>1 DEF DequeueMany, EmptyQueue
<1>2. CASE ~(n >= Len(q))
  <2>1. /\ i + n \in 1..Len(q)
        /\ DequeueMany(q, n)[i] = q[i + n]
    BY <1>2 DEF DequeueMany
  <2> QED
    BY <2>1
<1> QED
  BY <1>1, <1>2

\* Any subset of the ids can be counted, and an order of it is a sequence.
LEMMA OrderIsSequence ==
    ASSUME NEW S \in SUBSET Ids, NEW order \in Orders(S)
    PROVE  order \in Seq(S) /\ DOMAIN order = 1..Len(order)
<1>1. Cardinality(S) \in Nat
  BY IdsAssumption, FS_Subset, FS_CardinalityType
<1> QED
  BY <1>1 DEF Orders

\* The queue with rejections added, element by element.
LEMMA RejectionsAddedFacts ==
    ASSUME NEW q \in Seq(Element(Ids, InfoType)), NEW S,
           NEW order \in Seq(Ids), NEW r, r = RejectionsAdded(q, S, order)
    PROVE  /\ r \in Seq(Element(Ids, InfoType))
           /\ Len(r) = Len(q) + Len(order)
           /\ \A i \in 1..Len(q) :
                 r[i] = IF q[i].key \in S
                        THEN [key |-> q[i].key, val |-> "STREAM_REJECT"]
                        ELSE q[i]
           /\ \A i \in 1..Len(order) :
                 r[Len(q) + i] = [key |-> order[i], val |-> "STREAM_REJECT"]
<1> DEFINE old == [i \in 1..Len(q) |->
                     IF q[i].key \in S
                     THEN [key |-> q[i].key, val |-> "STREAM_REJECT"] ELSE q[i]]
           new == [i \in DOMAIN order |-> [key |-> order[i], val |-> "STREAM_REJECT"]]
<1>1. \A i \in 1..Len(q) : q[i] \in Element(Ids, InfoType)
  OBVIOUS
<1>2. \A i \in DOMAIN order : order[i] \in Ids
  OBVIOUS
<1>3. old \in Seq(Element(Ids, InfoType)) /\ Len(old) = Len(q)
  BY <1>1 DEF Element, InfoType
<1>4. new \in Seq(Element(Ids, InfoType)) /\ Len(new) = Len(order)
  <2>1. DOMAIN order = 1..Len(order) /\ Len(order) \in Nat
    OBVIOUS
  <2>2. \A i \in 1..Len(order) :
            [key |-> order[i], val |-> "STREAM_REJECT"] \in Element(Ids, InfoType)
    BY <1>2, <2>1 DEF Element, InfoType
  <2> QED
    BY <2>1, <2>2
<1>5. RejectionsAdded(q, S, order) = old \o new
  BY DEF RejectionsAdded
<1> HIDE DEF old, new
<1>6. /\ old \o new \in Seq(Element(Ids, InfoType))
      /\ Len(old \o new) = Len(q) + Len(order)
  BY <1>3, <1>4
<1>7. \A i \in 1..Len(q) : (old \o new)[i] = old[i]
  BY <1>3, <1>4
<1>8. \A i \in 1..Len(order) : (old \o new)[Len(q) + i] = new[i]
  BY <1>3, <1>4
<1>9. \A i \in 1..Len(q) : old[i] = IF q[i].key \in S
                                     THEN [key |-> q[i].key, val |-> "STREAM_REJECT"]
                                     ELSE q[i]
  BY DEF old
<1>10. \A i \in 1..Len(order) : new[i] = [key |-> order[i], val |-> "STREAM_REJECT"]
  BY DEF new
<1>11. r = old \o new
  BY <1>5
<1> QED
  BY <1>6, <1>7, <1>8, <1>9, <1>10, <1>11

-----------------------------------------------------------------------------
(***************************************************************************)
(* Type correctness.                                                       *)
(***************************************************************************)
USE DEF IsStream

\* The entries of the collection are built from the parameters in play.
LEMMA AcceptedType ==
    ASSUME CollTypeOK, NEW sme \in SME
    PROVE  Accepted(sme) \in MasterStreamInfo
<1>1. /\ sme.params \in StreamParameters
      /\ GetServerId(sme.id) \in Ids
  BY IdsAssumption, ParamsAssumption DEF SME
<1>2. collection[GetServerId(sme.id)].params \in StreamParameters
  BY <1>1 DEF CollTypeOK, MasterStreamInfo
<1>3. NegotiateParameters(collection[GetServerId(sme.id)].params, sme.params)
        \in StreamParameters
  BY <1>1, <1>2 DEF NegotiateParameters, StreamParameters, MinOf, MaxOf
<1> QED
  BY <1>3 DEF Accepted, MasterStreamInfo, MasterStreamStatus

\* Queueing an announcement keeps the info queue's type (enqueueInfo).
LEMMA EnqueueInfoType ==
    ASSUME CollTypeOK, NEW id \in Ids, NEW type \in InfoType
    PROVE  Enqueue(infoQueue, id, type) \in Seq([key : Ids, val : InfoType])
  BY EnqueueType DEF CollTypeOK, Element

\* An id that is not in the collection has an entry of the right shape.
LEMMA NoEntryType == NoEntry \in MasterStreamInfo
  BY DEF NoEntry, NoParams, MasterStreamInfo, StreamParameters

\* Receiving an SME keeps the collection well typed.
LEMMA ReceiveType ==
    ASSUME CollTypeOK, NEW sme \in NodeSMEs, ReceiveSME(sme)
    PROVE  CollTypeOK'
<1> USE DEF NodeSMEs
<1>0. /\ sme \in SME
      /\ sme.id \in Ids
      /\ sme.params \in StreamParameters
  BY ParamsAssumption DEF SME
<1>1. ASSUME RequestResend PROVE CollTypeOK'
  BY <1>1 DEF RequestResend, CollTypeOK
<1>2. ASSUME IgnoreSME PROVE CollTypeOK'
  BY <1>2 DEF IgnoreSME, collVars, CollTypeOK
<1>3. ASSUME UpdateStream(sme) PROVE CollTypeOK'
  <2>1. ASSUME EraseStream(sme.id) PROVE CollTypeOK'
    BY <2>1, NoEntryType DEF EraseStream, CollTypeOK
  <2> QED
    BY <1>1, <1>2, <1>3, <2>1 DEF UpdateStream
<1>4. ASSUME CreateStream(sme) PROVE CollTypeOK'
  <2>1. ASSUME AcceptStream(sme) PROVE CollTypeOK'
    BY <1>0, <2>1, AcceptedType DEF AcceptStream, CollTypeOK
  <2>2. ASSUME RejectRequest(sme.id) PROVE CollTypeOK'
    BY <1>0, <2>2, EnqueueInfoType
       DEF RejectRequest, EnqueueInfo, CollTypeOK, InfoType
  <2> QED
    BY <1>1, <1>2, <1>4, <2>1, <2>2 DEF CreateStream
<1>5. ASSUME UpdateServer(sme) PROVE CollTypeOK'
  BY <1>0, <1>5, EnqueueInfoType, NoEntryType
     DEF UpdateServer, EnqueueInfo, CollTypeOK, InfoType
<1>6. ASSUME CreateServer(sme) PROVE CollTypeOK'
  <2>1. [status |-> "LISTEN", params |-> sme.params] \in MasterStreamInfo
    BY <1>0 DEF MasterStreamInfo, MasterStreamStatus
  <2> QED
    BY <1>0, <1>6, <2>1, EnqueueInfoType
       DEF CreateServer, EnqueueInfo, CollTypeOK, InfoType
<1> QED
  BY <1>1, <1>3, <1>4, <1>5, <1>6 DEF ReceiveSME

\* The queue after the changes are applied: the rejections were added in an order.
LEMMA ApplyQueue ==
    ASSUME CollTypeOK, NEW coll, NEW scheduled, ApplyChanges(coll, scheduled)
    PROVE  \E order \in Seq(Ids) :
              /\ infoQueue' = RejectionsAdded(infoQueue, Rejected(coll, scheduled), order)
              /\ infoQueue' \in Seq(Element(Ids, InfoType))
              /\ order \in Orders({id \in Rejected(coll, scheduled) :
                                     ~HasKey(infoQueue, id)})
              /\ DOMAIN order = 1..Len(order)
<1> DEFINE rejected == Rejected(coll, scheduled)
           fresh == {id \in rejected : ~HasKey(infoQueue, id)}
<1>1. rejected \in SUBSET Ids /\ fresh \in SUBSET Ids
  BY DEF Rejected, ToReject, WithStatus
<1>2. PICK order \in Orders(fresh) : infoQueue' = RejectionsAdded(infoQueue, rejected, order)
  BY DEF ApplyChanges
<1> HIDE DEF rejected, fresh
<1>3. order \in Seq(fresh) /\ DOMAIN order = 1..Len(order)
  BY <1>1, OrderIsSequence
<1>4. order \in Seq(Ids)
  BY <1>1, <1>3
<1>5. infoQueue \in Seq(Element(Ids, InfoType))
  BY DEF CollTypeOK, Element
<1>6. RejectionsAdded(infoQueue, rejected, order) \in Seq(Element(Ids, InfoType))
  BY <1>1, <1>4, <1>5, RejectionsAddedFacts
<1> QED
  BY <1>2, <1>3, <1>4, <1>6 DEF rejected, fresh

\* Applying the changes of a scheduling keeps the collection's type (applyChanges).
LEMMA ApplyType ==
    ASSUME CollTypeOK, NEW coll, NEW scheduled, ApplyChanges(coll, scheduled)
    PROVE  CollTypeOK'
<1>1. infoQueue' \in Seq([key : Ids, val : InfoType])
  BY ApplyQueue DEF Element
<1>2. \A id \in Ids : ChangedEntry(id, coll, scheduled) \in MasterStreamInfo
  BY NoEntryType DEF ChangedEntry, CollTypeOK, MasterStreamInfo, MasterStreamStatus
<1>3. collection' \in [Ids -> MasterStreamInfo]
  BY <1>2 DEF ApplyChanges
<1> QED
  BY <1>1, <1>3 DEF ApplyChanges, CollTypeOK

\* A downgraded redundancy is a redundancy.
LEMMA DowngradedType ==
    ASSUME NEW params \in StreamParameters
    PROVE  Downgraded(params) \in StreamParameters
  BY DEF Downgraded, StreamParameters, DOUBLE, DOUBLE_SPATIAL, TRIPLE, TRIPLE_SPATIAL

\* A schedule's element carries an id and parameters of the instance.
LEMMA ElementsOfType ==
    ASSUME NEW coll \in [Ids -> MasterStreamInfo], NEW S \in SUBSET Ids, NEW direct
    PROVE  ElementsOf(coll, S, direct) \in SUBSET ScheduleElement
<1>1. \A id \in Ids : coll[id].params \in StreamParameters
  BY DEF MasterStreamInfo
<1>2. \A id \in Ids : Downgraded(coll[id].params) \in StreamParameters
  BY <1>1, DowngradedType
<1> QED
  BY <1>1, <1>2 DEF ElementsOf, ScheduleElement

\* The schedule and the snapshot of the constructor have their types.
LEMMA EmptyTypes == EmptySchedule \in Schedule /\ EmptySnapshot \in Snapshot
  BY NoEntryType DEF EmptySchedule, EmptySnapshot, Schedule, Snapshot

\* What a packet takes from the queue keeps the collection well typed.
LEMMA DequeueInfoType ==
    ASSUME CollTypeOK, NEW num \in InfoPerPacket, DequeueInfo(num)
    PROVE  CollTypeOK'
<1>1. num \in Nat
  BY IdsAssumption, FS_CardinalityType DEF InfoPerPacket
<1> QED
  BY <1>1, DequeueManyType DEF DequeueInfo, CollTypeOK

\* The constructors establish the type invariant.
LEMMA InitTypes == Init => TypeOK
<1> SUFFICES ASSUME Init PROVE TypeOK
  OBVIOUS
<1>1. CollTypeOK
  <2>1. [id \in Ids |-> NoEntry] \in [Ids -> MasterStreamInfo]
    BY NoEntryType
  <2>2. EmptyQueue \in Seq([key : Ids, val : InfoType])
    BY DEF EmptyQueue
  <2> QED
    BY <2>1, <2>2 DEF Init, CollInit, CollTypeOK
<1> QED
  BY <1>1, EmptyTypes DEF Init, TypeOK, SchedulerStep, ScheduleDownlinkStatus

\* The Spec keeps every variable in its type, for all ids and parameters.
THEOREM TypeCorrect == Spec => []TypeOK
<1>1. Init => TypeOK
  BY InitTypes
<1>2. TypeOK /\ [Next]_vars => TypeOK'
  <2> SUFFICES ASSUME TypeOK, [Next]_vars PROVE TypeOK'
    OBVIOUS
  <2> USE DEF TypeOK, SchedulerStep, ScheduleDownlinkStatus
  <2>1. CASE Wake
    BY <2>1 DEF Wake, CollTypeOK, collVars, topologyVars, sharedVars, downlinkVars
  <2>2. CASE CheckTopology
    BY <2>2 DEF CheckTopology, CollTypeOK, collVars, topologyVars, sharedVars, downlinkVars
  <2>3. CASE CheckOperation
    BY <2>3 DEF CheckOperation, GetOperation, CollTypeOK, topologyVars, sharedVars,
                downlinkVars
  <2>4. CASE TakeSnapshot
    BY <2>4 DEF TakeSnapshot, GetSnapshot, CollTypeOK, topologyVars, sharedVars,
                downlinkVars, Snapshot
  <2>5. CASE UpdateGraph
    BY <2>5 DEF UpdateGraph, CollTypeOK, collVars, sharedVars, downlinkVars
  <2>6. CASE ComputeSchedule
    <3>1. PICK est, acc, direct :
            /\ est \in SUBSET WithStatus(stream_snapshot.collection, "ESTABLISHED")
            /\ acc \in SUBSET WithStatus(stream_snapshot.collection, "ACCEPTED")
            /\ newSchedule' = [id |-> schedule.id + 1,
                               elements |-> ComputedElements(est, acc, direct)]
      BY <2>6 DEF ComputeSchedule
    <3>2. stream_snapshot.collection \in [Ids -> MasterStreamInfo]
      BY DEF Snapshot
    <3>3. est \in SUBSET Ids /\ acc \in SUBSET Ids
      BY <3>1 DEF WithStatus
    <3>4. ComputedElements(est, acc, direct) \in SUBSET ScheduleElement
      BY <3>2, <3>3, ElementsOfType DEF ComputedElements, Schedule
    <3>5. newSchedule' \in Schedule
      BY <3>1, <3>4 DEF Schedule
    <3> QED
      BY <2>6, <3>5 DEF ComputeSchedule, CollTypeOK, collVars, topologyVars, sharedVars,
                        downlinkVars
  <2>7. CASE TellTopology
    BY <2>7 DEF TellTopology, CollTypeOK, collVars, sharedVars, downlinkVars
  <2>8. CASE ApplyStreamChanges
    BY <2>8, ApplyType DEF ApplyStreamChanges, topologyVars, sharedVars, downlinkVars
  <2>9. CASE Publish
    BY <2>9, EmptyTypes DEF Publish, EndRound, CollTypeOK, collVars, topologyVars,
                            downlinkVars
  <2>10. CASE Resend
    BY <2>10, EmptyTypes DEF Resend, EndRound, CollTypeOK, collVars, topologyVars,
                             downlinkVars
  <2>11. CASE StartSending
    BY <2>11 DEF StartSending, CollTypeOK, collVars, topologyVars, schedulerVars, sharedVars
  <2>12. ASSUME NEW num \in InfoPerPacket, SendSchedulePacket(num) PROVE TypeOK'
    BY <2>12, DequeueInfoType
       DEF SendSchedulePacket, topologyVars, schedulerVars, sharedVars, downlinkVars
  <2>13. ASSUME NEW num \in InfoPerPacket, SendInfoPacket(num) PROVE TypeOK'
    BY <2>13, DequeueInfoType
       DEF SendInfoPacket, topologyVars, schedulerVars, sharedVars
  <2>14. CASE AwaitActivation
    BY <2>14 DEF AwaitActivation, CollTypeOK, collVars, topologyVars, schedulerVars,
                 sharedVars
  <2>15. CASE ApplySchedule
    <3>1. UNCHANGED collVars => CollTypeOK'
      BY DEF CollTypeOK, collVars
    <3> QED
      BY <2>15, <3>1 DEF ApplySchedule, topologyVars, schedulerVars
  <2>16. ASSUME NEW sme \in NodeSMEs, Uplink(sme) PROVE TypeOK'
    BY <2>16, ReceiveType DEF Uplink, topologyVars, schedulerVars, sharedVars, downlinkVars
  <2>17. CASE TopologyChange
    <3>1. UNCHANGED collVars => CollTypeOK'
      BY DEF CollTypeOK, collVars
    <3>2. topologyModified' \in BOOLEAN /\ changedWhileScheduling' \in BOOLEAN
      BY <2>17 DEF TopologyChange
    <3> QED
      BY <2>17, <3>1, <3>2 DEF TopologyChange, schedulerVars, sharedVars, downlinkVars
  <2>18. CASE UNCHANGED vars
    BY <2>18 DEF vars, CollTypeOK, collVars, topologyVars, schedulerVars, sharedVars,
                 downlinkVars
  <2> QED
    BY <2>1, <2>2, <2>3, <2>4, <2>5, <2>6, <2>7, <2>8, <2>9, <2>10, <2>11, <2>12,
       <2>13, <2>14, <2>15, <2>16, <2>17, <2>18 DEF Next, Scheduler, Downlink
<1> QED
  BY <1>1, <1>2, PTL DEF Spec

-----------------------------------------------------------------------------
(***************************************************************************)
(* The inductive invariant.  First the steps of the MAC thread that change *)
(* the collection while the scheduler thread may be anywhere in its round. *)
(***************************************************************************)
\* A server comes or goes and its announcement is queued.
ServerStep(id) ==
    /\ IsServer(id)
    /\ UNCHANGED <<modified_flag, removed_flag, added_flag>>
    /\ \E entry \in MasterStreamInfo :
          /\ collection' = [collection EXCEPT ![id] = entry]
          /\ \/ /\ entry.status = "LISTEN"
                /\ infoQueue' = Enqueue(infoQueue, id, "SERVER_OPENED")
             \/ /\ entry.status = "ABSENT"
                /\ infoQueue' = Enqueue(infoQueue, id, "SERVER_CLOSED")

\* An SME does one of five things.
LEMMA ReceiveEffects ==
    ASSUME CollTypeOK, KindsKept, NEW sme \in NodeSMEs, ReceiveSME(sme)
    PROVE  \/ UNCHANGED <<collection, infoQueue, modified_flag, removed_flag, added_flag>>
           \/ IsStream(sme.id) /\ Present(sme.id) /\ sme.type = "CLOSED" /\ EraseStream(sme.id)
           \/ IsStream(sme.id) /\ ~Present(sme.id) /\ AcceptStream(sme)
           \/ IsStream(sme.id) /\ RejectRequest(sme.id)
           \/ ServerStep(sme.id)
<1>0. /\ sme.id \in Ids
      /\ sme.params \in StreamParameters
      /\ collection \in [Ids -> MasterStreamInfo]
  BY ParamsAssumption DEF NodeSMEs, SME, CollTypeOK
<1>1. CASE RequestResend \/ IgnoreSME
  BY <1>1 DEF RequestResend, IgnoreSME, collVars
<1>2. CASE UpdateStream(sme)
  BY <1>1, <1>2 DEF UpdateStream
<1>3. CASE CreateStream(sme)
  BY <1>1, <1>3 DEF CreateStream
<1>4. CASE UpdateServer(sme)
  <2>1. collection[sme.id].status = "LISTEN"
    BY <1>0, <1>4 DEF UpdateServer, Present, KindsKept, Owners, MasterStreamInfo,
                      MasterStreamStatus
  <2>2. CASE sme.type = "CLOSED"
    BY <1>4, <2>2, NoEntryType DEF UpdateServer, ServerStep, EnqueueInfo, NoEntry
  <2>3. CASE sme.type = "LISTEN"
    <3>1. /\ collection' = [collection EXCEPT ![sme.id] = collection[sme.id]]
          /\ collection[sme.id] \in MasterStreamInfo
      BY <1>0, <1>4, <2>3 DEF UpdateServer
    <3> QED
      BY <1>4, <2>1, <2>3, <3>1 DEF UpdateServer, ServerStep, EnqueueInfo
  <2> QED
    BY <1>4, <2>2, <2>3 DEF UpdateServer
<1>5. CASE CreateServer(sme)
  <2>1. CASE sme.type = "LISTEN"
    <3>1. [status |-> "LISTEN", params |-> sme.params] \in MasterStreamInfo
      BY <1>0 DEF MasterStreamInfo, MasterStreamStatus
    <3> QED
      BY <1>5, <2>1, <3>1 DEF CreateServer, ServerStep, EnqueueInfo
  <2>2. CASE sme.type = "CLOSED"
    <3>1. /\ collection' = [collection EXCEPT ![sme.id] = collection[sme.id]]
          /\ collection[sme.id] \in MasterStreamInfo
          /\ collection[sme.id].status = "ABSENT"
      BY <1>0, <1>5, <2>2 DEF CreateServer, Present
    <3> QED
      BY <1>5, <2>2, <3>1 DEF CreateServer, ServerStep, EnqueueInfo
  <2> QED
    BY <1>5, <2>1, <2>2 DEF CreateServer
<1> QED
  BY <1>1, <1>2, <1>3, <1>4, <1>5 DEF ReceiveSME

\* What does not depend on the collection.
OtherParts ==
    /\ SchedulesFitSnapshot
    /\ ElementsUnique(schedule)
    /\ ElementsUnique(newSchedule)
    /\ OneAtATime
    /\ DistributionConsistent

\* The parts on snapshot and schedules do not depend on the rest.
LEMMA OtherPartsFrame ==
    ASSUME OtherParts, UNCHANGED <<schedulerVars, sharedVars, downlinkVars>>
    PROVE  OtherParts'
  BY DEF OtherParts, SchedulesFitSnapshot, ElementsUnique, OneAtATime,
         DistributionConsistent, schedulerVars, sharedVars, downlinkVars, InWindow, TakenFrom

\* The parts about the flags and the collection of streams.
CollParts ==
    /\ FlagsAgree
    /\ SnapshotStillTells
    /\ EstablishedIsScheduled
    /\ NoLeakedSlots
    /\ AcceptedIsRemembered

\* They do not depend on the queue, nor on the downlink.
LEMMA CollPartsFrame ==
    ASSUME CollParts,
           UNCHANGED <<collection, modified_flag, removed_flag, added_flag,
                       topologyModified, schedulerVars, schedule>>
    PROVE  CollParts'
  BY DEF CollParts, FlagsAgree, RescheduleChanges, ScheduleChanged, StartOver,
         SnapshotStillTells, EstablishedIsScheduled, NoLeakedSlots,
         AcceptedIsRemembered, schedulerVars, InWindow, RemovalPending, CurrentSchedule

\* The parts about the queue.
QueueParts == KindsKept /\ ServerAnnouncementsAgree

\* The parts on the info queue depend on the collection and the queue only.
LEMMA QueuePartsFrame ==
    ASSUME QueueParts, UNCHANGED <<collection, infoQueue>>
    PROVE  QueueParts'
  BY DEF QueueParts, KindsKept, ServerAnnouncementsAgree, Present

\* The inductive invariant by the state its parts speak of.
LEMMA IInvParts == IInv <=> TypeOK /\ CollParts /\ QueueParts /\ OtherParts
  BY DEF IInv, CollParts, QueueParts, OtherParts

\* The same after a step, in the direction the step proofs need.
LEMMA IInvNextParts == TypeOK' /\ CollParts' /\ QueueParts' /\ OtherParts' => IInv'
  BY DEF IInv, CollParts, QueueParts, OtherParts

\* The keys in the queue are ids.
LEMMA QueueKeys == TypeOK => \A i \in 1..Len(infoQueue) : infoQueue[i].key \in Ids
<1> SUFFICES ASSUME TypeOK, NEW i \in 1..Len(infoQueue) PROVE infoQueue[i].key \in Ids
  OBVIOUS
<1>1. infoQueue \in Seq(Element(Ids, InfoType))
  BY DEF TypeOK, CollTypeOK, Element
<1>2. infoQueue[i] \in Element(Ids, InfoType)
  BY <1>1
<1> QED
  BY <1>2 DEF Element

\* A stream is closed.
LEMMA EraseCollParts ==
    ASSUME TypeOK, CollParts, NEW id \in Ids, IsStream(id), Present(id), EraseStream(id),
           UNCHANGED <<topologyVars, schedulerVars, sharedVars>>
    PROVE  CollParts'
<1>1. /\ removed_flag' = TRUE
      /\ added_flag' = added_flag
      /\ \A i \in Ids : collection'[i] = IF i = id THEN NoEntry ELSE collection[i]
  BY DEF EraseStream, TypeOK, CollTypeOK
<1> USE DEF topologyVars, schedulerVars, sharedVars
<1>2. FlagsAgree'
  BY <1>1 DEF CollParts, FlagsAgree, RescheduleChanges, ScheduleChanged, StartOver
<1>3. SnapshotStillTells'
  BY <1>1 DEF CollParts, SnapshotStillTells, InWindow, NoEntry
<1>4. RemovalPending'
  BY <1>1 DEF RemovalPending
<1>5. EstablishedIsScheduled'
  BY <1>1, <1>4 DEF CollParts, EstablishedIsScheduled, CurrentSchedule, NoEntry
<1>6. NoLeakedSlots'
  BY <1>4 DEF NoLeakedSlots
<1>7. AcceptedIsRemembered'
  BY <1>1 DEF CollParts, AcceptedIsRemembered, NoEntry, InWindow
<1> QED
  BY <1>2, <1>3, <1>5, <1>6, <1>7 DEF CollParts

\* A stream is accepted.
LEMMA AcceptCollParts ==
    ASSUME TypeOK, CollParts, NEW sme \in NodeSMEs, ~Present(sme.id), AcceptStream(sme),
           UNCHANGED <<topologyVars, schedulerVars, sharedVars>>
    PROVE  CollParts'
<1>1. /\ removed_flag' = removed_flag
      /\ added_flag' = TRUE
      /\ \A i \in Ids : collection'[i] = IF i = sme.id THEN Accepted(sme) ELSE collection[i]
  BY DEF AcceptStream, TypeOK, CollTypeOK
<1>2. Accepted(sme).status = "ACCEPTED"
  BY DEF Accepted
<1>3. collection[sme.id].status = "ABSENT"
  BY DEF Present
<1> USE DEF topologyVars, schedulerVars, sharedVars
<1>4. FlagsAgree'
  BY <1>1 DEF CollParts, FlagsAgree, RescheduleChanges, ScheduleChanged, StartOver
<1>5. SnapshotStillTells'
  BY <1>1, <1>2, <1>3 DEF CollParts, SnapshotStillTells, InWindow, Owners
<1>6. RemovalPending' = RemovalPending /\ CurrentSchedule' = CurrentSchedule
  BY <1>1 DEF RemovalPending, InWindow, CurrentSchedule
<1>7. EstablishedIsScheduled'
  BY <1>1, <1>2, <1>6 DEF CollParts, EstablishedIsScheduled
<1>8. NoLeakedSlots'
  <2>1. \A el \in CurrentSchedule.elements : el.id \in Ids
    BY DEF CurrentSchedule, TypeOK, Schedule, ScheduleElement
  <2> QED
    BY <1>1, <1>3, <1>6, <2>1 DEF CollParts, NoLeakedSlots
<1>9. AcceptedIsRemembered'
  BY <1>1 DEF AcceptedIsRemembered
<1> QED
  BY <1>4, <1>5, <1>7, <1>8, <1>9 DEF CollParts

\* A server comes or goes.
LEMMA ServerCollParts ==
    ASSUME TypeOK, CollParts, KindsKept, NEW id \in Ids, ServerStep(id),
           UNCHANGED <<topologyVars, schedulerVars, sharedVars>>
    PROVE  CollParts'
<1>1. PICK entry \in MasterStreamInfo :
        /\ collection' = [collection EXCEPT ![id] = entry]
        /\ entry.status \in {"LISTEN", "ABSENT"}
  BY DEF ServerStep
<1>2. /\ removed_flag' = removed_flag
      /\ added_flag' = added_flag
      /\ modified_flag' = modified_flag
      /\ \A i \in Ids : collection'[i] = IF i = id THEN entry ELSE collection[i]
  BY <1>1 DEF ServerStep, TypeOK, CollTypeOK
<1>3. collection[id].status \notin Owners /\ entry.status \notin Owners
  BY <1>1 DEF ServerStep, KindsKept, Owners
<1> USE DEF topologyVars, schedulerVars, sharedVars
<1>4. FlagsAgree'
  BY <1>2 DEF CollParts, FlagsAgree, RescheduleChanges, ScheduleChanged, StartOver
<1>5. SnapshotStillTells'
  BY <1>2, <1>3 DEF CollParts, SnapshotStillTells, InWindow, Owners
<1>6. RemovalPending' = RemovalPending /\ CurrentSchedule' = CurrentSchedule
  BY <1>2 DEF RemovalPending, InWindow, CurrentSchedule
<1>7. EstablishedIsScheduled'
  BY <1>2, <1>3, <1>6 DEF CollParts, EstablishedIsScheduled, Owners
<1>8. NoLeakedSlots'
  <2>1. \A el \in CurrentSchedule.elements : el.id \in Ids
    BY DEF CurrentSchedule, TypeOK, Schedule, ScheduleElement
  <2> QED
    BY <1>2, <1>3, <1>6, <2>1 DEF CollParts, NoLeakedSlots, Owners
<1>9. AcceptedIsRemembered'
  BY <1>2, <1>3 DEF CollParts, AcceptedIsRemembered, Owners, InWindow
<1> QED
  BY <1>4, <1>5, <1>7, <1>8, <1>9 DEF CollParts

\* A stream's entry changes and the queue does not.
LEMMA StreamQueueParts ==
    ASSUME TypeOK, QueueParts, NEW id \in Ids, IsStream(id), UNCHANGED infoQueue,
           NEW entry \in MasterStreamInfo, entry.status # "LISTEN",
           collection' = [collection EXCEPT ![id] = entry]
    PROVE  QueueParts'
<1>1. \A i \in Ids : collection'[i] = IF i = id THEN entry ELSE collection[i]
  BY DEF TypeOK, CollTypeOK
<1>2. \A i \in 1..Len(infoQueue) : infoQueue[i].key \in Ids
  BY QueueKeys
<1>3. KindsKept'
  BY <1>1 DEF QueueParts, KindsKept
<1>4. ServerAnnouncementsAgree'
  BY <1>1, <1>2 DEF QueueParts, KindsKept, ServerAnnouncementsAgree, Present
<1> QED
  BY <1>3, <1>4 DEF QueueParts

\* A rejection is queued for a stream.
LEMMA RejectQueueParts ==
    ASSUME TypeOK, QueueParts, NEW id \in Ids, RejectRequest(id)
    PROVE  QueueParts'
<1>1. infoQueue' = Enqueue(infoQueue, id, "STREAM_REJECT") /\ UNCHANGED collection
  BY DEF RejectRequest, EnqueueInfo
<1>2. infoQueue \in Seq(Element(Ids, InfoType)) /\ "STREAM_REJECT" \in InfoType
  BY DEF TypeOK, CollTypeOK, Element, InfoType
<1>3. \A i \in 1..Len(infoQueue') :
          \/ infoQueue'[i] = [key |-> id, val |-> "STREAM_REJECT"]
          \/ i \in 1..Len(infoQueue) /\ infoQueue'[i] = infoQueue[i]
  BY <1>1, <1>2, EnqueueElements
<1>4. KindsKept'
  BY <1>1, <1>3 DEF QueueParts, KindsKept
<1>5. ServerAnnouncementsAgree'
  BY <1>1, <1>3 DEF QueueParts, ServerAnnouncementsAgree, Present
<1> QED
  BY <1>4, <1>5 DEF QueueParts

\* LISTEN and CLOSED of a server keep its queued announcement in line
\* with the collection (createServer, updateServer).
LEMMA ServerQueueParts ==
    ASSUME TypeOK, QueueParts, NEW id \in Ids, ServerStep(id)
    PROVE  QueueParts'
<1>1. PICK entry \in MasterStreamInfo, type \in {"SERVER_OPENED", "SERVER_CLOSED"} :
        /\ collection' = [collection EXCEPT ![id] = entry]
        /\ infoQueue' = Enqueue(infoQueue, id, type)
        /\ entry.status = IF type = "SERVER_OPENED" THEN "LISTEN" ELSE "ABSENT"
  BY DEF ServerStep
<1>2. infoQueue \in Seq(Element(Ids, InfoType)) /\ type \in InfoType /\ IsServer(id)
  BY DEF TypeOK, CollTypeOK, Element, InfoType, ServerStep
<1>3. \A i \in 1..Len(infoQueue') :
          \/ infoQueue'[i] = [key |-> id, val |-> type]
          \/ /\ i \in 1..Len(infoQueue)
             /\ infoQueue'[i] = infoQueue[i]
             /\ infoQueue[i].key # id
  BY <1>1, <1>2, EnqueueElements
<1>4. \A i \in Ids : collection'[i] = IF i = id THEN entry ELSE collection[i]
  BY <1>1 DEF TypeOK, CollTypeOK
<1>5. \A i \in 1..Len(infoQueue) : infoQueue[i].key \in Ids
  BY QueueKeys
<1>6. KindsKept'
  BY <1>1, <1>2, <1>3, <1>4 DEF QueueParts, KindsKept, Owners
<1>7. ServerAnnouncementsAgree'
  BY <1>1, <1>3, <1>4, <1>5 DEF QueueParts, ServerAnnouncementsAgree, Present
<1> QED
  BY <1>6, <1>7 DEF QueueParts

\* Taking announcements for a packet keeps the rest of the queue in line with
\* the collection (dequeueInfo).
LEMMA DequeueQueueParts ==
    ASSUME TypeOK, QueueParts, NEW num \in InfoPerPacket, DequeueInfo(num)
    PROVE  QueueParts'
<1>1. num \in Nat
  BY IdsAssumption, FS_CardinalityType DEF InfoPerPacket
<1>2. \A i \in 1..Len(infoQueue') : \E j \in 1..Len(infoQueue) : infoQueue'[i] = infoQueue[j]
  BY <1>1, DequeueElements DEF DequeueInfo, TypeOK, CollTypeOK
<1> QED
  BY <1>2 DEF DequeueInfo, QueueParts, KindsKept, ServerAnnouncementsAgree, Present

\* Delivering an SME preserves the invariant, wherever the scheduler thread is.
LEMMA UplinkInv ==
    ASSUME IInv, TypeOK', NEW sme \in NodeSMEs, Uplink(sme)
    PROVE  IInv'
<1>0. /\ TypeOK /\ CollParts /\ QueueParts /\ OtherParts
      /\ sme.id \in Ids
      /\ ReceiveSME(sme)
      /\ UNCHANGED <<topologyVars, schedulerVars, sharedVars, downlinkVars>>
  BY IInvParts DEF Uplink, NodeSMEs, SME
<1>1. OtherParts'
  BY <1>0, OtherPartsFrame
<1>2. CASE UNCHANGED <<collection, infoQueue, modified_flag, removed_flag, added_flag>>
  BY <1>0, <1>1, <1>2, CollPartsFrame, QueuePartsFrame, IInvNextParts
     DEF topologyVars, sharedVars
<1>3. CASE IsStream(sme.id) /\ Present(sme.id) /\ EraseStream(sme.id)
  <2>1. CollParts'
    BY <1>0, <1>3, EraseCollParts
  <2>2. QueueParts'
    BY <1>0, <1>3, NoEntryType, StreamQueueParts DEF EraseStream, NoEntry
  <2> QED
    BY <1>1, <2>1, <2>2, IInvNextParts
<1>4. CASE IsStream(sme.id) /\ ~Present(sme.id) /\ AcceptStream(sme)
  <2>1. CollParts'
    BY <1>0, <1>4, AcceptCollParts
  <2>2. sme \in SME /\ CollTypeOK
    BY <1>0 DEF NodeSMEs, TypeOK
  <2>3. Accepted(sme) \in MasterStreamInfo /\ Accepted(sme).status = "ACCEPTED"
    BY <2>2, AcceptedType DEF Accepted
  <2>4. QueueParts'
    BY <1>0, <1>4, <2>3, StreamQueueParts DEF AcceptStream
  <2> QED
    BY <1>1, <2>1, <2>4, IInvNextParts
<1>5. CASE IsStream(sme.id) /\ RejectRequest(sme.id)
  <2>1. CollParts'
    BY <1>0, <1>5, CollPartsFrame DEF RejectRequest, topologyVars, sharedVars
  <2> QED
    BY <1>0, <1>1, <1>5, <2>1, RejectQueueParts, IInvNextParts
<1>6. CASE ServerStep(sme.id)
  <2>1. CollParts'
    BY <1>0, <1>6, ServerCollParts DEF QueueParts
  <2> QED
    BY <1>0, <1>1, <1>6, <2>1, ServerQueueParts, IInvNextParts
<1> QED
  BY <1>0, <1>2, <1>3, <1>4, <1>5, <1>6, ReceiveEffects DEF TypeOK, QueueParts

-----------------------------------------------------------------------------
(***************************************************************************)
(* The steps of a round of the scheduler thread.                           *)
(***************************************************************************)
\* Outside the window the statuses refer to the schedule and no snapshot
\* counts, so a step there disturbs the flags only.
LEMMA OutsideWindow ==
    ASSUME CollParts,
           UNCHANGED <<collection, removed_flag, added_flag, schedule>>,
           pc \in {"waiting", "checkTopology", "getOperation", "resend"},
           pc' \in {"waiting", "checkTopology", "getOperation", "getSnapshot", "resend"},
           FlagsAgree'
    PROVE  CollParts'
<1>1. /\ SnapshotStillTells' /\ ~InWindow /\ ~InWindow'
  BY DEF SnapshotStillTells, InWindow
<1>2. RemovalPending' = RemovalPending /\ CurrentSchedule' = CurrentSchedule
  BY <1>1 DEF RemovalPending, CurrentSchedule
<1>3. EstablishedIsScheduled' /\ NoLeakedSlots'
  BY <1>2 DEF CollParts, EstablishedIsScheduled, NoLeakedSlots
<1>4. AcceptedIsRemembered'
  BY <1>1 DEF CollParts, AcceptedIsRemembered
<1> QED
  BY <1>1, <1>3, <1>4 DEF CollParts

\* ScheduleComputation::run waking up keeps the invariant.
LEMMA WakeInv ==
    ASSUME IInv, TypeOK', Wake
    PROVE  IInv'
<1>0. CollParts /\ QueueParts /\ OtherParts
  BY IInvParts
<1> USE DEF Wake, collVars, topologyVars, sharedVars, downlinkVars
<1>1. FlagsAgree'
  BY <1>0 DEF CollParts, FlagsAgree, RescheduleChanges
<1>2. CollParts'
  BY <1>0, <1>1, OutsideWindow
<1>3. OtherParts'
  BY <1>0 DEF OtherParts, SchedulesFitSnapshot, InWindow, ElementsUnique, OneAtATime,
              DistributionConsistent
<1> QED
  BY <1>0, <1>2, <1>3, QueuePartsFrame, IInvNextParts

\* Looking at the topology's flag keeps the invariant.
LEMMA CheckTopologyInv ==
    ASSUME IInv, TypeOK', CheckTopology
    PROVE  IInv'
<1>0. CollParts /\ QueueParts /\ OtherParts
  BY IInvParts
<1> USE DEF CheckTopology, collVars, topologyVars, sharedVars, downlinkVars
<1>1. FlagsAgree'
  BY <1>0 DEF CollParts, FlagsAgree, RescheduleChanges
<1>2. CollParts'
  BY <1>0, <1>1, OutsideWindow
<1>3. OtherParts'
  BY <1>0 DEF OtherParts, SchedulesFitSnapshot, InWindow, ElementsUnique, OneAtATime,
              DistributionConsistent
<1> QED
  BY <1>0, <1>2, <1>3, QueuePartsFrame, IInvNextParts

\* Looking at the collection's flags keeps the invariant.
LEMMA CheckOperationInv ==
    ASSUME IInv, TypeOK', CheckOperation
    PROVE  IInv'
<1>0. CollParts /\ QueueParts /\ OtherParts
  BY IInvParts
<1> USE DEF CheckOperation, GetOperation, topologyVars, sharedVars, downlinkVars
<1>1. FlagsAgree'
  BY <1>0 DEF CollParts, FlagsAgree, RescheduleChanges
<1>2. CollParts'
  BY <1>0, <1>1, OutsideWindow
<1>3. OtherParts'
  BY <1>0 DEF OtherParts, SchedulesFitSnapshot, InWindow, ElementsUnique, OneAtATime,
              DistributionConsistent
<1> QED
  BY <1>0, <1>2, <1>3, QueuePartsFrame, IInvNextParts

\* The window opens: every stream with slots is established with the
\* parameters of its element, or the snapshot says that something was removed.
LEMMA TakeSnapshotInv ==
    ASSUME IInv, TypeOK', TakeSnapshot
    PROVE  IInv'
<1>0. TypeOK /\ CollParts /\ QueueParts /\ OtherParts
  BY IInvParts
<1>1. /\ pc = "getSnapshot" /\ pc' = "updateGraph"
      /\ stream_snapshot' = [collection |-> collection, modified |-> modified_flag,
                             removed |-> removed_flag, added |-> added_flag]
      /\ removed_flag' = FALSE /\ added_flag' = FALSE /\ modified_flag' = FALSE
      /\ UNCHANGED <<collection, infoQueue, topologyVars, forceReschedule, newSchedule,
                     sharedVars, downlinkVars>>
      /\ ~InWindow /\ InWindow'
      /\ removed_flag \in BOOLEAN
  BY <1>0 DEF TakeSnapshot, GetSnapshot, InWindow, TypeOK, CollTypeOK
<1> USE DEF topologyVars, sharedVars, downlinkVars
<1>2. FlagsAgree'
  BY <1>0, <1>1 DEF CollParts, FlagsAgree, RescheduleChanges
<1>3. SnapshotStillTells'
  BY <1>0, <1>1 DEF SnapshotStillTells, CollParts, AcceptedIsRemembered
<1>4. RemovalPending' = RemovalPending /\ CurrentSchedule' = CurrentSchedule
  BY <1>1 DEF RemovalPending, CurrentSchedule
<1>5. EstablishedIsScheduled' /\ NoLeakedSlots'
  BY <1>0, <1>1, <1>4 DEF CollParts, EstablishedIsScheduled, NoLeakedSlots
<1>6. AcceptedIsRemembered'
  BY <1>0, <1>1 DEF CollParts, AcceptedIsRemembered
<1>7. SchedulesFitSnapshot'
  <2> SUFFICES ASSUME ~removed_flag, NEW el \in schedule.elements
               PROVE  /\ collection[el.id].status = "ESTABLISHED"
                      /\ el.params \in Carried(collection[el.id].params)
    BY <1>1 DEF SchedulesFitSnapshot, TakenFrom
  <2>1. ~RemovalPending /\ CurrentSchedule = schedule
    BY <1>1 DEF RemovalPending, CurrentSchedule
  <2>2. el.id \in Ids
    BY <1>0 DEF TypeOK, Schedule, ScheduleElement
  <2>3. collection[el.id].status = "ESTABLISHED"
    BY <1>0, <2>1 DEF CollParts, NoLeakedSlots
  <2>4. PICK other \in schedule.elements :
          other.id = el.id /\ other.params \in Carried(collection[el.id].params)
    BY <1>0, <2>1, <2>2, <2>3 DEF CollParts, EstablishedIsScheduled
  <2>5. other = el
    BY <1>0, <2>4 DEF OtherParts, ElementsUnique
  <2> QED
    BY <2>3, <2>4, <2>5
<1>8. OtherParts'
  BY <1>0, <1>1, <1>7 DEF OtherParts, ElementsUnique, OneAtATime, DistributionConsistent
<1> QED
  BY <1>0, <1>1, <1>2, <1>3, <1>5, <1>6, <1>8, QueuePartsFrame, IInvNextParts DEF CollParts

\* Within the window neither the statuses nor the flags of the streams move.
LEMMA WithinWindow ==
    ASSUME CollParts,
           UNCHANGED <<collection, removed_flag, added_flag, stream_snapshot, schedule>>,
           InWindow, InWindow', FlagsAgree'
    PROVE  CollParts'
<1>1. RemovalPending' = RemovalPending /\ CurrentSchedule' = CurrentSchedule
  BY DEF RemovalPending, CurrentSchedule, InWindow
<1>2. EstablishedIsScheduled' /\ NoLeakedSlots'
  BY <1>1 DEF CollParts, EstablishedIsScheduled, NoLeakedSlots
<1>3. SnapshotStillTells' /\ AcceptedIsRemembered'
  BY DEF CollParts, SnapshotStillTells, AcceptedIsRemembered
<1> QED
  BY <1>2, <1>3 DEF CollParts

\* Taking a copy of the topology keeps the invariant.
LEMMA UpdateGraphInv ==
    ASSUME IInv, TypeOK', UpdateGraph
    PROVE  IInv'
<1>0. CollParts /\ QueueParts /\ OtherParts
  BY IInvParts
<1> USE DEF UpdateGraph, collVars, sharedVars, downlinkVars
<1>1. InWindow /\ InWindow'
  BY DEF InWindow
<1>2. FlagsAgree'
  BY <1>0 DEF CollParts, FlagsAgree, RescheduleChanges, ScheduleChanged, StartOver
<1>3. CollParts'
  BY <1>0, <1>1, <1>2, WithinWindow
<1>4. OtherParts'
  BY <1>0, <1>1 DEF OtherParts, SchedulesFitSnapshot, TakenFrom, ElementsUnique, OneAtATime,
                    DistributionConsistent
<1> QED
  BY <1>0, <1>3, <1>4, QueuePartsFrame, IInvNextParts

\* The new schedule serves streams of the snapshot, each with its parameters.
LEMMA ComputeScheduleInv ==
    ASSUME IInv, TypeOK', ComputeSchedule
    PROVE  IInv'
<1>0. TypeOK /\ CollParts /\ QueueParts /\ OtherParts
  BY IInvParts
<1>1. /\ pc = "compute" /\ pc' = "tellTopology"
      /\ UNCHANGED <<collVars, topologyVars, forceReschedule, forceResend,
                     stream_snapshot, graph_changed, sharedVars, downlinkVars>>
  BY DEF ComputeSchedule
<1> USE DEF collVars, topologyVars, sharedVars, downlinkVars
<1>2. InWindow /\ InWindow'
  BY <1>1 DEF InWindow
<1>3. FlagsAgree'
  BY <1>0, <1>1 DEF CollParts, FlagsAgree, RescheduleChanges, ScheduleChanged, StartOver
<1>4. CollParts'
  BY <1>0, <1>1, <1>2, <1>3, WithinWindow
<1>5. \A el \in newSchedule'.elements : TakenFrom(el, Owners)
  <2>1. PICK est, acc, direct :
          /\ est \in SUBSET WithStatus(stream_snapshot.collection, "ESTABLISHED")
          /\ acc \in SUBSET WithStatus(stream_snapshot.collection, "ACCEPTED")
          /\ newSchedule' = [id |-> schedule.id + 1,
                             elements |-> ComputedElements(est, acc, direct)]
    BY DEF ComputeSchedule
  <2> SUFFICES ASSUME NEW el \in ComputedElements(est, acc, direct)
               PROVE  TakenFrom(el, Owners)
    BY <2>1
  <2>2. CASE el \in ElementsOf(stream_snapshot.collection, est, direct)
    BY <2>1, <2>2 DEF ElementsOf, TakenFrom, Carried, WithStatus, Owners
  <2>3. CASE el \in ElementsOf(stream_snapshot.collection, acc, direct)
    BY <2>1, <2>3 DEF ElementsOf, TakenFrom, Carried, WithStatus, Owners
  <2>4. CASE ~StartOver /\ el \in schedule.elements
    BY <1>0, <1>2, <2>4 DEF OtherParts, SchedulesFitSnapshot, StartOver, TakenFrom, Owners
  <2> QED
    BY <2>2, <2>3, <2>4 DEF ComputedElements
<1>6. ElementsUnique(newSchedule)'
  <2> DEFINE coll == stream_snapshot.collection
             Made(id, direct) == [id |-> id,
                                  params |-> IF id \in direct THEN Downgraded(coll[id].params)
                                             ELSE coll[id].params]
  <2>1. PICK est, acc, direct :
          /\ est \in SUBSET WithStatus(coll, "ESTABLISHED")
          /\ acc \in SUBSET WithStatus(coll, "ACCEPTED")
          /\ newSchedule' = [id |-> schedule.id + 1,
                             elements |-> ComputedElements(est, acc, direct)]
    BY DEF ComputeSchedule
  <2>2. ASSUME NEW el \in newSchedule'.elements
        PROVE  \/ el = Made(el.id, direct)
               \/ ~StartOver /\ el \in schedule.elements
    BY <2>1, <2>2 DEF ComputedElements, ElementsOf
  <2>3. ASSUME NEW el \in newSchedule'.elements, ~StartOver, coll[el.id].status = "ESTABLISHED"
        PROVE  el \in schedule.elements
    <3>1. \A e \in ElementsOf(coll, acc, direct) : coll[e.id].status = "ACCEPTED"
      BY <2>1 DEF ElementsOf, WithStatus
    <3> QED
      BY <2>1, <2>3, <3>1 DEF ComputedElements
  <2>4. ASSUME ~StartOver, NEW el \in schedule.elements
        PROVE  coll[el.id].status = "ESTABLISHED"
    BY <1>0, <1>2, <2>4 DEF OtherParts, SchedulesFitSnapshot, StartOver, TakenFrom
  <2> SUFFICES ASSUME NEW e1 \in newSchedule'.elements, NEW e2 \in newSchedule'.elements,
                      e1.id = e2.id
               PROVE  e1 = e2
    BY DEF ElementsUnique
  <2>5. CASE ~StartOver /\ (e1 \in schedule.elements \/ e2 \in schedule.elements)
    BY <1>0, <2>3, <2>4, <2>5 DEF OtherParts, ElementsUnique
  <2>6. CASE e1 = Made(e1.id, direct) /\ e2 = Made(e2.id, direct)
    <3> HIDE DEF Made
    <3> QED
      BY <2>6
  <2> QED
    BY <2>2, <2>5, <2>6
<1>7. SchedulesFitSnapshot'
  BY <1>0, <1>1, <1>2, <1>5 DEF OtherParts, SchedulesFitSnapshot, TakenFrom
<1>8. OtherParts'
  BY <1>0, <1>1, <1>6, <1>7 DEF OtherParts, ElementsUnique, OneAtATime,
                                DistributionConsistent
<1> QED
  BY <1>0, <1>1, <1>4, <1>8, QueuePartsFrame, IInvNextParts

\* Telling the topology the outcome keeps the invariant.
LEMMA TellTopologyInv ==
    ASSUME IInv, TypeOK', TellTopology
    PROVE  IInv'
<1>0. CollParts /\ QueueParts /\ OtherParts
  BY IInvParts
<1>1. /\ pc = "tellTopology" /\ pc' = "applyChanges"
      /\ UNCHANGED <<collVars, forceReschedule, forceResend, stream_snapshot, graph_changed,
                     newSchedule, sharedVars, downlinkVars>>
  BY <1>0 DEF TellTopology, CollParts, FlagsAgree, RescheduleChanges
<1> USE DEF collVars, sharedVars, downlinkVars
<1>2. InWindow /\ InWindow'
  BY <1>1 DEF InWindow
<1>3. FlagsAgree'
  BY <1>0, <1>1 DEF CollParts, FlagsAgree, RescheduleChanges
<1>4. CollParts'
  BY <1>0, <1>1, <1>2, <1>3, WithinWindow
<1>5. OtherParts'
  BY <1>0, <1>1, <1>2 DEF OtherParts, SchedulesFitSnapshot, TakenFrom, ElementsUnique,
                          OneAtATime, DistributionConsistent
<1> QED
  BY <1>0, <1>1, <1>4, <1>5, QueuePartsFrame, IInvNextParts

\* Applying the changes: what happened to a stream since the snapshot.
LEMMA ApplyOutcome ==
    ASSUME IInv, ApplyStreamChanges, NEW id \in Ids
    PROVE  LET scheduled == id \in ScheduledIds(newSchedule)
               then == stream_snapshot.collection[id]
           IN  /\ collection'[id].status \in Owners =>
                     /\ collection'[id].params = collection[id].params
                     /\ collection[id].status \in Owners
               /\ collection'[id].status = "ESTABLISHED" =>
                     /\ scheduled
                     /\ collection[id] = then \/ removed_flag
               /\ collection'[id].status = "ACCEPTED" =>
                     collection[id].status = "ACCEPTED" /\ then.status # "ACCEPTED"
               /\ scheduled /\ then.status \in Owners /\ collection[id] = then =>
                     collection'[id].status = "ESTABLISHED"
               /\ collection'[id].status = "LISTEN" <=> collection[id].status = "LISTEN"
<1>0. /\ TypeOK /\ CollParts
      /\ pc = "applyChanges" /\ InWindow
      /\ ApplyChanges(stream_snapshot.collection, ScheduledIds(newSchedule))
  BY IInvParts DEF ApplyStreamChanges, InWindow
<1>1. collection'[id] =
        ChangedEntry(id, stream_snapshot.collection, ScheduledIds(newSchedule))
  BY <1>0 DEF ApplyChanges
<1>2. /\ collection[id] \in MasterStreamInfo
      /\ stream_snapshot.collection[id] \in MasterStreamInfo
  BY <1>0 DEF TypeOK, CollTypeOK, Snapshot
<1>3. /\ collection[id].status = "ESTABLISHED" =>
            collection[id] = stream_snapshot.collection[id]
      /\ stream_snapshot.collection[id].status \in Owners =>
            collection[id] = stream_snapshot.collection[id] \/ removed_flag
  BY <1>0 DEF CollParts, SnapshotStillTells
<1> DEFINE now == collection[id]
           then == stream_snapshot.collection[id]
           scheduled == id \in ScheduledIds(newSchedule)
<1>4. CASE now.status = "ACCEPTED"
  <2>1. CASE then.status = "ACCEPTED" /\ scheduled
    <3>1. collection'[id] = [now EXCEPT !.status = "ESTABLISHED"]
      BY <1>1, <1>4, <2>1 DEF ChangedEntry, ToEstablish, ToReject, ToClose, WithStatus
    <3>2. /\ collection'[id].status = "ESTABLISHED"
          /\ collection'[id].params = now.params
      BY <1>2, <3>1 DEF MasterStreamInfo
    <3> QED
      BY <1>3, <1>4, <2>1, <3>2 DEF Owners
  <2>2. CASE then.status = "ACCEPTED" /\ ~scheduled
    <3>1. collection'[id] = NoEntry
      BY <1>1, <1>4, <2>2 DEF ChangedEntry, ToEstablish, ToReject, ToClose, WithStatus
    <3> QED
      BY <1>4, <2>2, <3>1 DEF NoEntry, Owners
  <2>3. CASE then.status # "ACCEPTED"
    <3>1. collection'[id] = now
      BY <1>1, <1>4, <2>3 DEF ChangedEntry, ToEstablish, ToReject, ToClose, WithStatus
    <3> QED
      BY <1>4, <2>3, <3>1 DEF Owners
  <2> QED
    BY <2>1, <2>2, <2>3
<1>5. CASE now.status = "ESTABLISHED"
  <2>1. CASE scheduled
    <3>1. collection'[id] = now
      BY <1>1, <1>5, <2>1 DEF ChangedEntry, ToEstablish, ToReject, ToClose, WithStatus
    <3> QED
      BY <1>3, <1>5, <2>1, <3>1 DEF Owners
  <2>2. CASE ~scheduled
    <3>1. collection'[id] = NoEntry
      BY <1>1, <1>3, <1>5, <2>2
         DEF ChangedEntry, ToEstablish, ToReject, ToClose, WithStatus
    <3> QED
      BY <1>5, <2>2, <3>1 DEF NoEntry, Owners
  <2> QED
    BY <2>1, <2>2
<1>6. CASE now.status \notin Owners
  <2>1. collection'[id] = now
    BY <1>1, <1>6 DEF ChangedEntry, Owners
  <2> QED
    BY <1>6, <2>1 DEF Owners
<1> QED
  BY <1>4, <1>5, <1>6 DEF Owners

\* The rejections leave the servers and their announcements alone.
LEMMA ApplyQueueParts ==
    ASSUME IInv, ApplyStreamChanges
    PROVE  QueueParts'
<1> DEFINE rejected == Rejected(stream_snapshot.collection, ScheduledIds(newSchedule))
<1>0. /\ TypeOK /\ QueueParts /\ CollTypeOK
      /\ ApplyChanges(stream_snapshot.collection, ScheduledIds(newSchedule))
  BY IInvParts DEF ApplyStreamChanges, TypeOK
<1>1. PICK order \in Seq(Ids) :
        /\ infoQueue' = RejectionsAdded(infoQueue, rejected, order)
        /\ order \in Orders({id \in rejected : ~HasKey(infoQueue, id)})
        /\ DOMAIN order = 1..Len(order)
  BY <1>0, ApplyQueue
<1>2. infoQueue \in Seq(Element(Ids, InfoType))
  BY <1>0 DEF CollTypeOK, Element
<1> HIDE DEF rejected
<1>4. /\ Len(infoQueue') = Len(infoQueue) + Len(order)
      /\ \A i \in 1..Len(infoQueue) :
            infoQueue'[i] = IF infoQueue[i].key \in rejected
                            THEN [key |-> infoQueue[i].key, val |-> "STREAM_REJECT"]
                            ELSE infoQueue[i]
      /\ \A i \in 1..Len(order) :
            infoQueue'[Len(infoQueue) + i] = [key |-> order[i], val |-> "STREAM_REJECT"]
  BY <1>1, <1>2, RejectionsAddedFacts
<1>5. \A i \in 1..Len(infoQueue') :
          infoQueue'[i].val \in {"SERVER_OPENED", "SERVER_CLOSED"} =>
              i \in 1..Len(infoQueue) /\ infoQueue'[i] = infoQueue[i]
  <2> SUFFICES ASSUME NEW i \in 1..Len(infoQueue'),
                      infoQueue'[i].val \in {"SERVER_OPENED", "SERVER_CLOSED"}
               PROVE  i \in 1..Len(infoQueue) /\ infoQueue'[i] = infoQueue[i]
    OBVIOUS
  <2>1. CASE i \in 1..Len(infoQueue)
    <3>1. CASE infoQueue[i].key \in rejected
      <4>1. infoQueue'[i] = [key |-> infoQueue[i].key, val |-> "STREAM_REJECT"]
        BY <1>4, <2>1, <3>1
      <4> QED
        BY <4>1
    <3>2. CASE infoQueue[i].key \notin rejected
      BY <1>4, <2>1, <3>2
    <3> QED
      BY <3>1, <3>2
  <2>2. CASE i \notin 1..Len(infoQueue)
    <3>1. Len(infoQueue) \in Nat /\ Len(order) \in Nat /\ i \in 1..(Len(infoQueue) + Len(order))
      BY <1>1, <1>2, <1>4
    <3>2. PICK j \in 1..Len(order) : i = Len(infoQueue) + j
      <4>1. i - Len(infoQueue) \in 1..Len(order) /\ i = Len(infoQueue) + (i - Len(infoQueue))
        BY <2>2, <3>1
      <4> QED
        BY <4>1
    <3>3. infoQueue'[i] = [key |-> order[j], val |-> "STREAM_REJECT"]
      BY <1>4, <3>2
    <3> QED
      BY <3>3
  <2> QED
    BY <2>1, <2>2
<1>6. \A id \in Ids :
          /\ collection'[id].status \in Owners => collection[id].status \in Owners
          /\ collection'[id].status = "LISTEN" <=> collection[id].status = "LISTEN"
  BY ApplyOutcome
<1>7. KindsKept'
  <2>1. \A id \in Ids :
            /\ IsServer(id) => collection'[id].status \notin Owners
            /\ IsStream(id) => collection'[id].status # "LISTEN"
    <3> SUFFICES ASSUME NEW id \in Ids
                 PROVE  /\ IsServer(id) => collection'[id].status \notin Owners
                        /\ IsStream(id) => collection'[id].status # "LISTEN"
      OBVIOUS
    <3>1. /\ IsServer(id) => collection[id].status \notin Owners
          /\ IsStream(id) => collection[id].status # "LISTEN"
      BY <1>0 DEF QueueParts, KindsKept
    <3> QED
      BY <1>6, <3>1
  <2>2. \A i \in 1..Len(infoQueue') :
            infoQueue'[i].val \in {"SERVER_OPENED", "SERVER_CLOSED"} =>
                IsServer(infoQueue'[i].key)
    BY <1>0, <1>5 DEF QueueParts, KindsKept
  <2> QED
    BY <2>1, <2>2 DEF KindsKept
<1>8. ServerAnnouncementsAgree'
  <2>1. \A id \in Ids : IsServer(id) => Present(id)' = Present(id)
    <3> SUFFICES ASSUME NEW id \in Ids, IsServer(id) PROVE Present(id)' = Present(id)
      OBVIOUS
    <3>1. collection[id].status \notin Owners /\ collection'[id].status \notin Owners
      BY <1>0, <1>7 DEF QueueParts, KindsKept
    <3>2. CollTypeOK'
      BY <1>0, ApplyType
    <3>3. /\ collection[id] \in MasterStreamInfo
          /\ collection'[id] \in MasterStreamInfo
      BY <1>0, <3>2 DEF CollTypeOK
    <3>4. /\ collection[id].status \in {"ABSENT", "LISTEN"}
          /\ collection'[id].status \in {"ABSENT", "LISTEN"}
      BY <3>1, <3>3 DEF MasterStreamInfo, MasterStreamStatus, Owners
    <3> QED
      BY <1>6, <3>4 DEF Present
  <2> QED
    BY <1>0, <1>5, <2>1, QueueKeys DEF QueueParts, KindsKept, ServerAnnouncementsAgree
<1> QED
  BY <1>7, <1>8 DEF QueueParts

\* The window closes: the statuses refer to the schedule to be published.
LEMMA ApplyStreamChangesInv ==
    ASSUME IInv, TypeOK', ApplyStreamChanges
    PROVE  IInv'
<1>0. TypeOK /\ CollParts /\ QueueParts /\ OtherParts
  BY IInvParts
<1>1. /\ pc = "applyChanges" /\ pc' = "publish" /\ InWindow /\ ~InWindow'
      /\ UNCHANGED <<modified_flag, removed_flag, added_flag, topologyVars,
                     forceReschedule, forceResend, stream_snapshot, graph_changed,
                     newSchedule, sharedVars, downlinkVars>>
      /\ removed_flag \in BOOLEAN
  BY <1>0 DEF ApplyStreamChanges, ApplyChanges, InWindow, TypeOK, CollTypeOK
<1> USE DEF topologyVars, sharedVars, downlinkVars
<1>2. FlagsAgree'
  BY <1>0, <1>1 DEF CollParts, FlagsAgree, RescheduleChanges
<1>3. SnapshotStillTells'
  BY <1>1 DEF SnapshotStillTells
<1>4. RemovalPending' = removed_flag /\ CurrentSchedule' = newSchedule
  BY <1>1 DEF RemovalPending, CurrentSchedule
<1>5. \A el \in newSchedule.elements : TakenFrom(el, Owners) /\ el.id \in Ids
  BY <1>0, <1>1 DEF OtherParts, SchedulesFitSnapshot, TypeOK, Schedule, ScheduleElement
<1>6. EstablishedIsScheduled'
  <2> SUFFICES ASSUME NEW id \in Ids, collection'[id].status = "ESTABLISHED"
               PROVE  \E el \in newSchedule.elements :
                         /\ el.id = id
                         /\ el.params \in Carried(collection'[id].params) \/ removed_flag
    BY <1>4 DEF EstablishedIsScheduled
  <2>1. /\ id \in ScheduledIds(newSchedule)
        /\ collection'[id].params = collection[id].params
        /\ collection[id] = stream_snapshot.collection[id] \/ removed_flag
    BY ApplyOutcome DEF Owners
  <2>2. PICK el \in newSchedule.elements : el.id = id
    BY <2>1 DEF ScheduledIds
  <2> QED
    BY <1>5, <2>1, <2>2 DEF TakenFrom
<1>7. NoLeakedSlots'
  <2> SUFFICES ASSUME NEW el \in newSchedule.elements, ~removed_flag
               PROVE  collection'[el.id].status = "ESTABLISHED"
    BY <1>4 DEF NoLeakedSlots
  <2>1. /\ el.id \in Ids
        /\ el.id \in ScheduledIds(newSchedule)
        /\ stream_snapshot.collection[el.id].status \in Owners
    BY <1>5 DEF TakenFrom, ScheduledIds
  <2>2. collection[el.id] = stream_snapshot.collection[el.id]
    BY <1>0, <1>1, <2>1 DEF CollParts, SnapshotStillTells
  <2> QED
    BY <2>1, <2>2, ApplyOutcome
<1>8. AcceptedIsRemembered'
  <2> SUFFICES ASSUME NEW id \in Ids, collection'[id].status = "ACCEPTED"
               PROVE  added_flag
    BY <1>1 DEF AcceptedIsRemembered
  <2>1. /\ collection[id].status = "ACCEPTED"
        /\ stream_snapshot.collection[id].status # "ACCEPTED"
    BY ApplyOutcome
  <2> QED
    BY <1>0, <2>1 DEF CollParts, AcceptedIsRemembered
<1>9. OtherParts'
  BY <1>0, <1>1 DEF OtherParts, SchedulesFitSnapshot, TakenFrom, ElementsUnique, OneAtATime,
                    DistributionConsistent
<1> QED
  BY <1>2, <1>3, <1>6, <1>7, <1>8, <1>9, ApplyQueueParts, IInvNextParts DEF CollParts

\* The statuses refer to the schedule published.
LEMMA PublishInv ==
    ASSUME IInv, TypeOK', Publish
    PROVE  IInv'
<1>0. CollParts /\ QueueParts /\ OtherParts
  BY IInvParts
<1> USE DEF Publish, EndRound, collVars, topologyVars, downlinkVars
<1>1. ~InWindow /\ ~InWindow'
  BY DEF InWindow
<1>2. RemovalPending' = RemovalPending /\ CurrentSchedule' = CurrentSchedule
  BY <1>1 DEF RemovalPending, CurrentSchedule
<1>3. FlagsAgree' /\ SnapshotStillTells'
  BY <1>0, <1>1 DEF CollParts, FlagsAgree, RescheduleChanges, SnapshotStillTells
<1>4. EstablishedIsScheduled' /\ NoLeakedSlots' /\ AcceptedIsRemembered'
  BY <1>0, <1>1, <1>2 DEF CollParts, EstablishedIsScheduled, NoLeakedSlots,
                          AcceptedIsRemembered
<1>5. ~scheduleNotApplied /\ status = "APPLIED_SCHEDULE"
  BY <1>0 DEF OtherParts, OneAtATime, DistributionConsistent
<1>6. OtherParts'
  BY <1>0, <1>1, <1>5 DEF OtherParts, SchedulesFitSnapshot, ElementsUnique, EmptySchedule,
                          OneAtATime, DistributionConsistent
<1> QED
  BY <1>0, <1>3, <1>4, <1>6, QueuePartsFrame, IInvNextParts DEF CollParts

\* Answering a resend request keeps the invariant.
LEMMA ResendInv ==
    ASSUME IInv, TypeOK', Resend
    PROVE  IInv'
<1>0. CollParts /\ QueueParts /\ OtherParts
  BY IInvParts
<1> USE DEF Resend, EndRound, collVars, topologyVars, downlinkVars
<1>1. ~InWindow /\ ~InWindow'
  BY DEF InWindow
<1>2. FlagsAgree'
  BY <1>0 DEF CollParts, FlagsAgree, RescheduleChanges
<1>3. CollParts'
  BY <1>0, <1>2, OutsideWindow
<1>4. ~scheduleNotApplied /\ status = "APPLIED_SCHEDULE"
  BY <1>0 DEF OtherParts, OneAtATime, DistributionConsistent
<1>5. OtherParts'
  BY <1>0, <1>1, <1>4 DEF OtherParts, SchedulesFitSnapshot, ElementsUnique, EmptySchedule,
                          OneAtATime, DistributionConsistent
<1> QED
  BY <1>0, <1>3, <1>5, QueuePartsFrame, IInvNextParts

-----------------------------------------------------------------------------
(***************************************************************************)
(* The downlink phase and the topology.                                    *)
(***************************************************************************)

\* Starting to distribute a schedule keeps the invariant.
LEMMA StartSendingInv ==
    ASSUME IInv, TypeOK', StartSending
    PROVE  IInv'
<1>0. CollParts /\ QueueParts /\ OtherParts
  BY IInvParts
<1>1. UNCHANGED <<collection, infoQueue, modified_flag, removed_flag, added_flag,
                  topologyModified, schedulerVars, sharedVars>>
  BY DEF StartSending, collVars, topologyVars
<1>2. CollParts' /\ QueueParts'
  BY <1>0, <1>1, CollPartsFrame, QueuePartsFrame DEF sharedVars
<1>3. OtherParts'
  BY <1>0, <1>1 DEF StartSending, schedulerVars, sharedVars, OtherParts,
         SchedulesFitSnapshot, InWindow, TakenFrom, ElementsUnique, OneAtATime,
         DistributionConsistent
<1> QED
  BY <1>2, <1>3, IInvNextParts

\* Sending a packet takes info elements and nothing else.
LEMMA SendPacketInv ==
    ASSUME IInv, TypeOK', NEW num \in InfoPerPacket,
           SendSchedulePacket(num) \/ SendInfoPacket(num)
    PROVE  IInv'
<1>0. TypeOK /\ CollParts /\ QueueParts /\ OtherParts
  BY IInvParts
<1>1. /\ DequeueInfo(num)
      /\ UNCHANGED <<collection, modified_flag, removed_flag, added_flag, topologyModified,
                     schedulerVars, sharedVars, sending, applied>>
      /\ status' # "APPLIED_SCHEDULE" => status # "APPLIED_SCHEDULE"
  BY DEF SendSchedulePacket, SendInfoPacket, DequeueInfo, topologyVars, downlinkVars
<1>2. CollParts'
  BY <1>0, <1>1, CollPartsFrame DEF sharedVars
<1>3. OtherParts'
  BY <1>0, <1>1 DEF schedulerVars, sharedVars, OtherParts, SchedulesFitSnapshot, InWindow,
         TakenFrom, ElementsUnique, OneAtATime, DistributionConsistent
<1> QED
  BY <1>0, <1>1, <1>2, <1>3, DequeueQueueParts, IInvNextParts

\* Waiting for the activation tile keeps the invariant.
LEMMA AwaitActivationInv ==
    ASSUME IInv, TypeOK', AwaitActivation
    PROVE  IInv'
<1>0. CollParts /\ QueueParts /\ OtherParts
  BY IInvParts
<1>1. UNCHANGED <<collection, infoQueue, modified_flag, removed_flag, added_flag,
                  topologyModified, schedulerVars, sharedVars>>
  BY DEF AwaitActivation, collVars, topologyVars
<1>2. CollParts' /\ QueueParts'
  BY <1>0, <1>1, CollPartsFrame, QueuePartsFrame DEF sharedVars
<1>3. OtherParts'
  BY <1>0, <1>1 DEF AwaitActivation, schedulerVars, sharedVars, OtherParts,
         SchedulesFitSnapshot, InWindow, TakenFrom, ElementsUnique, OneAtATime,
         DistributionConsistent
<1> QED
  BY <1>2, <1>3, IInvNextParts

\* Changing to the new schedule keeps the invariant.
LEMMA ApplyScheduleInv ==
    ASSUME IInv, TypeOK', ApplySchedule
    PROVE  IInv'
<1>0. CollParts /\ QueueParts /\ OtherParts
  BY IInvParts
<1>1. UNCHANGED <<collection, infoQueue, modified_flag, removed_flag, added_flag,
                  topologyModified, schedulerVars, schedule>>
  BY DEF ApplySchedule, collVars, topologyVars
<1>2. CollParts' /\ QueueParts'
  BY <1>0, <1>1, CollPartsFrame, QueuePartsFrame
<1>3. OtherParts'
  BY <1>0, <1>1 DEF ApplySchedule, schedulerVars, OtherParts, SchedulesFitSnapshot, InWindow,
         TakenFrom, ElementsUnique, OneAtATime, DistributionConsistent
<1> QED
  BY <1>2, <1>3, IInvNextParts

\* A topology received from a node keeps the invariant.
LEMMA TopologyChangeInv ==
    ASSUME IInv, TypeOK', TopologyChange
    PROVE  IInv'
<1>0. TypeOK /\ CollParts /\ QueueParts /\ OtherParts
  BY IInvParts
<1>1. UNCHANGED <<collection, infoQueue, modified_flag, removed_flag, added_flag,
                  schedulerVars, sharedVars, downlinkVars>>
  BY DEF TopologyChange, collVars
<1>2. /\ topologyModified => topologyModified'
      /\ pc \in {"compute", "tellTopology"} => topologyModified' = topologyModified
  BY DEF TopologyChange, ScheduleInProgress
<1> USE DEF schedulerVars, sharedVars, downlinkVars
<1>3. FlagsAgree'
  BY <1>0, <1>1, <1>2 DEF CollParts, FlagsAgree, RescheduleChanges, ScheduleChanged, StartOver
<1>4. CollParts'
  BY <1>0, <1>1, <1>3 DEF CollParts, SnapshotStillTells, EstablishedIsScheduled,
         NoLeakedSlots, AcceptedIsRemembered, InWindow, RemovalPending, CurrentSchedule
<1> QED
  BY <1>0, <1>1, <1>4, QueuePartsFrame, OtherPartsFrame, IInvNextParts

-----------------------------------------------------------------------------
(***************************************************************************)
(* The theorems.                                                           *)
(***************************************************************************)
\* The invariant holds in every reachable state, for all ids and parameters
\* and however the scheduler thread and the MAC thread interleave.
THEOREM Inductive == Spec => []IInv
<1>1. Init => IInv
  <2> SUFFICES ASSUME Init PROVE IInv
    OBVIOUS
  <2>1. TypeOK
    BY InitTypes
  <2>2. CollParts
    BY DEF Init, CollInit, CollParts, FlagsAgree, RescheduleChanges, SnapshotStillTells,
           EstablishedIsScheduled, NoLeakedSlots, AcceptedIsRemembered, InWindow,
           CurrentSchedule, EmptySchedule, NoEntry
  <2>3. QueueParts
    BY DEF Init, CollInit, QueueParts, KindsKept, ServerAnnouncementsAgree, NoEntry,
           Owners, EmptyQueue
  <2>4. OtherParts
    BY DEF Init, OtherParts, SchedulesFitSnapshot, ElementsUnique, OneAtATime,
           DistributionConsistent, EmptySchedule, InWindow
  <2> QED
    BY <2>1, <2>2, <2>3, <2>4, IInvParts
<1>2. IInv /\ TypeOK' /\ [Next]_vars => IInv'
  <2> SUFFICES ASSUME IInv, TypeOK', [Next]_vars PROVE IInv'
    OBVIOUS
  <2>1. CASE UNCHANGED vars
    <3>1. /\ UNCHANGED <<collection, infoQueue, modified_flag, removed_flag, added_flag,
                         topologyModified, schedulerVars, schedule>>
          /\ UNCHANGED <<schedulerVars, sharedVars, downlinkVars>>
      BY <2>1 DEF vars, collVars, topologyVars, sharedVars
    <3> QED
      BY <3>1, IInvParts, CollPartsFrame, QueuePartsFrame, OtherPartsFrame, IInvNextParts
  <2> QED
    BY <2>1, WakeInv, CheckTopologyInv, CheckOperationInv, TakeSnapshotInv, UpdateGraphInv,
       ComputeScheduleInv, TellTopologyInv, ApplyStreamChangesInv, PublishInv, ResendInv,
       StartSendingInv, SendPacketInv, AwaitActivationInv, ApplyScheduleInv, UplinkInv,
       TopologyChangeInv
       DEF Next, Scheduler, Downlink
<1> QED
  BY <1>1, <1>2, TypeCorrect, PTL DEF Spec

\* An established stream owns slots in the schedule the statuses refer to, with
\* its parameters but for a redundancy downgraded for a single hop, or the next
\* round starts over.
THEOREM EstablishedTheorem == Spec => []EstablishedIsScheduled
<1>1. IInv => EstablishedIsScheduled
  BY DEF IInv
<1> QED
  BY <1>1, Inductive, PTL

\* Slots belong to established streams, or are about to be given back.
THEOREM NoLeakTheorem == Spec => []NoLeakedSlots
<1>1. IInv => NoLeakedSlots
  BY DEF IInv
<1> QED
  BY <1>1, Inductive, PTL

\* No accepted request is forgotten, even if it comes during a computation.
THEOREM AcceptedTheorem == Spec => []AcceptedIsRemembered
<1>1. IInv => AcceptedIsRemembered
  BY DEF IInv
<1> QED
  BY <1>1, Inductive, PTL

\* No stream is given slots twice.
THEOREM NoDoubleTheorem == Spec => []NoDoubleAllocation
<1>1. IInv => NoDoubleAllocation
  <2> SUFFICES ASSUME IInv PROVE NoDoubleAllocation
    OBVIOUS
  <2>1. ASSUME pc = "compute", ~StartOver, NEW el \in schedule.elements
        PROVE  stream_snapshot.collection[el.id].status # "ACCEPTED"
    BY <2>1 DEF IInv, SchedulesFitSnapshot, TakenFrom, InWindow, StartOver
  <2> QED
    BY <2>1 DEF IInv, NoDoubleAllocation, WithStatus, ScheduledIds
<1> QED
  BY <1>1, Inductive, PTL

\* A reschedule always ends in a schedule to be sent: no resend request that
\* its snapshot swallowed is lost.
THEOREM RescheduleTheorem == Spec => []RescheduleChanges
<1>1. IInv => RescheduleChanges
  BY DEF IInv, FlagsAgree
<1> QED
  BY <1>1, Inductive, PTL

\* The threads agree on the schedule that is distributed and on the one in use.
THEOREM DistributionTheorem == Spec => []DistributionConsistent
<1>1. IInv => DistributionConsistent
  BY DEF IInv
<1> QED
  BY <1>1, Inductive, PTL

\* The announcements queued for the servers agree with the collection.
THEOREM AnnouncementsTheorem == Spec => []ServerAnnouncementsAgree
<1>1. IInv => ServerAnnouncementsAgree
  BY DEF IInv
<1> QED
  BY <1>1, Inductive, PTL

\* A schedule is never replaced while it is being distributed.
THEOREM HeldTheorem == Spec => ScheduleHeldWhileSent
<1>1. IInv /\ [Next]_vars =>
        [scheduleNotApplied /\ scheduleNotApplied' => schedule' = schedule]_vars
  <2> SUFFICES ASSUME IInv, Next, scheduleNotApplied PROVE schedule' = schedule
    OBVIOUS
  <2>1. CASE Publish
    BY <2>1 DEF Publish, IInv, OneAtATime
  <2>2. CASE UNCHANGED schedule
    BY <2>2
  <2>3. Publish \/ UNCHANGED schedule
    BY DEF Next, Scheduler, Downlink, Wake, CheckTopology, CheckOperation, TakeSnapshot,
           UpdateGraph, ComputeSchedule, TellTopology, ApplyStreamChanges, Resend,
           StartSending, SendSchedulePacket, SendInfoPacket, AwaitActivation, ApplySchedule,
           Uplink, TopologyChange, sharedVars
  <2> QED
    BY <2>1, <2>2, <2>3
<1> QED
  BY <1>1, Inductive, PTL DEF Spec, ScheduleHeldWhileSent

\* Every stream rejected when the changes are applied has its element queued.
LEMMA RejectedAreTold ==
    ASSUME TypeOK, ApplyStreamChanges,
           NEW id \in Rejected(stream_snapshot.collection, ScheduledIds(newSchedule))
    PROVE  \E i \in 1..Len(infoQueue') :
              infoQueue'[i] = [key |-> id, val |-> "STREAM_REJECT"]
<1> DEFINE rejected == Rejected(stream_snapshot.collection, ScheduledIds(newSchedule))
           fresh == {r \in rejected : ~HasKey(infoQueue, r)}
<1>1. PICK order \in Seq(Ids) :
        /\ infoQueue' = RejectionsAdded(infoQueue, rejected, order)
        /\ order \in Orders(fresh)
        /\ DOMAIN order = 1..Len(order)
  BY ApplyQueue DEF ApplyStreamChanges, TypeOK
<1>2. infoQueue \in Seq(Element(Ids, InfoType)) /\ id \in rejected
  BY DEF TypeOK, CollTypeOK, Element
<1>3. CASE id \in fresh
  <2>1. PICK n \in 1..Len(order) : order[n] = id
    BY <1>1, <1>3 DEF Orders
  <2> HIDE DEF rejected, fresh
  <2>2. /\ Len(infoQueue') = Len(infoQueue) + Len(order)
        /\ infoQueue'[Len(infoQueue) + n] = [key |-> id, val |-> "STREAM_REJECT"]
    BY <1>1, <1>2, <2>1, RejectionsAddedFacts
  <2>3. Len(infoQueue) + n \in 1..Len(infoQueue')
    BY <1>1, <1>2, <2>1, <2>2
  <2> QED
    BY <2>2, <2>3
<1>4. CASE id \notin fresh
  <2>1. PICK n \in 1..Len(infoQueue) : infoQueue[n].key = id
    BY <1>2, <1>4 DEF HasKey
  <2> HIDE DEF rejected, fresh
  <2>2. /\ Len(infoQueue') = Len(infoQueue) + Len(order)
        /\ infoQueue'[n] = [key |-> id, val |-> "STREAM_REJECT"]
    BY <1>1, <1>2, <2>1, RejectionsAddedFacts
  <2>3. n \in 1..Len(infoQueue')
    BY <1>1, <1>2, <2>1, <2>2
  <2> QED
    BY <2>2, <2>3
<1> QED
  BY <1>3, <1>4

\* A stream the master drops learns it, whichever step drops it: no CLOSED but
\* its own erases it, and the round that does has its rejection queued, or
\* publishes a schedule without it.
THEOREM DropTheorem == Spec => DropIsAnnounced
<1> DEFINE Announced(id) ==
        \/ ClosedByItsNode(id)
        \/ /\ pc = "applyChanges" /\ pc' = "publish"
           /\ collection[id].status = "ACCEPTED"
           /\ [key |-> id, val |-> "STREAM_REJECT"]
                  \in {infoQueue'[i] : i \in 1..Len(infoQueue')}
        \/ /\ pc = "applyChanges" /\ pc' = "publish"
           /\ collection[id].status = "ESTABLISHED"
           /\ id \notin ScheduledIds(newSchedule')
<1>1. IInv /\ [Next]_vars =>
        [\A id \in Streams : Present(id) /\ collection'[id].status = "ABSENT" =>
            Announced(id)]_vars
  <2> SUFFICES ASSUME IInv, Next, NEW id \in Streams, Present(id),
                      collection'[id].status = "ABSENT"
               PROVE  Announced(id)
    OBVIOUS
  <2> HIDE DEF Announced
  <2>0. TypeOK /\ CollParts /\ QueueParts /\ id \in Ids /\ ~IsServer(id)
    BY IInvParts DEF Streams
  <2>1. ASSUME NEW sme \in NodeSMEs, Uplink(sme) PROVE Announced(id)
    <3>1. ReceiveSME(sme) /\ CollTypeOK /\ KindsKept /\ sme.id \in Ids
      BY <2>0, <2>1 DEF Uplink, TypeOK, QueueParts, NodeSMEs, SME
    <3>2. CASE EraseStream(sme.id) /\ sme.type = "CLOSED"
      <4>1. CASE sme.id = id
        <5>1. \A other \in Ids \ {id} : collection'[other] = collection[other]
          BY <2>0, <3>1, <3>2, <4>1 DEF EraseStream, CollTypeOK
        <5> QED
          BY <2>1, <3>2, <4>1, <5>1 DEF ClosedByItsNode, Announced
      <4>2. CASE sme.id # id
        <5>1. collection'[id] = collection[id]
          BY <2>0, <3>1, <3>2, <4>2 DEF EraseStream, CollTypeOK
        <5> QED
          BY <5>1 DEF Present
      <4> QED
        BY <4>1, <4>2
    <3>3. CASE UNCHANGED collection
      BY <3>3 DEF Present
    <3>4. CASE AcceptStream(sme)
      <4>1. collection' = [collection EXCEPT ![sme.id] = Accepted(sme)]
        BY <3>4 DEF AcceptStream
      <4>2. collection'[id] \in {collection[id], Accepted(sme)}
        BY <2>0, <3>1, <4>1 DEF CollTypeOK
      <4> QED
        BY <4>2 DEF Present, Accepted
    <3>5. CASE ServerStep(sme.id)
      <4>1. sme.id # id
        BY <2>0, <3>5 DEF ServerStep
      <4>2. collection'[id] = collection[id]
        BY <2>0, <3>1, <3>5, <4>1 DEF CollTypeOK, ServerStep
      <4> QED
        BY <4>2 DEF Present
    <3> QED
      BY <3>1, <3>2, <3>3, <3>4, <3>5, ReceiveEffects DEF RejectRequest
  <2>2. CASE ApplyStreamChanges
    <3>0. pc = "applyChanges" /\ pc' = "publish" /\ newSchedule' = newSchedule
      BY <2>2 DEF ApplyStreamChanges
    <3>1. collection'[id] =
            ChangedEntry(id, stream_snapshot.collection, ScheduledIds(newSchedule))
      BY <2>0, <2>2 DEF ApplyStreamChanges, ApplyChanges
    <3>2. CASE id \in Rejected(stream_snapshot.collection, ScheduledIds(newSchedule))
      <4>1. collection[id].status = "ACCEPTED"
        BY <3>2 DEF Rejected, WithStatus
      <4>2. PICK i \in 1..Len(infoQueue') :
              infoQueue'[i] = [key |-> id, val |-> "STREAM_REJECT"]
        BY <2>0, <2>2, <3>2, RejectedAreTold
      <4> QED
        BY <3>0, <4>1, <4>2 DEF Announced
    <3>3. CASE /\ collection[id].status = "ESTABLISHED"
               /\ id \notin ScheduledIds(newSchedule)
      BY <3>0, <3>3 DEF Announced
    <3>4. CASE /\ id \notin Rejected(stream_snapshot.collection, ScheduledIds(newSchedule))
               /\ ~(/\ collection[id].status = "ESTABLISHED"
                    /\ id \notin ScheduledIds(newSchedule))
      <4>1. collection[id] \in MasterStreamInfo
        BY <2>0 DEF TypeOK, CollTypeOK
      <4>2. collection'[id] \in {collection[id], [collection[id] EXCEPT !.status = "ESTABLISHED"]}
        BY <2>0, <3>1, <3>4
           DEF ChangedEntry, Rejected, ToReject, ToEstablish, ToClose, WithStatus
      <4> QED
        BY <4>1, <4>2 DEF Present, MasterStreamInfo
    <3> QED
      BY <3>2, <3>3, <3>4
  <2>3. CASE UNCHANGED collection
    BY <2>3 DEF Present
  <2>4. \/ UNCHANGED collection
        \/ ApplyStreamChanges
        \/ \E sme \in NodeSMEs : Uplink(sme)
    BY DEF Next, Scheduler, Downlink, Wake, CheckTopology, CheckOperation, GetOperation,
           TakeSnapshot, GetSnapshot, UpdateGraph, ComputeSchedule, TellTopology, Publish,
           Resend, StartSending, SendSchedulePacket, SendInfoPacket, DequeueInfo,
           AwaitActivation, ApplySchedule, TopologyChange, collVars
  <2> QED
    BY <2>1, <2>2, <2>3, <2>4
<1> QED
  BY <1>1, Inductive, PTL DEF Spec, DropIsAnnounced
-----------------------------------------------------------------------------
(***************************************************************************)
(* The refinement.                                                         *)
(***************************************************************************)
\* Outside a round that took its snapshot, only the removed flag is owed for.
LEMMA OwedOutside == ASSUME ~InWindow PROVE RemovalPending <=> removed_flag
  BY DEF RemovalPending

\* The statuses of the service.
LEMMA PhaseType == \A st : PhaseOf(st) \in {"none", "pending", "granted"}
  BY DEF PhaseOf

-----------------------------------------------------------------------------
(***************************************************************************)
(* The invariant the refinement rests on.                                  *)
(***************************************************************************)
\* The snapshot is a copy of the collection, in which servers own no slots, and
\* the number of a schedule is set when it is computed.
THEOREM ServiceInvariant == Spec => []ServiceInv
<1>1. Init => SnapshotKinds /\ NumberFollows
  BY DEF Init, SnapshotKinds, NumberFollows, EmptySnapshot, NoEntry, Owners
<1>2. IInv /\ SnapshotKinds /\ NumberFollows /\ [Next]_vars => SnapshotKinds' /\ NumberFollows'
  <2> SUFFICES ASSUME IInv, SnapshotKinds, NumberFollows, [Next]_vars
               PROVE  SnapshotKinds' /\ NumberFollows'
    OBVIOUS
  <2>1. CASE TakeSnapshot
    BY <2>1 DEF TakeSnapshot, SnapshotKinds, NumberFollows, IInv, KindsKept
  <2>2. CASE ComputeSchedule
    BY <2>2 DEF ComputeSchedule, SnapshotKinds, NumberFollows, sharedVars
  <2>3. CASE Publish \/ Resend
    BY <2>3 DEF Publish, Resend, EndRound, SnapshotKinds, NumberFollows, EmptySnapshot,
                NoEntry, Owners
  <2>4. CASE /\ UNCHANGED <<stream_snapshot, newSchedule, schedule>>
             /\ \/ pc' = pc
                \/ pc' \notin {"tellTopology", "applyChanges", "publish"}
                \/ pc \in {"tellTopology", "applyChanges"}
    BY <2>4 DEF SnapshotKinds, NumberFollows
  <2>5. \/ TakeSnapshot \/ ComputeSchedule \/ Publish \/ Resend
        \/ /\ UNCHANGED <<stream_snapshot, newSchedule, schedule>>
           /\ \/ pc' = pc
              \/ pc' \notin {"tellTopology", "applyChanges", "publish"}
              \/ pc \in {"tellTopology", "applyChanges"}
    BY DEF Next, Scheduler, Downlink, Wake, CheckTopology, CheckOperation, UpdateGraph,
           TellTopology, ApplyStreamChanges, StartSending, SendSchedulePacket,
           SendInfoPacket, AwaitActivation, ApplySchedule, Uplink, TopologyChange, vars,
           schedulerVars, sharedVars
  <2> QED
    BY <2>1, <2>2, <2>3, <2>4, <2>5
<1> QED
  BY <1>1, <1>2, Inductive, PTL DEF Spec, ServiceInv

-----------------------------------------------------------------------------
(***************************************************************************)
(* The steps.                                                              *)
(***************************************************************************)
\* What the service's variables depend on: with these alone unchanged, and the
\* debt of removed streams, a step stutters.
LEMMA StutterFrame ==
    ASSUME UNCHANGED <<collection, schedule, applied, heldBar, RemovalPending>>,
           pc # "publish", pc' # "publish"
    PROVE  UNCHANGED Service!vars
  BY DEF Service!vars, requestBar, PlanOf, CurrentSchedule, ScheduledIds

\* Delivering an SME asks for a stream, releases one, or changes nothing a
\* client sees.
LEMMA UplinkStep ==
    ASSUME IInv, NEW sme \in NodeSMEs, Uplink(sme)
    PROVE  [Service!Next]_Service!vars
<1>0. /\ CollTypeOK /\ KindsKept
      /\ sme.id \in Ids
      /\ ReceiveSME(sme)
      /\ UNCHANGED <<schedulerVars, sharedVars, downlinkVars>>
  BY DEF IInv, TypeOK, Uplink, NodeSMEs, SME
<1>1. UNCHANGED <<PlanOf(CurrentSchedule), heldBar, PlanOf(applied)>>
  BY <1>0 DEF PlanOf, CurrentSchedule, ScheduledIds, heldBar, schedulerVars, sharedVars,
              downlinkVars
<1>2. (InWindow /\ stream_snapshot.removed)' = (InWindow /\ stream_snapshot.removed)
  BY <1>0 DEF InWindow, schedulerVars
<1>3. CASE UNCHANGED <<collection, infoQueue, modified_flag, removed_flag, added_flag>>
  BY <1>1, <1>2, <1>3 DEF Service!vars, requestBar, RemovalPending
<1>4. CASE IsStream(sme.id) /\ Present(sme.id) /\ EraseStream(sme.id)
  <2>1. sme.id \in Streams /\ collection[sme.id].status \in Owners
    BY <1>0, <1>4 DEF Streams, Present, KindsKept, CollTypeOK, MasterStreamInfo,
                      MasterStreamStatus, Owners
  <2>2. requestBar[sme.id] # "none"
    BY <2>1 DEF requestBar, PhaseOf, Owners
  <2>3. requestBar' = [requestBar EXCEPT ![sme.id] = "none"]
    BY <1>0, <1>4 DEF EraseStream, CollTypeOK, requestBar, PhaseOf, NoEntry, Streams
  <2>4. RemovalPending' = TRUE
    BY <1>4 DEF EraseStream, RemovalPending
  <2>5. Service!Release(sme.id)
    BY <1>1, <2>2, <2>3, <2>4 DEF Service!Release
  <2> QED
    BY <2>1, <2>5 DEF Service!Next
<1>5. CASE IsStream(sme.id) /\ ~Present(sme.id) /\ AcceptStream(sme)
  <2>1. sme.id \in Streams /\ requestBar[sme.id] = "none"
    BY <1>0, <1>5 DEF Streams, Present, requestBar, PhaseOf
  <2>2. requestBar' = [requestBar EXCEPT ![sme.id] = "pending"]
    BY <1>0, <1>5 DEF AcceptStream, Accepted, CollTypeOK, requestBar, PhaseOf, Streams
  <2>3. UNCHANGED RemovalPending
    BY <1>2, <1>5 DEF AcceptStream, RemovalPending
  <2>4. Service!Ask(sme.id)
    BY <1>1, <2>1, <2>2, <2>3 DEF Service!Ask
  <2> QED
    BY <2>1, <2>4 DEF Service!Next
<1>6. CASE RejectRequest(sme.id)
  BY <1>1, <1>2, <1>6 DEF RejectRequest, Service!vars, requestBar, RemovalPending
<1>7. CASE ServerStep(sme.id)
  <2>1. UNCHANGED requestBar
    BY <1>0, <1>7 DEF ServerStep, CollTypeOK, requestBar, Streams, IsStream
  <2> QED
    BY <1>1, <1>2, <1>7, <2>1 DEF ServerStep, Service!vars, RemovalPending
<1> QED
  BY <1>0, <1>3, <1>4, <1>5, <1>6, <1>7, ReceiveEffects

\* Applying the changes of a round is the service's decision.
LEMMA DecideStep ==
    ASSUME ServiceInv, IInv', ApplyStreamChanges
    PROVE  Service!Decide
<1>0. /\ IInv /\ TypeOK
      /\ pc = "applyChanges" /\ pc' = "publish" /\ InWindow /\ ~InWindow'
      /\ UNCHANGED <<removed_flag, newSchedule, schedule, scheduleNotApplied, applied>>
      /\ ApplyChanges(stream_snapshot.collection, ScheduledIds(newSchedule))
      /\ removed_flag \in BOOLEAN
  BY DEF ServiceInv, IInv, TypeOK, CollTypeOK, ApplyStreamChanges, ApplyChanges, InWindow,
         sharedVars, downlinkVars
<1>1. ~heldBar /\ heldBar' = TRUE
  BY <1>0 DEF heldBar, IInv, OneAtATime, TypeOK
<1>2. requestBar' \in [Streams -> Service!Phase]
  BY PhaseType DEF requestBar, Service!Phase
<1>3. ASSUME NEW s \in Streams
      PROVE  \/ requestBar'[s] \in {requestBar[s], "none"}
             \/ requestBar[s] = "pending" /\ requestBar'[s] = "granted"
  <2>1. /\ s \in Ids
        /\ collection[s] \in MasterStreamInfo
        /\ collection'[s] =
              ChangedEntry(s, stream_snapshot.collection, ScheduledIds(newSchedule))
    BY <1>0 DEF Streams, TypeOK, CollTypeOK, ApplyChanges
  <2>2. \/ collection'[s] \in {collection[s], NoEntry}
        \/ /\ collection[s].status = "ACCEPTED"
           /\ collection'[s] = [collection[s] EXCEPT !.status = "ESTABLISHED"]
    BY <2>1 DEF ChangedEntry
  <2>3. [collection[s] EXCEPT !.status = "ESTABLISHED"].status = "ESTABLISHED"
    BY <2>1 DEF MasterStreamInfo
  <2> QED
    BY <2>2, <2>3 DEF requestBar, PhaseOf, NoEntry
<1> DEFINE slots == ScheduledIds(newSchedule)
<1>4. slots \in SUBSET Streams
  <2>1. ASSUME NEW el \in newSchedule.elements PROVE el.id \in Streams
    <3>1. el.id \in Ids /\ stream_snapshot.collection[el.id].status \in Owners
      BY <1>0 DEF IInv, SchedulesFitSnapshot, TakenFrom, TypeOK, Schedule, ScheduleElement
    <3> QED
      BY <3>1 DEF ServiceInv, SnapshotKinds, Streams, IsStream
  <2> QED
    BY <2>1 DEF ScheduledIds
<1>5. PlanOf(CurrentSchedule)' = [id |-> PlanOf(CurrentSchedule).id + 1, streams |-> slots]
  BY <1>0 DEF PlanOf, CurrentSchedule, ScheduledIds, ServiceInv, NumberFollows
<1>6. Service!Granted' \subseteq slots
  <2>1. ASSUME NEW s \in Streams, requestBar'[s] = "granted" PROVE s \in slots
    <3>1. s \in Ids /\ collection'[s].status = "ESTABLISHED"
      BY <2>1 DEF requestBar, PhaseOf, Streams
    <3> QED
      BY <1>0, <3>1, ApplyOutcome
  <2> QED
    BY <2>1 DEF Service!Granted
<1>7. ~RemovalPending' => slots \subseteq Service!Granted'
  <2>1. ASSUME NEW s \in slots, ~RemovalPending' PROVE requestBar'[s] = "granted"
    <3>1. PICK el \in newSchedule.elements : el.id = s
      BY DEF ScheduledIds
    <3>2. collection'[s].status = "ESTABLISHED"
      BY <1>0, <2>1, <3>1 DEF IInv, NoLeakedSlots, CurrentSchedule
    <3> QED
      BY <1>4, <3>2 DEF requestBar, PhaseOf
  <2> QED
    BY <1>4, <2>1 DEF Service!Granted
<1>8. RemovalPending' \in {RemovalPending, FALSE}
  BY <1>0 DEF RemovalPending
<1>9. UNCHANGED PlanOf(applied)
  BY <1>0 DEF PlanOf, ScheduledIds
<1> QED
  BY <1>1, <1>2, <1>3, <1>4, <1>5, <1>6, <1>7, <1>8, <1>9 DEF Service!Decide

\* The rest of a round: the debt of removed streams passes from the flag to the
\* snapshot, and publishing makes nothing visible that was not decided.
LEMMA RoundStep ==
    ASSUME ServiceInv, IInv', Scheduler
    PROVE  [Service!Next]_Service!vars
<1>0. IInv /\ TypeOK /\ CollTypeOK
  BY DEF ServiceInv, IInv, TypeOK
<1>1. CASE Wake \/ CheckTopology \/ CheckOperation
  <2>1. /\ UNCHANGED <<collection, schedule, applied, removed_flag, scheduleNotApplied>>
        /\ pc # "publish" /\ pc' # "publish" /\ ~InWindow /\ ~InWindow'
    BY <1>1 DEF Wake, CheckTopology, CheckOperation, GetOperation, collVars, sharedVars,
                downlinkVars, InWindow
  <2> QED
    BY <2>1, StutterFrame, OwedOutside DEF heldBar, RemovalPending
<1>2. CASE TakeSnapshot
  <2>1. /\ UNCHANGED <<collection, schedule, applied, scheduleNotApplied>>
        /\ pc # "publish" /\ pc' # "publish" /\ ~InWindow /\ InWindow'
        /\ removed_flag' = FALSE /\ stream_snapshot'.removed = removed_flag
    BY <1>2 DEF TakeSnapshot, GetSnapshot, sharedVars, downlinkVars, InWindow
  <2>2. UNCHANGED RemovalPending
    BY <1>0, <2>1 DEF RemovalPending, CollTypeOK
  <2> QED
    BY <2>1, <2>2, StutterFrame DEF heldBar
<1>3. CASE UpdateGraph \/ ComputeSchedule \/ TellTopology
  <2>1. /\ UNCHANGED <<collection, schedule, applied, removed_flag, scheduleNotApplied,
                       stream_snapshot>>
        /\ pc # "publish" /\ pc' # "publish" /\ InWindow /\ InWindow'
    BY <1>0, <1>3 DEF UpdateGraph, ComputeSchedule, TellTopology, collVars, sharedVars,
                downlinkVars, InWindow, IInv, FlagsAgree, RescheduleChanges
  <2> QED
    BY <2>1, StutterFrame DEF heldBar, RemovalPending
<1>4. CASE ApplyStreamChanges
  BY <1>4, DecideStep DEF Service!Next
<1>5. CASE Publish
  <2>1. /\ UNCHANGED <<collection, applied, removed_flag>>
        /\ pc = "publish" /\ pc' = "waiting" /\ ~InWindow /\ ~InWindow'
        /\ schedule' = newSchedule /\ scheduleNotApplied' = TRUE
    BY <1>5 DEF Publish, EndRound, collVars, downlinkVars, InWindow
  <2>2. UNCHANGED <<heldBar, RemovalPending, CurrentSchedule>>
    BY <1>0, <2>1 DEF heldBar, RemovalPending, CurrentSchedule, TypeOK
  <2> QED
    BY <2>1, <2>2 DEF Service!vars, requestBar, PlanOf, ScheduledIds
<1>6. CASE Resend
  <2>1. /\ UNCHANGED <<collection, schedule, applied, removed_flag>>
        /\ pc = "resend" /\ pc' = "waiting" /\ ~InWindow /\ ~InWindow'
        /\ scheduleNotApplied = FALSE
        /\ scheduleNotApplied' = forceResend
        /\ forceResend \in BOOLEAN
    BY <1>0, <1>6 DEF Resend, EndRound, collVars, downlinkVars, InWindow, IInv, OneAtATime,
                      TypeOK
  <2>2. UNCHANGED RemovalPending
    BY <2>1 DEF RemovalPending
  <2>3. CASE forceResend
    <3>1. ~heldBar /\ heldBar' = TRUE
      BY <2>1, <2>3 DEF heldBar
    <3>2. UNCHANGED <<requestBar, PlanOf(CurrentSchedule), PlanOf(applied)>>
      BY <2>1 DEF requestBar, PlanOf, CurrentSchedule, ScheduledIds
    <3>3. Service!Again
      BY <2>2, <3>1, <3>2 DEF Service!Again
    <3> QED
      BY <3>3 DEF Service!Next
  <2>4. CASE ~forceResend
    <3>1. UNCHANGED heldBar
      BY <2>1, <2>4 DEF heldBar
    <3> QED
      BY <2>1, <2>2, <3>1, StutterFrame
  <2> QED
    BY <2>3, <2>4
<1> QED
  BY <1>1, <1>2, <1>3, <1>4, <1>5, <1>6 DEF Scheduler

\* The MAC thread: only applying the schedule shows.
LEMMA DownlinkStep ==
    ASSUME IInv, Downlink \/ TopologyChange
    PROVE  [Service!Next]_Service!vars
<1>1. CASE ApplySchedule
  <2>1. /\ scheduleNotApplied /\ sending = schedule
        /\ pc = "waiting" /\ pc' = pc
        /\ applied' = schedule /\ scheduleNotApplied' = FALSE
        /\ UNCHANGED <<collection, removed_flag, stream_snapshot, schedule>>
    BY <1>1 DEF ApplySchedule, IInv, DistributionConsistent, OneAtATime, collVars,
                schedulerVars
  <2>2. heldBar /\ heldBar' = FALSE
    BY <2>1 DEF heldBar
  <2>3. PlanOf(applied)' = PlanOf(CurrentSchedule)
    BY <2>1 DEF PlanOf, CurrentSchedule, ScheduledIds
  <2>4. UNCHANGED <<requestBar, PlanOf(CurrentSchedule), RemovalPending>>
    BY <2>1 DEF requestBar, PlanOf, CurrentSchedule, ScheduledIds, RemovalPending, InWindow
  <2>5. Service!Apply
    BY <2>2, <2>3, <2>4 DEF Service!Apply
  <2> QED
    BY <2>5 DEF Service!Next
<1>2. CASE ~ApplySchedule
  <2>1. UNCHANGED <<collection, removed_flag, schedulerVars, sharedVars, applied>>
    BY <1>2 DEF Downlink, TopologyChange, StartSending, SendSchedulePacket, SendInfoPacket,
                DequeueInfo, AwaitActivation, collVars, downlinkVars
  <2> QED
    BY <2>1 DEF Service!vars, requestBar, PlanOf, CurrentSchedule, ScheduledIds, heldBar,
                RemovalPending, InWindow, schedulerVars, sharedVars
<1> QED
  BY <1>1, <1>2

-----------------------------------------------------------------------------
\* The pipeline implements the service, for all ids and parameters: requests,
\* closes and topology changes that fall between the steps of a round leave no
\* other trace than that of rounds decided at once.
THEOREM Refinement == Spec => ImplementsService
<1>1. Init => Service!Init
  <2> SUFFICES ASSUME Init PROVE Service!Init
    OBVIOUS
  <2>1. requestBar = [s \in Streams |-> "none"]
    BY DEF Init, CollInit, requestBar, PhaseOf, NoEntry, Streams
  <2>2. /\ PlanOf(CurrentSchedule) = [id |-> 0, streams |-> {}]
        /\ PlanOf(applied) = PlanOf(CurrentSchedule)
    BY DEF Init, PlanOf, CurrentSchedule, ScheduledIds, EmptySchedule
  <2>3. heldBar = FALSE /\ RemovalPending = FALSE
    BY DEF Init, CollInit, heldBar, RemovalPending, InWindow
  <2> QED
    BY <2>1, <2>2, <2>3 DEF Service!Init
<1>2. ServiceInv /\ ServiceInv' /\ [Next]_vars => [Service!Next]_Service!vars
  <2> SUFFICES ASSUME ServiceInv, ServiceInv', [Next]_vars
               PROVE  [Service!Next]_Service!vars
    OBVIOUS
  <2>1. IInv /\ IInv'
    BY DEF ServiceInv
  <2>2. CASE UNCHANGED vars
    BY <2>2 DEF vars, collVars, schedulerVars, sharedVars, downlinkVars, Service!vars,
                requestBar, PlanOf, CurrentSchedule, ScheduledIds, heldBar, RemovalPending,
                InWindow
  <2> QED
    BY <2>1, <2>2, UplinkStep, RoundStep, DownlinkStep DEF Next
<1> QED
  BY <1>1, <1>2, ServiceInvariant, PTL DEF Spec, ImplementsService, Service!Spec
=============================================================================
