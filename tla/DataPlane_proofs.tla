--------------------------- MODULE DataPlane_proofs ---------------------------
(***************************************************************************)
(* What the data plane promises, for any networks, routes and losses: the  *)
(* schedule it plays is the one the allocation of slots promises, and      *)
(* packets are read in the order they were written.                        *)
(***************************************************************************)
EXTENDS DataPlane, SlotAllocation_proofs

-----------------------------------------------------------------------------
(***************************************************************************)
(* The schedule.                                                           *)
(***************************************************************************)
\* No step of the data phases, the applications or the radio touches the
\* schedule: the data plane is an allocation of slots, with more to it.
THEOREM SchedulePlayed == Spec => AllocSpec
<1>1. Init => AllocInit
  BY DEF Init
<1>2. Play => UNCHANGED <<net, allocVars>>
  BY DEF Play, ApplySchedule, LoseSync, RegainSync, AdvanceBy, AppWrite, AppRead, Execute
<1>3. [Next]_vars => [AllocNext]_<<net, allocVars>>
  BY <1>2 DEF Next, Schedule, vars
<1> QED
  BY <1>1, <1>3, PTL DEF Spec, AllocSpec

\* What is played keeps the promises of scheduleStreams.
THEOREM PromisesKept ==
    Spec => [](SlotsDisjoint /\ InterferenceLinksTold /\ HopsFollow /\ ControlSlotsFree)
  BY SchedulePlayed, SlotsDisjointTheorem, LinksToldTheorem, HopsFollowTheorem,
     ControlSlotsTheorem, PTL

-----------------------------------------------------------------------------
(***************************************************************************)
(* Where the transmissions of the schedule come from.                      *)
(***************************************************************************)
LEMMA Joined ==
    ASSUME NEW E, NEW p \in Seq(E), NEW q \in Seq(E)
    PROVE  /\ p \o q \in Seq(E) /\ Len(p) \in Nat /\ Len(q) \in Nat
           /\ Len(p \o q) = Len(p) + Len(q)
           /\ \A j \in DOMAIN p : (p \o q)[j] = p[j]
           /\ \A j \in DOMAIN q : (p \o q)[Len(p) + j] = q[j]
  OBVIOUS

\* What the routes of the network are taken to be.
LEMMA RouteParts ==
    ASSUME AllocTypeOK
    PROVE  /\ Blocks \in Seq(Seq(Transmissions))
           /\ Len(Blocks) = Len(net.established) + Len(net.accepted)
           /\ Len(net.established) \in Nat /\ Len(net.accepted) \in Nat
           /\ \A j \in DOMAIN net.established : Blocks[j] = net.established[j]
           /\ \A j \in DOMAIN net.accepted : Blocks[Len(net.established) + j] = net.accepted[j]
           /\ \A b \in DOMAIN Blocks : \E s \in ToSet(Streams) : RouteOf(net, s, Blocks[b])
           /\ \A s, t \in ToSet(Streams) : s.id = t.id => s = t
           /\ \A s \in ToSet(Streams) :
                /\ {s.src, s.dst} \subseteq net.nodes /\ s.redundancy \in Redundancies
                /\ Cardinality(BlocksOf(net, s.id)) \in {0, RedundancyCount(s.redundancy)}
           /\ net.weak_graph = net.network_graph \/ net.useWeakTopologies
           /\ net.network_graph \subseteq net.weak_graph
<1>1. net.established \in Seq(Seq(Transmissions)) /\ net.accepted \in Seq(Seq(Transmissions))
  BY NetworkParts
<1>2. /\ Blocks \in Seq(Seq(Transmissions))
      /\ Len(Blocks) = Len(net.established) + Len(net.accepted)
      /\ Len(net.established) \in Nat /\ Len(net.accepted) \in Nat
      /\ \A j \in DOMAIN net.established : Blocks[j] = net.established[j]
      /\ \A j \in DOMAIN net.accepted : Blocks[Len(net.established) + j] = net.accepted[j]
  <2>1. PICK S : S = Seq(Transmissions)
    OBVIOUS
  <2>2. net.established \in Seq(S) /\ net.accepted \in Seq(S)
    BY <1>1, <2>1
  <2>3. PICK p, q : p = net.established /\ q = net.accepted
    OBVIOUS
  <2>4. p \in Seq(S) /\ q \in Seq(S) /\ Blocks = p \o q
    BY <2>2, <2>3 DEF Blocks
  <2>5. /\ p \o q \in Seq(S) /\ Len(p) \in Nat /\ Len(q) \in Nat
        /\ Len(p \o q) = Len(p) + Len(q)
        /\ \A j \in DOMAIN p : (p \o q)[j] = p[j]
        /\ \A j \in DOMAIN q : (p \o q)[Len(p) + j] = q[j]
    BY <2>4, Joined
  <2>6. /\ Blocks \in Seq(S) /\ Len(p) \in Nat /\ Len(q) \in Nat
        /\ Len(Blocks) = Len(p) + Len(q)
        /\ \A j \in DOMAIN p : Blocks[j] = p[j]
        /\ \A j \in DOMAIN q : Blocks[Len(p) + j] = q[j]
    BY <2>4, <2>5, Zenon
  <2> QED
    BY <2>1, <2>3, <2>6, Zenon
<1>3. net \in Networks
  BY DEF AllocTypeOK
<1>4. \A b \in DOMAIN Blocks : \E s \in ToSet(Streams) : RouteOf(net, s, Blocks[b])
  BY <1>3, RoutesAssumption DEF Blocks, ToSet, Streams
<1> QED
  BY <1>2, <1>3, <1>4, RoutesAssumption DEF Streams

LEMMA BlocksInit ==
    ASSUME AllocInv, AllocInit
    PROVE  BlocksInv
<1>1. Elements = {}
  BY DEF AllocInit, Elements
<1>2. AllocTypeOK
  BY DEF AllocInv
<1>3. /\ blocks = net.established /\ blk = 0 /\ todo = <<>> /\ stage = "established"
      /\ net.established \in Seq(Seq(Transmissions))
      /\ \A j \in DOMAIN net.established : Blocks[j] = net.established[j]
  BY <1>2, RouteParts, NetworkParts DEF AllocInit
<1>4. Len(blocks) \in Nat /\ \A j \in DOMAIN blocks : j \in Nat
  BY <1>3
<1>5. 0 + Len(blocks) = Len(net.established) /\ \A j \in DOMAIN blocks : 0 + j = j
  BY <1>3, <1>4
<1> QED
  BY <1>1, <1>3, <1>5 DEF BlocksInv
\* A step that places nothing keeps where the elements come from.
LEMMA ElementsFromBlocks ==
    ASSUME BlocksInv, Elements' \subseteq Elements, net' = net,
           \A e \in Elements : e.blk = blk' => blk' = blk,
           (todo' # <<>> /\ blk' = blk) => todo # <<>> /\ Len(todo') \in 0..Len(todo),
           Blocks \in Seq(Seq(Transmissions)), todo \in Seq(Transmissions)
    PROVE  /\ \A e \in Elements' :
                /\ e.blk \in DOMAIN Blocks'
                /\ \E i \in DOMAIN Blocks'[e.blk] :
                    /\ Hop(e, Blocks'[e.blk][i])
                    /\ (todo' # <<>> /\ e.blk = blk') => i <= Len(Blocks'[blk']) - Len(todo')
           /\ \A e, f \in Elements' : (e.blk = f.blk /\ e.tx = f.tx) => e = f
<1>1. Blocks' = Blocks
  BY DEF Blocks
<1>2. ASSUME NEW e \in Elements' 
      PROVE  /\ e.blk \in DOMAIN Blocks'
             /\ \E i \in DOMAIN Blocks'[e.blk] :
                    /\ Hop(e, Blocks'[e.blk][i])
                    /\ (todo' # <<>> /\ e.blk = blk') => i <= Len(Blocks'[blk']) - Len(todo')
  <2>1. /\ e \in Elements /\ e.blk \in DOMAIN Blocks
        /\ \E i \in DOMAIN Blocks[e.blk] :
            /\ Hop(e, Blocks[e.blk][i])
            /\ (todo # <<>> /\ e.blk = blk) => i <= Len(Blocks[blk]) - Len(todo)
    BY <1>2 DEF BlocksInv
  <2>2. PICK i \in DOMAIN Blocks[e.blk] :
            /\ Hop(e, Blocks[e.blk][i])
            /\ (todo # <<>> /\ e.blk = blk) => i <= Len(Blocks[blk]) - Len(todo)
    BY <2>1
  <2>3. ASSUME todo' # <<>>, e.blk = blk' PROVE i <= Len(Blocks'[blk']) - Len(todo')
    <3>1. blk' = blk /\ todo # <<>> /\ Len(todo') \in 0..Len(todo)
      BY <2>1, <2>3
    <3>2. i <= Len(Blocks[blk]) - Len(todo)
      BY <2>2, <2>3, <3>1
    <3>3. i \in Nat /\ Len(Blocks[blk]) \in Nat /\ Len(todo) \in Nat
      BY <2>1, <2>2, <2>3, <3>1
    <3> QED
      BY <1>1, <3>1, <3>2, <3>3
  <2> QED
    BY <1>1, <2>1, <2>2, <2>3
<1>3. \A e, f \in Elements' : (e.blk = f.blk /\ e.tx = f.tx) => e = f
  BY DEF BlocksInv
<1> QED
  BY <1>2, <1>3

LEMMA NextBlockFrom ==
    ASSUME AllocInv, BlocksInv, NextBlock
    PROVE  BlocksInv'
<1>1. AllocTypeOK /\ BlockInOrder
  BY DEF AllocInv
<1>2. /\ blocks \in Seq(Seq(Transmissions)) /\ blocks # <<>> /\ blk \in Nat
      /\ todo' = Head(blocks) /\ blocks' = Tail(blocks) /\ blk' = blk + 1
      /\ net' = net /\ stage' = stage /\ todo \in Seq(Transmissions)
  BY <1>1 DEF NextBlock, AllocTypeOK
<1>3. Blocks' = Blocks /\ Elements' = Elements
  BY DEF NextBlock, Blocks, Elements
<1>4. /\ Len(blocks) \in Nat \ {0} /\ Len(Tail(blocks)) = Len(blocks) - 1
      /\ Head(blocks) = blocks[1] /\ 1 \in DOMAIN blocks
      /\ \A j \in DOMAIN Tail(blocks) : j \in Nat /\ 1 + j \in DOMAIN blocks /\ Tail(blocks)[j] = blocks[1 + j]
  BY <1>2
<1>5. /\ Blocks \in Seq(Seq(Transmissions)) /\ Len(Blocks) = Len(net.established) + Len(net.accepted)
      /\ Len(net.established) \in Nat /\ Len(net.accepted) \in Nat
  BY <1>1, RouteParts
<1>6. blk + Len(blocks) = IF stage = "established" THEN Len(net.established) ELSE Len(Blocks)
  BY DEF BlocksInv
<1>7. blk + 1 \in DOMAIN Blocks
  <2>1. PICK m, l, e, a : /\ m = Len(blocks) /\ l = Len(Blocks) /\ e = Len(net.established)
                          /\ a = Len(net.accepted)
    OBVIOUS
  <2>2. /\ m \in Nat \ {0} /\ e \in Nat /\ a \in Nat /\ l = e + a
        /\ (blk + m = e \/ blk + m = l)
    BY <1>4, <1>5, <1>6, <2>1
  <2>3. blk + 1 \in 1..l
    BY <1>2, <2>2
  <2>4. PICK S : S = Seq(Transmissions)
    OBVIOUS
  <2>5. DOMAIN Blocks = 1..Len(Blocks)
    BY <1>5, <2>4
  <2> QED
    BY <2>1, <2>3, <2>5
<1>8. blk' + Len(blocks') = blk + Len(blocks)
  BY <1>2, <1>4
<1>9. ASSUME NEW j \in DOMAIN blocks' PROVE blocks'[j] = Blocks'[blk' + j]
  <2>1. blocks'[j] = blocks[1 + j] /\ 1 + j \in DOMAIN blocks /\ blk' + j = blk + (1 + j)
    BY <1>2, <1>4, <1>9
  <2> QED
    BY <1>3, <2>1 DEF BlocksInv
<1>10. todo' = Blocks'[blk']
  BY <1>2, <1>3, <1>4 DEF BlocksInv
<1>11. /\ blk' \in DOMAIN Blocks' /\ Len(todo') <= Len(Blocks'[blk'])
       /\ \A j \in DOMAIN todo' : todo'[j] = Blocks'[blk'][Len(Blocks'[blk']) - Len(todo') + j]
  <2>1. Blocks[blk + 1] \in Seq(Transmissions)
    <3>1. PICK S : S = Seq(Transmissions)
      OBVIOUS
    <3>2. Blocks \in Seq(S)
      BY <1>5, <3>1
    <3>3. Blocks[blk + 1] \in S
      BY <1>7, <3>2
    <3> QED
      BY <3>1, <3>3
  <2>2. PICK b : b = Blocks[blk + 1]
    OBVIOUS
  <2>3. b \in Seq(Transmissions) /\ todo' = b /\ Blocks'[blk'] = b
    BY <1>2, <1>3, <1>10, <2>1, <2>2
  <2>4. Len(b) <= Len(b) /\ \A j \in DOMAIN b : b[j] = b[Len(b) - Len(b) + j]
    BY <2>3
  <2> QED
    BY <1>2, <1>3, <1>7, <2>3, <2>4
<1>12. \A e \in Elements : e.blk # blk'
  <2>1. \A e \in Elements : e.blk \in Nat /\ e.blk <= blk
    BY <1>1, ElementsTyped DEF BlockInOrder, Placements
  <2> QED
    BY <1>2, <2>1
<1>13. blk' # blk
  BY <1>2
<1> QED
  BY <1>2, <1>3, <1>5, <1>6, <1>8, <1>9, <1>11, <1>12, <1>13, ElementsFromBlocks DEF BlocksInv

\* The transmission that comes next in its block.
LEMMA NextTransmission ==
    ASSUME AllocTypeOK, BlocksInv, todo # <<>>
    PROVE  LET m == Len(Blocks[blk]) - Len(todo) + 1
           IN  /\ blk \in DOMAIN Blocks /\ m \in DOMAIN Blocks[blk] /\ Head(todo) = Blocks[blk][m]
               /\ Len(Tail(todo)) = Len(todo) - 1 /\ Len(todo) \in Nat \ {0}
               /\ Len(Blocks[blk]) \in Nat /\ Len(todo) <= Len(Blocks[blk])
               /\ \A j \in DOMAIN Tail(todo) :
                    Tail(todo)[j] = Blocks[blk][Len(Blocks[blk]) - Len(Tail(todo)) + j]
<1>1. /\ todo \in Seq(Transmissions) /\ Blocks \in Seq(Seq(Transmissions))
      /\ blk \in DOMAIN Blocks /\ Len(todo) <= Len(Blocks[blk])
      /\ \A j \in DOMAIN todo : todo[j] = Blocks[blk][Len(Blocks[blk]) - Len(todo) + j]
  BY RouteParts DEF AllocTypeOK, BlocksInv
<1>2. /\ Len(todo) \in Nat \ {0} /\ Head(todo) = todo[1] /\ 1 \in DOMAIN todo
      /\ Len(Tail(todo)) = Len(todo) - 1
      /\ \A j \in DOMAIN Tail(todo) : j \in Nat /\ 1 + j \in DOMAIN todo /\ Tail(todo)[j] = todo[1 + j]
  BY <1>1
<1>3. Blocks[blk] \in Seq(Transmissions)
  BY <1>1
<1>4. Len(Blocks[blk]) \in Nat /\ DOMAIN Blocks[blk] = 1..Len(Blocks[blk])
  BY <1>3
<1>5. Len(Blocks[blk]) - Len(todo) + 1 \in DOMAIN Blocks[blk]
  BY <1>1, <1>2, <1>4
<1>6. ASSUME NEW j \in DOMAIN Tail(todo)
      PROVE  Tail(todo)[j] = Blocks[blk][Len(Blocks[blk]) - Len(Tail(todo)) + j]
  <2>1. Len(Blocks[blk]) - Len(Tail(todo)) + j = Len(Blocks[blk]) - Len(todo) + (1 + j)
    BY <1>2, <1>4, <1>6
  <2> QED
    BY <1>1, <1>2, <1>6, <2>1
<1> QED
  BY <1>1, <1>2, <1>4, <1>5, <1>6

\* A block is the route of a stream, each of whose transmissions is the stream's.
LEMMA BlockParts ==
    ASSUME AllocTypeOK, NEW b \in DOMAIN Blocks
    PROVE  \E s \in ToSet(Streams) :
            /\ Blocks[b] \in Seq(Transmissions) /\ Len(Blocks[b]) \in Nat \ {0}
            /\ DOMAIN Blocks[b] = 1..Len(Blocks[b])
            /\ Blocks[b][1].tx = s.src /\ Blocks[b][Len(Blocks[b])].rx = s.dst
            /\ \A i \in DOMAIN Blocks[b] :
                /\ Blocks[b][i].stream = s.id /\ Blocks[b][i].src = s.src
                /\ Blocks[b][i].dst = s.dst /\ Blocks[b][i].period = s.period
                /\ {Blocks[b][i].tx, Blocks[b][i].rx} \subseteq net.nodes
            /\ \A i \in 1..(Len(Blocks[b]) - 1) : Blocks[b][i].rx = Blocks[b][i + 1].tx
            /\ \A i, j \in DOMAIN Blocks[b] :
                (Blocks[b][i].tx = Blocks[b][j].tx \/ Blocks[b][i].rx = Blocks[b][j].rx) => i = j
<1>1. PICK s \in ToSet(Streams) : RouteOf(net, s, Blocks[b])
  BY RouteParts
<1>2. PICK S : S = Seq(Transmissions)
  OBVIOUS
<1>3. Blocks \in Seq(S)
  BY <1>2, RouteParts
<1>4. Blocks[b] \in S
  BY <1>3
<1>5. PICK q : q = Blocks[b]
  OBVIOUS
<1>6. q \in Seq(Transmissions) /\ RouteOf(net, s, q)
  BY <1>1, <1>2, <1>4, <1>5
<1>7. q # <<>> /\ Len(q) \in Nat \ {0} /\ DOMAIN q = 1..Len(q)
  BY <1>6 DEF RouteOf
<1>8. \A i \in DOMAIN q : q[i].stream = s.id /\ q[i].src = s.src /\ q[i].dst = s.dst /\ q[i].period = s.period
  BY <1>6 DEF RouteOf, ScheduleElement
<1> QED
  BY <1>5, <1>6, <1>7, <1>8 DEF RouteOf

LEMMA SkipFrom ==
    ASSUME AllocInv, BlocksInv, SkipTransmission
    PROVE  BlocksInv'
<1>1. AllocTypeOK
  BY DEF AllocInv
<1>2. /\ todo # <<>> /\ todo' = Tail(todo) /\ todo \in Seq(Transmissions)
      /\ net' = net /\ blk' = blk /\ blocks' = blocks /\ stage' = stage
  BY <1>1 DEF SkipTransmission, AllocTypeOK
<1>3. Blocks' = Blocks /\ Elements' = Elements /\ Blocks \in Seq(Seq(Transmissions))
  BY <1>1, RouteParts DEF SkipTransmission, Blocks, Elements
<1>4. /\ blk \in DOMAIN Blocks
      /\ Len(Tail(todo)) = Len(todo) - 1 /\ Len(todo) \in Nat \ {0}
      /\ Len(Blocks[blk]) \in Nat /\ Len(todo) <= Len(Blocks[blk])
      /\ \A j \in DOMAIN Tail(todo) :
            Tail(todo)[j] = Blocks[blk][Len(Blocks[blk]) - Len(Tail(todo)) + j]
  BY <1>1, <1>2, NextTransmission
<1>5. Len(todo') \in 0..Len(todo) /\ Len(todo') <= Len(Blocks[blk])
  BY <1>2, <1>4
<1>6. /\ \A e \in Elements' :
            /\ e.blk \in DOMAIN Blocks'
            /\ \E i \in DOMAIN Blocks'[e.blk] :
                /\ Hop(e, Blocks'[e.blk][i])
                /\ (todo' # <<>> /\ e.blk = blk') => i <= Len(Blocks'[blk']) - Len(todo')
      /\ \A e, f \in Elements' : (e.blk = f.blk /\ e.tx = f.tx) => e = f
  BY <1>2, <1>3, <1>5, ElementsFromBlocks
<1> QED
  BY <1>2, <1>3, <1>4, <1>5, <1>6 DEF BlocksInv

LEMMA UndoFrom ==
    ASSUME AllocInv, BlocksInv, UndoBlock
    PROVE  BlocksInv'
<1>1. AllocTypeOK /\ BlockInOrder
  BY DEF AllocInv
<1>2. /\ todo # <<>> /\ todo' = <<>> /\ todo \in Seq(Transmissions)
      /\ net' = net /\ blk' = blk /\ blocks' = blocks /\ stage' = stage
  BY <1>1 DEF UndoBlock, AllocTypeOK
<1>3. Blocks' = Blocks /\ Elements' \subseteq Elements /\ Blocks \in Seq(Seq(Transmissions))
  BY <1>1, RouteParts, UndoneElements DEF Blocks, UndoBlock
<1>4. /\ \A e \in Elements' :
            /\ e.blk \in DOMAIN Blocks'
            /\ \E i \in DOMAIN Blocks'[e.blk] :
                /\ Hop(e, Blocks'[e.blk][i])
                /\ (todo' # <<>> /\ e.blk = blk') => i <= Len(Blocks'[blk']) - Len(todo')
      /\ \A e, f \in Elements' : (e.blk = f.blk /\ e.tx = f.tx) => e = f
  BY <1>2, <1>3, ElementsFromBlocks
<1> QED
  BY <1>2, <1>3, <1>4 DEF BlocksInv

LEMMA StageFrom ==
    ASSUME AllocInv, BlocksInv, NextStage
    PROVE  BlocksInv'
<1>1. AllocTypeOK
  BY DEF AllocInv
<1>2. /\ todo = <<>> /\ todo' = <<>> /\ todo \in Seq(Transmissions) /\ blk \in Nat
      /\ net' = net /\ blk' = blk /\ blocks = <<>>
      /\ stage' = IF stage = "established" THEN "accepted" ELSE "done"
      /\ blocks' = IF stage = "established" THEN net.accepted ELSE <<>>
      /\ stage \in {"established", "accepted"}
  BY <1>1 DEF NextStage, AllocTypeOK
<1>3. Blocks' = Blocks /\ Elements' \subseteq Elements /\ Blocks \in Seq(Seq(Transmissions))
  BY <1>1, RouteParts, StagedElements DEF Blocks, NextStage
<1>4. /\ \A e \in Elements' :
            /\ e.blk \in DOMAIN Blocks'
            /\ \E i \in DOMAIN Blocks'[e.blk] :
                /\ Hop(e, Blocks'[e.blk][i])
                /\ (todo' # <<>> /\ e.blk = blk') => i <= Len(Blocks'[blk']) - Len(todo')
      /\ \A e, f \in Elements' : (e.blk = f.blk /\ e.tx = f.tx) => e = f
  BY <1>2, <1>3, ElementsFromBlocks
<1>5. blk + 0 = IF stage = "established" THEN Len(net.established) ELSE Len(Blocks)
  BY <1>2 DEF BlocksInv
<1>6. /\ Len(net.established) \in Nat /\ Len(net.accepted) \in Nat
      /\ Len(Blocks) = Len(net.established) + Len(net.accepted)
      /\ \A j \in DOMAIN net.accepted : Blocks[Len(net.established) + j] = net.accepted[j]
  BY <1>1, RouteParts
<1>7. CASE stage = "established"
  <2>1. blk = Len(net.established)
    BY <1>2, <1>5, <1>6, <1>7
  <2> QED
    BY <1>2, <1>3, <1>4, <1>6, <1>7, <2>1 DEF BlocksInv
<1>8. CASE stage = "accepted"
  <2>1. blk + Len(blocks') = Len(Blocks)
    BY <1>2, <1>5, <1>6, <1>8
  <2> QED
    BY <1>2, <1>3, <1>4, <1>8, <2>1 DEF BlocksInv
<1> QED
  BY <1>2, <1>7, <1>8

\* The element that is placed is a transmission of the block that no element of
\* it has been placed for.
LEMMA PlaceFrom ==
    ASSUME AllocInv, BlocksInv, PlaceTransmission
    PROVE  BlocksInv'
<1>1. AllocTypeOK
  BY DEF AllocInv
<1> DEFINE t == Head(todo)
           m == Len(Blocks[blk]) - Len(todo) + 1
<1>2. PICK o \in Free(t) : scheduled_transmissions' = Append(scheduled_transmissions, Placed(t, o))
  BY DEF PlaceTransmission
<1> DEFINE new == Placed(t, o)
<1>3. /\ todo # <<>> /\ todo' = Tail(todo) /\ todo \in Seq(Transmissions)
      /\ net' = net /\ blk' = blk /\ blocks' = blocks /\ stage' = stage
      /\ scheduled_transmissions \in Seq(Placements) /\ current_schedule' = current_schedule
  BY <1>1 DEF PlaceTransmission, AllocTypeOK
<1>4. Blocks' = Blocks /\ Elements' = Elements \cup {new}
  BY <1>2, <1>3, AppendedElement DEF Blocks
<1>5. /\ blk \in DOMAIN Blocks /\ m \in DOMAIN Blocks[blk] /\ t = Blocks[blk][m]
      /\ Len(Tail(todo)) = Len(todo) - 1 /\ Len(todo) \in Nat \ {0}
      /\ Len(Blocks[blk]) \in Nat /\ Len(todo) <= Len(Blocks[blk])
      /\ \A j \in DOMAIN Tail(todo) :
            Tail(todo)[j] = Blocks[blk][Len(Blocks[blk]) - Len(Tail(todo)) + j]
  BY <1>1, <1>3, NextTransmission
<1>6. /\ new.blk = blk /\ new.tx = t.tx
      /\ \A e : e = t => Hop(new, e)
  BY DEF Placed, Hop
<1> HIDE DEF new
<1>7. /\ Len(todo') <= Len(Blocks[blk]) /\ m = Len(Blocks[blk]) - Len(todo')
      /\ m \in Nat /\ Len(Blocks[blk]) - Len(todo) < m
  BY <1>3, <1>5
<1>8. \A i, j \in DOMAIN Blocks[blk] : Blocks[blk][i].tx = Blocks[blk][j].tx => i = j
  BY <1>1, <1>5, BlockParts
<1>9. ASSUME NEW e \in Elements
      PROVE  /\ e.blk \in DOMAIN Blocks
             /\ \E i \in DOMAIN Blocks[e.blk] :
                    /\ Hop(e, Blocks[e.blk][i])
                    /\ e.blk = blk => i < m
  <2>1. PICK i \in DOMAIN Blocks[e.blk] :
            Hop(e, Blocks[e.blk][i]) /\ (e.blk = blk => i <= Len(Blocks[blk]) - Len(todo))
    BY <1>3, <1>9 DEF BlocksInv
  <2>2. e.blk = blk => i < m
    <3> SUFFICES ASSUME e.blk = blk PROVE i < m
      OBVIOUS
    <3>1. DOMAIN Blocks[blk] = 1..Len(Blocks[blk])
      BY <1>1, <1>5, BlockParts
    <3>2. i \in Int /\ Len(Blocks[blk]) - Len(todo) \in Int /\ i <= Len(Blocks[blk]) - Len(todo)
      BY <1>5, <2>1, <3>1
    <3>3. PICK l : l = Len(Blocks[blk]) - Len(todo)
      OBVIOUS
    <3>4. l \in Int /\ i <= l /\ m = l + 1
      BY <3>2, <3>3
    <3> QED
      BY <3>2, <3>4
  <2> QED
    BY <1>9, <2>1, <2>2 DEF BlocksInv
<1>10. ASSUME NEW e \in Elements' PROVE
            /\ e.blk \in DOMAIN Blocks
            /\ \E i \in DOMAIN Blocks[e.blk] :
                    /\ Hop(e, Blocks[e.blk][i])
                    /\ e.blk = blk => i <= m
  <2>1. CASE e = new
    <3>1. e.blk = blk /\ Hop(e, Blocks[blk][m]) /\ m <= m
      BY <1>5, <1>6, <1>7, <2>1
    <3> QED
      BY <1>5, <3>1
  <2>2. CASE e \in Elements
    <3>1. PICK i \in DOMAIN Blocks[e.blk] : Hop(e, Blocks[e.blk][i]) /\ (e.blk = blk => i < m)
      BY <1>9, <2>2
    <3>2. e.blk = blk => i <= m
      <4> SUFFICES ASSUME e.blk = blk PROVE i <= m
        OBVIOUS
      <4>1. DOMAIN Blocks[blk] = 1..Len(Blocks[blk])
        BY <1>1, <1>5, BlockParts
      <4>2. i \in Int /\ m \in Int /\ i < m
        BY <1>5, <1>7, <3>1, <4>1
      <4> HIDE DEF m
      <4> QED
        BY <4>2
    <3> QED
      BY <1>9, <2>2, <3>1, <3>2
  <2> QED
    BY <1>4, <1>10, <2>1, <2>2
<1>11. ASSUME NEW e \in Elements, e.blk = blk, e.tx = t.tx PROVE FALSE
  <2>1. PICK i \in DOMAIN Blocks[blk] : Hop(e, Blocks[blk][i]) /\ i < m
    BY <1>9, <1>11
  <2>2. Blocks[blk][i].tx = Blocks[blk][m].tx
    BY <1>5, <1>11, <2>1 DEF Hop
  <2>3. i = m
    BY <1>5, <1>8, <2>1, <2>2
  <2> QED
    BY <1>7, <2>1, <2>3
<1>12. \A e, f \in Elements : (e.blk = f.blk /\ e.tx = f.tx) => e = f
  BY DEF BlocksInv
<1>13. \A e, f \in Elements' : (e.blk = f.blk /\ e.tx = f.tx) => e = f
  <2> SUFFICES ASSUME NEW e \in Elements', NEW f \in Elements', e.blk = f.blk, e.tx = f.tx
               PROVE  e = f
    OBVIOUS
  <2>1. (e \in Elements \/ e = new) /\ (f \in Elements \/ f = new)
    BY <1>4
  <2> QED
    BY <1>6, <1>11, <1>12, <2>1
<1>14. /\ blk + Len(blocks) = IF stage = "established" THEN Len(net.established) ELSE Len(Blocks)
       /\ \A j \in DOMAIN blocks : blocks[j] = Blocks[blk + j]
  BY DEF BlocksInv
<1> HIDE DEF m
<1> QED
  BY <1>3, <1>4, <1>5, <1>7, <1>10, <1>13, <1>14 DEF BlocksInv

LEMMA BlocksStep ==
    ASSUME AllocInv, BlocksInv, [AllocNext]_<<net, allocVars>>
    PROVE  BlocksInv'
<1>1. CASE UNCHANGED <<net, allocVars>>
  <2>1. Blocks' = Blocks /\ Elements' = Elements
    BY <1>1 DEF Blocks, Elements, allocVars
  <2> QED
    BY <1>1, <2>1 DEF BlocksInv, allocVars
<1> QED
  BY <1>1, NextBlockFrom, PlaceFrom, SkipFrom, UndoFrom, StageFrom DEF AllocNext

-----------------------------------------------------------------------------
(***************************************************************************)
(* The order of the list: what is placed later comes later.                *)
(***************************************************************************)
LEMMA JoinedPrefix ==
    ASSUME NEW E, NEW p \in Seq(E), NEW q \in Seq(E), NEW k \in 0..Len(q)
    PROVE  /\ SubSeq(q, 1, k) \in Seq(E)
           /\ \A i \in DOMAIN (p \o SubSeq(q, 1, k)) :
                i \in DOMAIN (p \o q) /\ (p \o SubSeq(q, 1, k))[i] = (p \o q)[i]
<1>1. SubSeq(q, 1, k) \in Seq(E) /\ Len(SubSeq(q, 1, k)) = k /\ k <= Len(q)
      /\ \A i \in 1..k : SubSeq(q, 1, k)[i] = q[i]
  OBVIOUS
<1>2. PICK r \in Seq(E) : r = SubSeq(q, 1, k)
  BY <1>1
<1>3. Len(r) = k /\ \A i \in 1..k : r[i] = q[i]
  BY <1>1, <1>2
<1>4. \A i \in DOMAIN (p \o r) : i \in DOMAIN (p \o q) /\ (p \o r)[i] = (p \o q)[i]
  BY <1>1, <1>3
<1> QED
  BY <1>2, <1>4

LEMMA JoinedAppend ==
    ASSUME NEW E, NEW p \in Seq(E), NEW q \in Seq(E), NEW x \in E
    PROVE  /\ Len(p \o q) \in Nat
           /\ DOMAIN (p \o Append(q, x)) = 1..(Len(p \o q) + 1)
           /\ DOMAIN (p \o q) = 1..Len(p \o q)
           /\ (p \o Append(q, x))[Len(p \o q) + 1] = x
           /\ \A i \in DOMAIN (p \o q) : (p \o Append(q, x))[i] = (p \o q)[i]
<1>1. Append(q, x) \in Seq(E)
  OBVIOUS
<1>2. PICK r \in Seq(E) : r = Append(q, x)
  BY <1>1
<1>3. /\ Len(r) = Len(q) + 1 /\ r[Len(q) + 1] = x
      /\ \A i \in 1..Len(q) : r[i] = q[i]
  BY <1>2
<1>4. Len(p) \in Nat /\ Len(q) \in Nat /\ Len(p \o q) = Len(p) + Len(q) /\ Len(p \o r) = Len(p) + Len(q) + 1
  BY <1>3
<1>5. DOMAIN (p \o q) = 1..Len(p \o q) /\ DOMAIN (p \o r) = 1..Len(p \o r)
  OBVIOUS
<1>6. \A i \in 1..Len(p \o q) : (p \o r)[i] = (p \o q)[i]
  BY <1>3, <1>4
<1>7. (p \o r)[Len(p) + Len(q) + 1] = x
  <2>1. Len(q) + 1 \in DOMAIN r
    BY <1>3, <1>4
  <2>2. (p \o r)[Len(p) + (Len(q) + 1)] = r[Len(q) + 1]
    BY <2>1, Joined
  <2>3. Len(p) + (Len(q) + 1) = Len(p) + Len(q) + 1
    BY <1>4
  <2> QED
    BY <1>3, <2>2, <2>3
<1> QED
  BY <1>2, <1>4, <1>5, <1>6, <1>7

InListOrder(all) ==
    \A i, j \in DOMAIN all : (all[i].blk = all[j].blk /\ all[i].rx = all[j].tx) => i < j

LEMMA ListElements ==
    ASSUME current_schedule \in Seq(Placements), scheduled_transmissions \in Seq(Placements)
    PROVE  LET all == current_schedule \o scheduled_transmissions
           IN  \A i \in DOMAIN all : all[i] \in Elements
<1> DEFINE c == current_schedule
           s == scheduled_transmissions
<1>1. \A i \in DOMAIN (c \o s) :
        \/ i \in DOMAIN c /\ (c \o s)[i] = c[i]
        \/ i - Len(c) \in DOMAIN s /\ (c \o s)[i] = s[i - Len(c)]
  OBVIOUS
<1> QED
  BY <1>1 DEF Elements

LEMMA PlaceLinked ==
    ASSUME AllocInv, LinkedInv, PlaceTransmission
    PROVE  LinkedInv'
<1> DEFINE t == Head(todo)
           p == current_schedule
           q == scheduled_transmissions
           n == Len(p \o q)
<1>1. AllocTypeOK /\ BlockInOrder
  BY DEF AllocInv
<1>2. PICK o \in Free(t) : scheduled_transmissions' = Append(q, Placed(t, o))
  BY DEF PlaceTransmission
<1>3. PICK x : x = Placed(t, o)
  OBVIOUS
<1>4. /\ todo # <<>> /\ todo \in Seq(Transmissions) /\ net' = net /\ current_schedule' = p
      /\ p \in Seq(Placements) /\ q \in Seq(Placements)
      /\ HasEdge(net.network_graph, t.tx, t.rx)
  BY <1>1 DEF PlaceTransmission, AllocTypeOK, CanGoOn
<1>5. Elements' = Elements \cup {x}
  BY <1>2, <1>3, <1>4, AppendedElement
<1>6. x.tx = t.tx /\ x.rx = t.rx /\ x.blk = blk
  BY <1>3 DEF Placed
<1>7. \A e \in Elements' : HasEdge(net'.network_graph, e.tx, e.rx)
  BY <1>4, <1>5, <1>6 DEF LinkedInv
<1>8. \A e \in Elements : e.blk = x.blk => x.rx # e.tx
  <2>1. 1 \in DOMAIN todo /\ t = todo[1]
    BY <1>4
  <2> QED
    BY <1>1, <1>4, <1>6, <2>1 DEF BlockInOrder
<1>9. \A i \in DOMAIN (p \o q) : (p \o q)[i] \in Elements
  BY <1>4, ListElements
<1>10. /\ n \in Nat /\ DOMAIN (p \o Append(q, x)) = 1..(n + 1) /\ DOMAIN (p \o q) = 1..n
       /\ (p \o Append(q, x))[n + 1] = x
       /\ \A i \in DOMAIN (p \o q) : (p \o Append(q, x))[i] = (p \o q)[i]
  <2>1. p \in Seq(Placements \cup {x}) /\ q \in Seq(Placements \cup {x})
    BY <1>4
  <2> QED
    BY <2>1, JoinedAppend
<1>11. InListOrder(p \o q)
  BY DEF LinkedInv, InListOrder
<1>12. PICK old, all : old = p \o q /\ all = p \o Append(q, x)
  OBVIOUS
<1>13. /\ DOMAIN all = 1..(n + 1) /\ DOMAIN old = 1..n /\ all[n + 1] = x
       /\ \A i \in DOMAIN old : all[i] = old[i] /\ old[i] \in Elements
       /\ InListOrder(old)
  BY <1>9, <1>10, <1>11, <1>12
<1>14. InListOrder(all)
  <2> HIDE DEF p, q, n, t
  <2> SUFFICES ASSUME NEW i \in 1..(n + 1), NEW j \in 1..(n + 1),
                      all[i].blk = all[j].blk, all[i].rx = all[j].tx
               PROVE  i < j
    BY <1>13 DEF InListOrder
  <2>1. CASE i \in 1..n /\ j \in 1..n
    BY <1>13, <2>1 DEF InListOrder
  <2>2. CASE i \in 1..n /\ j = n + 1
    BY <1>10, <2>2
  <2>3. CASE i = n + 1 /\ j \in 1..n
    BY <1>8, <1>13, <2>3
  <2>4. CASE i = n + 1 /\ j = n + 1
    <3>1. 1 \in DOMAIN todo /\ todo[1].tx = x.tx /\ todo[1].rx = x.rx
      BY <1>4, <1>6 DEF t
    <3>2. x.tx # x.rx
      BY <3>1 DEF AllocInv, BlocksRouted, SimplePath
    <3> QED
      BY <1>13, <2>4, <3>2
  <2>5. i \in 1..n \/ i = n + 1
    BY <1>10
  <2>6. j \in 1..n \/ j = n + 1
    BY <1>10
  <2> QED
    BY <2>1, <2>2, <2>3, <2>4, <2>5, <2>6
<1> QED
  BY <1>2, <1>3, <1>4, <1>7, <1>12, <1>14 DEF LinkedInv, InListOrder

LEMMA LinkedStep ==
    ASSUME AllocInv, LinkedInv, [AllocNext]_<<net, allocVars>>
    PROVE  LinkedInv'
<1>1. AllocTypeOK /\ BlockInOrder
  BY DEF AllocInv
<1>2. current_schedule \in Seq(Placements) /\ scheduled_transmissions \in Seq(Placements)
  BY <1>1 DEF AllocTypeOK
<1>3. CASE /\ net' = net /\ current_schedule' = current_schedule
           /\ scheduled_transmissions' = scheduled_transmissions
  BY <1>3 DEF LinkedInv, Elements
<1>4. CASE NextStage
  <2>1. Elements' \subseteq Elements
    BY <1>1, <1>4, StagedElements
  <2>2. /\ net' = net
        /\ current_schedule' \o scheduled_transmissions' = current_schedule \o scheduled_transmissions
    BY <1>2, <1>4 DEF NextStage
  <2> QED
    BY <2>1, <2>2 DEF LinkedInv
<1>5. CASE UndoBlock
  <2> DEFINE k == Len(scheduled_transmissions) - block_size
             old == current_schedule \o scheduled_transmissions
             all == current_schedule' \o scheduled_transmissions'
  <2>1. Elements' \subseteq Elements
    BY <1>1, <1>5, UndoneElements
  <2>2. /\ net' = net /\ current_schedule' = current_schedule
        /\ scheduled_transmissions' = SubSeq(scheduled_transmissions, 1, k)
        /\ k \in 0..Len(scheduled_transmissions)
    BY <1>1, <1>2, <1>5 DEF UndoBlock, BlockInOrder, AllocTypeOK
  <2>3. \A i \in DOMAIN all : i \in DOMAIN old /\ all[i] = old[i]
    BY <1>2, <2>2, JoinedPrefix
  <2>4. \A i, j \in DOMAIN old : (old[i].blk = old[j].blk /\ old[i].rx = old[j].tx) => i < j
    BY DEF LinkedInv
  <2>5. \A i, j \in DOMAIN all : (all[i].blk = all[j].blk /\ all[i].rx = all[j].tx) => i < j
    <3> HIDE DEF old, all
    <3> QED
      BY <2>3, <2>4
  <2> QED
    BY <2>1, <2>2, <2>5 DEF LinkedInv
<1>6. CASE PlaceTransmission
  BY <1>6, PlaceLinked
<1> QED
  BY <1>3, <1>4, <1>5, <1>6 DEF AllocNext, NextBlock, SkipTransmission, allocVars

-----------------------------------------------------------------------------
(***************************************************************************)
(* The size of the schedule.                                               *)
(***************************************************************************)
LEMMA MultipleExists ==
    ASSUME NEW b \in Nat \ {0}, NEW a \in Nat
    PROVE  (a % b) = 0 <=> \E k \in Nat : a = b * k
<1>1. ASSUME (a % b) = 0 PROVE \E k \in Nat : a = b * k
  <2>1. PICK q, r : q = a \div b /\ r = a % b
    OBVIOUS
  <2>2. q \in Nat /\ a = b * q + r
    BY <2>1, DivMod
  <2>3. r = 0
    BY <1>1, <2>1
  <2>4. a = b * q
    BY <2>2, <2>3
  <2> QED
    BY <2>2, <2>4
<1>2. ASSUME NEW k \in Nat, a = b * k PROVE (a % b) = 0
  <2>1. 0 \in 0..(b - 1)
    OBVIOUS
  <2>2. (b * k + 0) % b = 0
    BY <2>1, DivModUnique
  <2>3. b * k + 0 = a
    BY <1>2
  <2> QED
    BY <2>2, <2>3
<1> QED
  BY <1>1, <1>2

\* The size may grow: what divided it still does.
LEMMA SizeGrows ==
    ASSUME NEW n \in Nat \ {0}, NEW p \in Nat \ {0}
    PROVE  /\ Lcm(n, p) \in Nat /\ (Lcm(n, p) % p) = 0
           /\ \A q \in Nat \ {0} : (n % q) = 0 => (Lcm(n, p) % q) = 0
<1>1. PICK c : c = Lcm(n, p)
  OBVIOUS
<1>2. /\ c \in Nat \ {0}
      /\ \E x \in Nat \ {0} : c = n * x
      /\ \E y \in Nat \ {0} : c = p * y
  <2>1. /\ Lcm(n, p) \in Nat \ {0}
        /\ \E x \in Nat \ {0} : Lcm(n, p) = n * x
        /\ \E y \in Nat \ {0} : Lcm(n, p) = p * y
    BY LcmIsMultiple
  <2> QED
    BY <1>1, <2>1
<1>3. PICK x \in Nat \ {0}, y \in Nat \ {0} : c = n * x /\ c = p * y
  BY <1>2
<1>4. (c % p) = 0
  BY <1>2, <1>3, MultipleExists
<1>5. ASSUME NEW q \in Nat \ {0}, (n % q) = 0 PROVE (c % q) = 0
  <2>1. PICK k \in Nat : n = q * k
    BY <1>5, MultipleExists
  <2>2. c = q * (k * x) /\ k * x \in Nat
    BY <1>3, <2>1
  <2> QED
    BY <1>2, <2>2, MultipleExists
<1> QED
  BY <1>1, <1>2, <1>4, <1>5

\* What UndoBlock leaves is what was there before the block.
LEMMA UndoneOnly ==
    ASSUME AllocTypeOK, BlockInOrder, UndoBlock, NEW e \in Elements'
    PROVE  \/ \E i \in DOMAIN current_schedule : e = current_schedule[i]
           \/ \E i \in 1..(Len(scheduled_transmissions) - block_size) : e = scheduled_transmissions[i]
<1>1. /\ scheduled_transmissions \in Seq(Placements)
      /\ block_size \in Nat /\ block_size <= Len(scheduled_transmissions)
  BY DEF UndoBlock, AllocTypeOK, BlockInOrder
<1> DEFINE kept == Len(scheduled_transmissions) - block_size
<1>2. kept \in 0..Len(scheduled_transmissions)
  BY <1>1
<1>3. /\ DOMAIN SubSeq(scheduled_transmissions, 1, kept) = 1..kept
      /\ \A i \in 1..kept : SubSeq(scheduled_transmissions, 1, kept)[i] = scheduled_transmissions[i]
  <2> HIDE DEF kept
  <2> QED
    BY <1>1, <1>2
<1>4. scheduled_transmissions' = SubSeq(scheduled_transmissions, 1, kept) /\ current_schedule' = current_schedule
  BY DEF UndoBlock
<1> QED
  BY <1>3, <1>4 DEF Elements

LEMMA SizeStep ==
    ASSUME AllocInv, SizeInv, [AllocNext]_<<net, allocVars>>
    PROVE  SizeInv'
<1>1. AllocTypeOK /\ BlockInOrder
  BY DEF AllocInv
<1>2. /\ newSize \in Nat \ {0} /\ todo \in Seq(Transmissions) /\ blocks \in Seq(Seq(Transmissions))
      /\ scheduled_transmissions \in Seq(Placements) /\ block_size \in Nat
  BY <1>1 DEF AllocTypeOK
<1>3. /\ \A e \in Elements : e.period \in Nat \ {0} /\ (newSize % e.period) = 0
      /\ \A i \in DOMAIN current_schedule : current_schedule[i] \in Elements
      /\ \A i \in DOMAIN scheduled_transmissions : scheduled_transmissions[i] \in Elements
  BY <1>1, ElementsTyped DEF SizeInv, Placements, Elements
<1>4. CASE NextBlock
  <2>1. /\ newSize' = newSize /\ lastSize' = newSize /\ block_size' = 0 /\ stage' = stage /\ stage # "done"
        /\ current_schedule' = current_schedule /\ scheduled_transmissions' = scheduled_transmissions
    BY <1>4 DEF NextBlock
  <2>2. 1..(Len(scheduled_transmissions) - 0) = DOMAIN scheduled_transmissions
    BY <1>2
  <2>3. Elements' = Elements
    BY <2>1 DEF Elements
  <2> QED
    BY <1>3, <2>1, <2>2, <2>3 DEF SizeInv
<1>5. CASE PlaceTransmission
  <2> DEFINE t == Head(todo)
  <2>1. PICK o \in Free(t) : scheduled_transmissions' = Append(scheduled_transmissions, Placed(t, o))
    BY <1>5 DEF PlaceTransmission
  <2> DEFINE new == Placed(t, o)
  <2>2. /\ todo # <<>> /\ lastSize' = lastSize /\ block_size' = block_size + 1 /\ stage' = stage
        /\ current_schedule' = current_schedule /\ newSize' = Lcm(newSize, t.period)
    BY <1>5 DEF PlaceTransmission
  <2>3. Elements' = Elements \cup {new} /\ new.period = t.period
    BY <1>2, <2>1, <2>2, AppendedElement DEF Placed
  <2>4. t.period \in Nat \ {0}
    <3>1. Head(todo) \in Transmissions
      BY <1>2, <2>2
    <3> QED
      BY <3>1 DEF Transmissions
  <2>5. stage # "done"
    BY <2>2 DEF SizeInv
  <2>6. /\ Len(scheduled_transmissions') = Len(scheduled_transmissions) + 1
        /\ Len(scheduled_transmissions) \in Nat
        /\ \A i \in 1..Len(scheduled_transmissions) :
                scheduled_transmissions'[i] = scheduled_transmissions[i]
    <3> HIDE DEF new
    <3>1. PICK x : x = new
      OBVIOUS
    <3>2. scheduled_transmissions' = Append(scheduled_transmissions, x)
      BY <2>1, <3>1 DEF new
    <3> QED
      BY <1>2, <3>2
  <2> HIDE DEF new, t
  <2>7. \A e \in Elements' : (newSize' % e.period) = 0
    <3>1. PICK c : c = Lcm(newSize, t.period)
      OBVIOUS
    <3>2. /\ (c % t.period) = 0
          /\ \A q \in Nat \ {0} : (newSize % q) = 0 => (c % q) = 0
      <4>1. /\ (Lcm(newSize, t.period) % t.period) = 0
            /\ \A q \in Nat \ {0} : (newSize % q) = 0 => (Lcm(newSize, t.period) % q) = 0
        BY <1>2, <2>4, SizeGrows
      <4> QED
        BY <3>1, <4>1
    <3>3. newSize' = c
      BY <2>2, <3>1
    <3> QED
      BY <1>3, <2>3, <3>2, <3>3
  <2>8. /\ Len(scheduled_transmissions') - block_size' = Len(scheduled_transmissions) - block_size
        /\ 1..(Len(scheduled_transmissions) - block_size) \subseteq 1..Len(scheduled_transmissions)
    BY <1>2, <2>2, <2>6
  <2>9. /\ \A i \in DOMAIN current_schedule : (lastSize % current_schedule[i].period) = 0
        /\ \A i \in 1..(Len(scheduled_transmissions) - block_size) :
                (lastSize % scheduled_transmissions[i].period) = 0
    BY <2>2 DEF SizeInv
  <2>10. \A i \in 1..(Len(scheduled_transmissions') - block_size') :
                (lastSize' % scheduled_transmissions'[i].period) = 0
    <3> SUFFICES ASSUME NEW i \in 1..(Len(scheduled_transmissions) - block_size)
                 PROVE  (lastSize' % scheduled_transmissions'[i].period) = 0
      BY <2>8
    <3>1. i \in 1..Len(scheduled_transmissions)
      BY <2>8
    <3>2. scheduled_transmissions'[i] = scheduled_transmissions[i]
      BY <2>6, <3>1
    <3> QED
      BY <2>2, <2>9, <3>2
  <2> QED
    BY <2>2, <2>5, <2>7, <2>9, <2>10 DEF SizeInv
<1>6. CASE SkipTransmission
  <2>1. /\ todo # <<>> /\ newSize' = newSize /\ lastSize' = lastSize /\ block_size' = block_size
        /\ current_schedule' = current_schedule /\ stage' = stage
        /\ scheduled_transmissions' = scheduled_transmissions
    BY <1>6 DEF SkipTransmission
  <2>2. Elements' = Elements
    BY <2>1 DEF Elements
  <2> QED
    BY <2>1, <2>2 DEF SizeInv
<1>7. CASE UndoBlock
  <2>1. /\ todo # <<>> /\ todo' = <<>> /\ newSize' = lastSize /\ stage' = stage
    BY <1>7 DEF UndoBlock
  <2>2. \A e \in Elements' : (lastSize % e.period) = 0
    BY <1>1, <1>7, <2>1, UndoneOnly DEF SizeInv
  <2>3. stage # "done"
    BY <2>1 DEF SizeInv
  <2> QED
    BY <2>1, <2>2, <2>3 DEF SizeInv
<1>8. CASE NextStage
  <2>1. /\ todo' = <<>> /\ newSize' = newSize /\ scheduled_transmissions' = <<>>
        /\ stage' = (IF stage = "established" THEN "accepted" ELSE "done")
        /\ blocks' = (IF stage = "established" THEN net.accepted ELSE <<>>)
    BY <1>8 DEF NextStage
  <2>2. Elements' \subseteq Elements
    BY <1>1, <1>8, StagedElements
  <2> QED
    BY <1>3, <2>1, <2>2 DEF SizeInv
<1>9. CASE UNCHANGED <<net, allocVars>>
  <2>1. Elements' = Elements
    BY <1>9 DEF Elements, allocVars
  <2> QED
    BY <1>9, <2>1 DEF SizeInv, allocVars
<1> QED
  BY <1>4, <1>5, <1>6, <1>7, <1>8, <1>9 DEF AllocNext

\* The allocation keeps them, so the schedule that is played has them.
ScheduleInv == AllocInv /\ BlocksInv /\ SizeInv /\ LinkedInv

LEMMA ScheduleInductive == Spec => []ScheduleInv
<1>1. AllocInit => ScheduleInv
  <2> SUFFICES ASSUME AllocInit PROVE ScheduleInv
    OBVIOUS
  <2>1. AllocInv
    BY InitInv
  <2>2. SizeInv
    BY DEF AllocInit, SizeInv, Elements
  <2>3. LinkedInv
    BY DEF AllocInit, LinkedInv, Elements
  <2> QED
    BY <2>1, <2>2, <2>3, BlocksInit DEF ScheduleInv
<1>2. ScheduleInv /\ [AllocNext]_<<net, allocVars>> => ScheduleInv'
  BY StepInv, BlocksStep, SizeStep, LinkedStep DEF ScheduleInv
<1>3. AllocSpec => []ScheduleInv
  BY <1>1, <1>2, PTL DEF AllocSpec
<1> QED
  BY <1>3, SchedulePlayed, PTL

-----------------------------------------------------------------------------
(***************************************************************************)
(* The transmissions of a stream that are in the schedule.                 *)
(***************************************************************************)
LEMMA StreamNamed ==
    ASSUME AllocTypeOK, NEW id \in Ids
    PROVE  /\ StreamOf(id) \in ToSet(Streams) /\ StreamOf(id).id = id
           /\ \A s \in ToSet(Streams) : s.id = id => s = StreamOf(id)
           /\ Count(id) \in {1, 2, 3}
           /\ Cardinality(BlocksOf(net, id)) \in {0, Count(id)}
           /\ StreamOf(id).src \in net.nodes /\ StreamOf(id).dst \in net.nodes
<1>1. \E s \in ToSet(Streams) : s.id = id
  BY DEF Ids, ToSet
<1>2. StreamOf(id) \in ToSet(Streams) /\ StreamOf(id).id = id
  BY <1>1 DEF StreamOf
<1>3. \A s, t \in ToSet(Streams) : s.id = t.id => s = t
  BY RouteParts
<1>4. /\ StreamOf(id).redundancy \in Redundancies
      /\ StreamOf(id).src \in net.nodes /\ StreamOf(id).dst \in net.nodes
  BY <1>2, RouteParts
<1>5. Count(id) \in {1, 2, 3}
  BY <1>4 DEF Count, RedundancyCount, Redundancies
<1>6. Cardinality(BlocksOf(net, id)) \in {0, Count(id)}
  BY <1>2, RouteParts DEF Count
<1> QED
  BY <1>2, <1>3, <1>4, <1>5, <1>6

\* The stream of an element, and the place of the element in its block.
LEMMA ElementParts ==
    ASSUME ScheduleInv, NEW e \in Elements
    PROVE  /\ e \in Placements /\ {e.tx, e.rx} \subseteq net.nodes /\ e.tx # e.rx
           /\ e.stream \in Ids /\ e.blk \in BlocksOf(net, e.stream)
           /\ e.src = StreamOf(e.stream).src /\ e.dst = StreamOf(e.stream).dst
           /\ e.period = StreamOf(e.stream).period
           /\ e.blk \in DOMAIN Blocks
           /\ \E i \in DOMAIN Blocks[e.blk] : Hop(e, Blocks[e.blk][i])
<1>1. AllocTypeOK /\ AllocInv /\ OffsetsInPeriod /\ BlocksInv
  BY DEF ScheduleInv, AllocInv
<1>2. e \in Placements /\ e.tx # e.rx
  BY <1>1, ElementsTyped DEF OffsetsInPeriod
<1>3. e.blk \in DOMAIN Blocks /\ \E i \in DOMAIN Blocks[e.blk] : Hop(e, Blocks[e.blk][i])
  BY <1>1 DEF BlocksInv
<1>4. PICK i \in DOMAIN Blocks[e.blk] : Hop(e, Blocks[e.blk][i])
  BY <1>3
<1>5. PICK s \in ToSet(Streams) :
        /\ Len(Blocks[e.blk]) \in Nat \ {0} /\ DOMAIN Blocks[e.blk] = 1..Len(Blocks[e.blk])
        /\ \A j \in DOMAIN Blocks[e.blk] :
                /\ Blocks[e.blk][j].stream = s.id /\ Blocks[e.blk][j].src = s.src
                /\ Blocks[e.blk][j].dst = s.dst /\ Blocks[e.blk][j].period = s.period
                /\ {Blocks[e.blk][j].tx, Blocks[e.blk][j].rx} \subseteq net.nodes
  BY <1>1, <1>3, BlockParts
<1>6. /\ e.stream = s.id /\ e.src = s.src /\ e.dst = s.dst /\ e.period = s.period
      /\ {e.tx, e.rx} \subseteq net.nodes
  BY <1>4, <1>5 DEF Hop
<1>7. e.stream \in Ids
  BY <1>5, <1>6 DEF Ids, ToSet
<1>8. s = StreamOf(e.stream)
  BY <1>1, <1>5, <1>6, <1>7, StreamNamed
<1>9. e.blk \in BlocksOf(net, e.stream)
  <2>1. 1 \in DOMAIN Blocks[e.blk]
    BY <1>5
  <2>2. Blocks[e.blk][1].stream = e.stream
    BY <1>5, <1>6, <2>1
  <2> QED
    BY <1>3, <2>2 DEF BlocksOf, Blocks
<1> QED
  BY <1>2, <1>3, <1>6, <1>7, <1>8, <1>9

LEMMA HopParts ==
    ASSUME ScheduleInv, NEW id \in Ids, NEW e \in Hops(id)
    PROVE  /\ e \in Elements /\ e.stream = id /\ e.blk \in BlocksOf(net, id)
           /\ e.src = StreamOf(id).src /\ e.dst = StreamOf(id).dst /\ e.period = StreamOf(id).period
           /\ e.tx \in net.nodes /\ e.rx \in net.nodes /\ e.tx # e.rx
           /\ e.offset \in Nat
  BY ElementParts DEF Hops, Placements

LEMMA BlocksOfFinite ==
    ASSUME AllocTypeOK, NEW id
    PROVE  IsFiniteSet(BlocksOf(net, id)) /\ BlocksOf(net, id) \subseteq DOMAIN Blocks
<1>1. BlocksOf(net, id) \subseteq DOMAIN Blocks
  BY DEF BlocksOf, Blocks
<1>2. PICK S : S = Seq(Transmissions)
  OBVIOUS
<1>3. Blocks \in Seq(S)
  BY <1>2, RouteParts
<1>4. DOMAIN Blocks = 1..Len(Blocks) /\ Len(Blocks) \in Nat
  BY <1>3
<1>5. IsFiniteSet(DOMAIN Blocks)
  BY <1>4, FS_Interval
<1> QED
  BY <1>1, <1>5, FS_Subset

\* When as many elements of a block are placed as it has transmissions, each of
\* them is placed.
LEMMA AllPlaced ==
    ASSUME ScheduleInv, NEW id \in Ids, Complete(id), NEW b \in BlocksOf(net, id),
           NEW i \in DOMAIN Blocks[b]
    PROVE  \E e \in Elements : e.blk = b /\ Hop(e, Blocks[b][i])
<1>1. AllocTypeOK /\ BlocksInv
  BY DEF ScheduleInv, AllocInv
<1>2. b \in DOMAIN Blocks
  BY <1>1, BlocksOfFinite
<1> DEFINE S == PlacedOf(b)
           D == DOMAIN Blocks[b]
           f == [e \in S |-> CHOOSE j \in D : Hop(e, Blocks[b][j])]
<1>3. D = 1..Len(Blocks[b]) /\ Len(Blocks[b]) \in Nat
  BY <1>1, <1>2, BlockParts
<1>4. IsFiniteSet(D) /\ Cardinality(D) = Len(Blocks[b])
  <2> HIDE DEF D
  <2> QED
    BY <1>3, FS_Interval
<1>5. \A e \in S : f[e] \in D /\ Hop(e, Blocks[b][f[e]])
  BY <1>1 DEF BlocksInv, PlacedOf
<1> HIDE DEF D
<1>6. f \in Injection(S, D)
  <2>1. f \in [S -> D]
    BY <1>5
  <2>2. ASSUME NEW e \in S, NEW g \in S, f[e] = f[g] PROVE e = g
    <3>1. e.blk = g.blk /\ e \in Elements /\ g \in Elements
      BY <2>2 DEF PlacedOf
    <3>2. e.tx = Blocks[b][f[e]].tx /\ g.tx = Blocks[b][f[g]].tx
      BY <1>5, <2>2 DEF Hop
    <3> HIDE DEF f
    <3>3. e.tx = g.tx
      BY <2>2, <3>2
    <3> QED
      BY <1>1, <3>1, <3>3 DEF BlocksInv
  <2> HIDE DEF f
  <2> QED
    BY <2>1, <2>2 DEF Injection, IsInjective
<1>7. Cardinality(S) = Len(Blocks[b])
  BY DEF Complete
<1> HIDE DEF f, S
<1>8. f \in Surjection(S, D)
  BY <1>4, <1>6, <1>7, FS_Injection
<1>9. PICK e \in S : f[e] = i
  BY <1>8 DEF Surjection, D
<1> QED
  BY <1>5, <1>9 DEF S, PlacedOf

\* A relay receives in the period before it sends.
LEMMA HopBefore ==
    ASSUME ScheduleInv, NEW id \in Ids, Complete(id), NEW e \in Hops(id), e.tx # StreamOf(id).src
    PROVE  \E d \in Hops(id) : /\ d.blk = e.blk /\ d.rx = e.tx /\ d.rx # d.dst
                               /\ d.offset < e.offset
<1>1. AllocTypeOK /\ BlocksInv /\ HopsFollow
  BY DEF ScheduleInv, AllocInv
<1>2. e \in Elements /\ e.blk \in BlocksOf(net, id) /\ e.stream = id
  BY HopParts
<1>3. e.blk \in DOMAIN Blocks
  BY <1>1, <1>2, BlocksOfFinite
<1>4. PICK b : b = e.blk
  OBVIOUS
<1>5. PICK i \in DOMAIN Blocks[b] : Hop(e, Blocks[b][i])
  BY <1>1, <1>2, <1>4 DEF BlocksInv
<1>6. PICK s \in ToSet(Streams) :
            /\ Len(Blocks[b]) \in Nat \ {0}
            /\ DOMAIN Blocks[b] = 1..Len(Blocks[b])
            /\ Blocks[b][1].tx = s.src /\ Blocks[b][Len(Blocks[b])].rx = s.dst
            /\ \A j \in DOMAIN Blocks[b] :
                    Blocks[b][j].stream = s.id /\ Blocks[b][j].src = s.src /\ Blocks[b][j].dst = s.dst
            /\ \A j \in 1..(Len(Blocks[b]) - 1) : Blocks[b][j].rx = Blocks[b][j + 1].tx
            /\ \A j, k \in DOMAIN Blocks[b] : Blocks[b][j].rx = Blocks[b][k].rx => j = k
  BY <1>1, <1>3, <1>4, BlockParts
<1>7. s = StreamOf(id)
  BY <1>1, <1>2, <1>5, <1>6, StreamNamed DEF Hop
<1>8. i # 1
  BY <1>5, <1>6, <1>7 DEF Hop
<1>9. i - 1 \in DOMAIN Blocks[b] /\ Blocks[b][i - 1].rx = Blocks[b][i].tx /\ i - 1 # Len(Blocks[b])
  <2>1. i \in 1..Len(Blocks[b]) /\ i - 1 \in 1..(Len(Blocks[b]) - 1) /\ (i - 1) + 1 = i
    BY <1>5, <1>6, <1>8
  <2>2. Blocks[b][i - 1].rx = Blocks[b][(i - 1) + 1].tx
    BY <1>6, <2>1
  <2>3. i - 1 \in 1..Len(Blocks[b]) /\ i - 1 # Len(Blocks[b])
    BY <1>6, <2>1
  <2> QED
    BY <1>6, <2>1, <2>2, <2>3
<1>10. PICK d \in Elements : d.blk = b /\ Hop(d, Blocks[b][i - 1])
  BY <1>2, <1>4, <1>9, AllPlaced
<1>11. d.rx = e.tx /\ d.stream = id /\ d.dst = s.dst
  BY <1>2, <1>5, <1>6, <1>9, <1>10 DEF Hop
<1>12. d.rx # s.dst
  <2>1. Len(Blocks[b]) \in DOMAIN Blocks[b]
    BY <1>6
  <2>2. d.rx = Blocks[b][i - 1].rx
    BY <1>10 DEF Hop
  <2> QED
    BY <1>6, <1>9, <2>1, <2>2
<1>13. d.offset < e.offset
  BY <1>1, <1>2, <1>4, <1>10, <1>11 DEF HopsFollow
<1> QED
  BY <1>4, <1>10, <1>11, <1>12, <1>13 DEF Hops

\* The first transmission of a block comes before the others.
LEMMA FirstBefore ==
    ASSUME ScheduleInv, NEW id \in Ids, Complete(id), NEW e \in Hops(id)
    PROVE  \E d \in FirstHops(id) : d.blk = e.blk /\ d.offset <= e.offset
<1> DEFINE O == {o \in Nat : \E d \in Hops(id) : d.blk = e.blk /\ d.offset = o /\ o <= e.offset}
<1>1. \A d \in Hops(id) : d.offset \in Nat
  BY HopParts
<1>2. e.offset \in O
  BY <1>1
<1>3. PICK o \in O : \A p \in O : o <= p
  <2>1. O \subseteq Nat /\ O # {}
    BY <1>2
  <2> HIDE DEF O
  <2> QED
    BY <2>1, LeastNumber
<1>4. PICK d \in Hops(id) : d.blk = e.blk /\ d.offset = o /\ o <= e.offset
  BY <1>3
<1>5. ASSUME d.tx # StreamOf(id).src PROVE FALSE
  <2>1. PICK c \in Hops(id) : c.blk = d.blk /\ c.offset < d.offset
    BY <1>5, HopBefore
  <2>2. c.offset \in Nat /\ c.offset <= e.offset
    BY <1>1, <1>4, <2>1
  <2>3. c.offset \in O
    BY <1>4, <2>1, <2>2
  <2>4. o <= c.offset
    BY <1>3, <2>3
  <2> HIDE DEF O
  <2>5. d.offset \in Nat /\ d.offset = o /\ c.offset < d.offset
    BY <1>1, <1>4, <2>1
  <2> QED
    BY <2>2, <2>4, <2>5
<1> QED
  BY <1>4, <1>5 DEF FirstHops

\* Transmissions that share a slot share no node.
LEMMA ThreeNodes ==
    ASSUME NEW a, NEW b, NEW c
    PROVE  Cardinality({a, b, c}) \in 0..3
<1>1. IsFiniteSet({a}) /\ Cardinality({a}) = 1
  BY FS_Singleton
<1>2. IsFiniteSet({a} \cup {b}) /\ Cardinality({a} \cup {b}) \in 1..2
  BY <1>1, FS_AddElement
<1>3. IsFiniteSet({a, b}) /\ Cardinality({a, b}) \in 1..2
  <2>1. {a} \cup {b} = {a, b}
    OBVIOUS
  <2> QED
    BY <1>2, <2>1
<1>4. Cardinality({a, b} \cup {c}) \in 1..3
  BY <1>3, FS_AddElement
<1>5. {a, b} \cup {c} = {a, b, c}
  OBVIOUS
<1> QED
  BY <1>4, <1>5

LEMMA SameSlotApart ==
    ASSUME AllocInv, NEW e \in Elements, NEW f \in Elements, NEW k \in Nat, Uses(e, k), Uses(f, k), e # f
    PROVE  /\ Compatible(e, f)
           /\ {e.tx, e.rx} \cap {f.tx, f.rx} = {}
<1>1. Compatible(e, f)
  BY UsersConflict DEF AllocInv, MeetingCompatible
<1>2. Cardinality({e.tx, e.rx, f.tx, f.rx}) = 4
  BY <1>1 DEF Compatible
<1>3. ASSUME e.tx \in {f.tx, f.rx} PROVE FALSE
  <2>1. {e.tx, e.rx, f.tx, f.rx} = {e.rx, f.tx, f.rx}
    BY <1>3
  <2>2. Cardinality({e.rx, f.tx, f.rx}) \in 0..3
    BY ThreeNodes
  <2> QED
    BY <1>2, <2>1, <2>2
<1>4. ASSUME e.rx \in {f.tx, f.rx} PROVE FALSE
  <2>1. {e.tx, e.rx, f.tx, f.rx} = {e.tx, f.tx, f.rx}
    BY <1>4
  <2>2. Cardinality({e.tx, f.tx, f.rx}) \in 0..3
    BY ThreeNodes
  <2> QED
    BY <1>2, <2>1, <2>2
<1> QED
  BY <1>1, <1>3, <1>4

-----------------------------------------------------------------------------
(***************************************************************************)
(* Slots and periods.                                                      *)
(***************************************************************************)
LEMMA SlotPhase ==
    ASSUME NEW P \in Nat \ {0}, NEW o \in 0..(P - 1), NEW k \in Nat
    PROVE  (k >= o /\ ((k - o) % P) = 0) <=> (k % P) = o
<1>1. ASSUME k >= o, ((k - o) % P) = 0 PROVE (k % P) = o
  <2>1. k - o \in Nat
    BY <1>1
  <2>2. PICK q \in Nat : k - o = P * q
    BY <1>1, <2>1, MultipleExists
  <2>3. k = P * q + o
    <3>1. PICK m : m = P * q
      OBVIOUS
    <3>2. m \in Nat /\ k - o = m
      BY <2>2, <3>1
    <3> QED
      BY <3>1, <3>2
  <2> QED
    BY <2>3, DivModUnique
<1>2. ASSUME (k % P) = o PROVE k >= o /\ ((k - o) % P) = 0
  <2>1. PICK q, r : q = k \div P /\ r = k % P
    OBVIOUS
  <2>2. q \in Nat /\ r \in 0..(P - 1) /\ k = P * q + r
    BY <2>1, DivMod
  <2>3. PICK m : m = P * q
    OBVIOUS
  <2>4. m \in Nat /\ k = m + r /\ r = o
    BY <1>2, <2>1, <2>2, <2>3
  <2>5. k >= o /\ k - o \in Nat /\ k - o = m
    BY <2>4
  <2>6. ((k - o) % P) = 0
    BY <2>2, <2>3, <2>5, MultipleExists
  <2> QED
    BY <2>5, <2>6
<1> QED
  BY <1>1, <1>2

\* The slot after slot k of a schedule of Z slots, in a period of P.
PhaseAdvances(k, Z, P) == (((k + 1) % Z) % P) = IF (k % P) + 1 = P THEN 0 ELSE (k % P) + 1

LEMMA NextPhase ==
    ASSUME NEW P \in Nat \ {0}, NEW Z \in Nat \ {0}, (Z % P) = 0, NEW k \in 0..(Z - 1)
    PROVE  PhaseAdvances(k, Z, P)
<1>1. PICK q, p : q = k \div P /\ p = k % P
  OBVIOUS
<1>2. q \in Nat /\ p \in 0..(P - 1) /\ k = P * q + p
  <2>1. k \in Nat
    OBVIOUS
  <2> QED
    BY <1>1, <2>1, DivMod
<1>3. ASSUME p + 1 = P PROVE ((k + 1) % P) = 0
  <2>1. k + 1 = P * (q + 1) /\ q + 1 \in Nat
    BY <1>2, <1>3
  <2> QED
    BY <2>1, MultipleExists
<1>4. ASSUME p + 1 # P PROVE ((k + 1) % P) = p + 1
  <2>1. p + 1 \in 0..(P - 1)
    BY <1>2, <1>4
  <2>2. ((P * q + (p + 1)) % P) = p + 1
    BY <1>2, <2>1, DivModUnique
  <2>3. P * q + (p + 1) = k + 1
    <3>1. PICK m : m = P * q
      OBVIOUS
    <3>2. m \in Nat /\ k = m + p
      BY <1>2, <3>1
    <3>3. m + (p + 1) = k + 1
      BY <1>2, <3>2
    <3> QED
      BY <3>1, <3>3
  <2> QED
    BY <2>2, <2>3
<1>5. CASE k + 1 = Z
  <2>1. Z = Z * 1
    OBVIOUS
  <2>2. ((k + 1) % Z) = 0
    BY <1>5, <2>1, MultipleExists
  <2>3. (0 % P) = 0
    <3>1. 0 = P * 0 /\ 0 \in Nat
      OBVIOUS
    <3> QED
      BY <3>1, MultipleExists
  <2>4. p + 1 = P
    <3> SUFFICES ASSUME p + 1 # P PROVE FALSE
      OBVIOUS
    <3>1. ((k + 1) % P) = p + 1
      BY <1>4
    <3>2. ((k + 1) % P) = 0
      BY <1>5
    <3> QED
      BY <1>2, <3>1, <3>2
  <2> QED
    BY <1>1, <2>2, <2>3, <2>4 DEF PhaseAdvances
<1>6. CASE k + 1 # Z
  <2>1. k + 1 \in 0..(Z - 1)
    BY <1>6
  <2>2. ((Z * 0 + (k + 1)) % Z) = k + 1
    BY <2>1, DivModUnique
  <2>3. Z * 0 + (k + 1) = k + 1
    OBVIOUS
  <2>4. ((k + 1) % Z) = k + 1
    BY <2>2, <2>3
  <2> QED
    BY <1>1, <1>3, <1>4, <2>4 DEF PhaseAdvances
<1> QED
  BY <1>5, <1>6

\* A transmission has its slot in each period of its stream.
LEMMA HopPhase ==
    ASSUME ScheduleInv, NEW id \in Ids, NEW e \in Hops(id), slot \in Nat
    PROVE  LET P == StreamOf(id).period * net.slotsPerTile
           IN  /\ P \in Nat \ {0} /\ e.offset \in 0..(P - 1)
               /\ Phase(id) \in 0..(P - 1) /\ Phase(id) = slot % P
               /\ ScheduleSlots \in Nat \ {0} /\ (ScheduleSlots % P) = 0
               /\ Uses(e, slot) <=> e.offset = Phase(id)
<1>1. AllocTypeOK /\ OffsetsInPeriod /\ SizeInv
  BY DEF ScheduleInv, AllocInv
<1>2. e \in Elements /\ e.period = StreamOf(id).period /\ e.offset \in Nat
  BY HopParts
<1>3. e.period \in Nat \ {0}
  BY <1>1, <1>2, ElementsTyped DEF Placements
<1>4. net.slotsPerTile \in Nat \ {0} /\ newSize \in Nat \ {0}
  BY <1>1, NetworkParts DEF AllocTypeOK
<1>5. PICK P : P = StreamOf(id).period * net.slotsPerTile
  OBVIOUS
<1>6. P \in Nat \ {0} /\ P = PeriodSlots(net, e)
  BY <1>2, <1>3, <1>4, <1>5, Product DEF PeriodSlots
<1>7. e.offset \in 0..(P - 1)
  BY <1>1, <1>2, <1>6 DEF OffsetsInPeriod
<1>8. Phase(id) = slot % P
  BY <1>5 DEF Phase
<1>9. Phase(id) \in 0..(P - 1)
  <2>1. (slot % P) \in 0..(P - 1)
    BY <1>6, DivMod
  <2> QED
    BY <1>8, <2>1
<1>10. Uses(e, slot) <=> e.offset = Phase(id)
  <2>1. Uses(e, slot) <=> (slot >= e.offset /\ ((slot - e.offset) % P) = 0)
    BY <1>6 DEF Uses
  <2>2. (slot >= e.offset /\ ((slot - e.offset) % P) = 0) <=> (slot % P) = e.offset
    BY <1>6, <1>7, SlotPhase
  <2> QED
    BY <1>8, <2>1, <2>2
<1>11. ScheduleSlots \in Nat \ {0} /\ (ScheduleSlots % P) = 0
  <2>1. (newSize % e.period) = 0
    BY <1>1, <1>2 DEF SizeInv
  <2>2. PICK k \in Nat : newSize = e.period * k
    BY <1>3, <1>4, <2>1, MultipleExists
  <2>3. newSize * net.slotsPerTile = P * k
    BY <1>2, <1>3, <1>4, <1>5, <2>2
  <2>4. newSize * net.slotsPerTile \in Nat \ {0}
    BY <1>4, Product
  <2> QED
    BY <1>6, <2>2, <2>3, <2>4, MultipleExists DEF ScheduleSlots
<1> QED
  BY <1>5, <1>6, <1>7, <1>8, <1>9, <1>10, <1>11

-----------------------------------------------------------------------------
(***************************************************************************)
(* What the nodes do in a slot.                                            *)
(***************************************************************************)
LEMMA Roles ==
    ASSUME NEW n, NEW e, e.tx # e.rx
    PROVE  /\ Role(n, e) # "SLEEP" <=> n \in {e.tx, e.rx}
           /\ (e.tx = n /\ e.src = n) <=> Role(n, e) = "SENDSTREAM"
           /\ (e.tx = n /\ e.src # n) <=> Role(n, e) = "SENDBUFFER"
           /\ (e.rx = n /\ e.dst = n) <=> Role(n, e) = "RECVSTREAM"
           /\ (e.rx = n /\ e.dst # n) <=> Role(n, e) = "RECVBUFFER"
<1>1. CASE e.tx = n /\ e.src = n
  BY <1>1 DEF Role
<1>2. CASE e.rx = n /\ e.dst = n
  BY <1>2 DEF Role
<1>3. CASE e.tx = n /\ e.src # n
  BY <1>3 DEF Role
<1>4. CASE e.rx = n /\ e.dst # n
  BY <1>4 DEF Role
<1>5. CASE e.tx # n /\ e.rx # n
  BY <1>5 DEF Role
<1> QED
  BY <1>1, <1>2, <1>3, <1>4, <1>5

LEMMA Greatest ==
    ASSUME NEW m \in Nat, NEW S, S \subseteq 1..m, S # {}
    PROVE  \E i \in S : \A j \in S : j <= i
<1> DEFINE T == {k \in Nat : \E i \in S : k = m - i}
<1>1. T \subseteq Nat /\ T # {}
  <2>1. PICK i \in S : TRUE
    OBVIOUS
  <2>2. i \in 1..m
    BY <2>1
  <2>3. m - i \in Nat
    BY <2>2
  <2> QED
    BY <2>1, <2>3
<1>2. PICK k \in T : \A j \in T : k <= j
  <2> HIDE DEF T
  <2> QED
    BY <1>1, LeastNumber
<1>3. PICK i \in S : k = m - i
  BY <1>2
<1>4. ASSUME NEW j \in S PROVE j <= i
  <2>1. j \in 1..m /\ i \in 1..m
    BY <1>3, <1>4
  <2>2. m - j \in T
    BY <1>4, <2>1
  <2>3. k <= m - j
    BY <1>2, <2>2
  <2> QED
    BY <1>3, <2>1, <2>3
<1> QED
  BY <1>3, <1>4

\* The schedule that nodes play.
Expanded ==
    /\ stage = "done"
    /\ explicit = [n \in net.nodes |-> ExpandSchedule(n, current_schedule, ScheduleSlots)]

\* A node acts in a slot as the one element that uses the slot and has the node
\* at an end says.
LEMMA EntryOf ==
    ASSUME ScheduleInv, Expanded, slot \in 0..(ScheduleSlots - 1), NEW n \in net.nodes
    PROVE  /\ \A e \in Elements : (Uses(e, slot) /\ n \in {e.tx, e.rx}) =>
                Entry(n).action = Role(n, e) /\ Entry(n).stream = e.stream
           /\ Entry(n).action # "SLEEP" =>
                \E e \in Elements : /\ Uses(e, slot) /\ n \in {e.tx, e.rx}
                                    /\ Entry(n).action = Role(n, e) /\ Entry(n).stream = e.stream
           /\ \A e \in Elements : (Uses(e, slot) /\ n \in {e.tx, e.rx}) =>
                \E w \in DOMAIN current_schedule :
                    current_schedule[w] = e /\ Entry(n).hasBuffer = HasBuffer(n, current_schedule, w)
<1>1. AllocInv /\ AllocTypeOK /\ SizeInv
  BY DEF ScheduleInv, AllocInv
<1>2. current_schedule \in Seq(Placements) /\ scheduled_transmissions = <<>> /\ slot \in Nat
  <2>1. newSize * net.slotsPerTile \in Nat
    BY <1>1, NetworkParts DEF AllocTypeOK
  <2> QED
    BY <1>1, <2>1 DEF SizeInv, Expanded, AllocTypeOK, ScheduleSlots
<1> DEFINE Acting == {i \in DOMAIN current_schedule :
                        Role(n, current_schedule[i]) # "SLEEP" /\ Uses(current_schedule[i], slot)}
           Winner == CHOOSE i \in Acting : \A j \in Acting : j <= i
<1>3. /\ Acting = {} => Entry(n).action = "SLEEP"
      /\ Acting # {} => /\ Entry(n).action = Role(n, current_schedule[Winner])
                        /\ Entry(n).stream = current_schedule[Winner].stream
                        /\ Entry(n).hasBuffer = HasBuffer(n, current_schedule, Winner)
  BY DEF Entry, Expanded, ExpandSchedule, Sleep
<1>4. \A e : e \in Elements <=> \E i \in DOMAIN current_schedule : e = current_schedule[i]
  BY <1>2 DEF Elements
<1>5. \A e \in Elements : e.tx # e.rx
  BY <1>1 DEF AllocInv, OffsetsInPeriod
<1>6. Acting # {} => Winner \in Acting
  <2> SUFFICES ASSUME Acting # {} PROVE Winner \in Acting
    OBVIOUS
  <2>1. Acting \subseteq 1..Len(current_schedule) /\ Len(current_schedule) \in Nat
    BY <1>2
  <2> HIDE DEF Acting
  <2>2. \E i \in Acting : \A j \in Acting : j <= i
    BY <2>1, Greatest
  <2> QED
    BY <2>2
<1>7. Acting # {} => /\ current_schedule[Winner] \in Elements
                     /\ Uses(current_schedule[Winner], slot)
                     /\ n \in {current_schedule[Winner].tx, current_schedule[Winner].rx}
  <2> SUFFICES ASSUME Acting # {} PROVE /\ current_schedule[Winner] \in Elements
                     /\ Uses(current_schedule[Winner], slot)
                     /\ n \in {current_schedule[Winner].tx, current_schedule[Winner].rx}
    OBVIOUS
  <2>1. Winner \in Acting
    BY <1>6
  <2> HIDE DEF Winner
  <2>2. /\ current_schedule[Winner] \in Elements /\ Uses(current_schedule[Winner], slot)
        /\ Role(n, current_schedule[Winner]) # "SLEEP"
    BY <1>4, <2>1
  <2> QED
    BY <1>5, <2>2, Roles
<1>8. ASSUME NEW e \in Elements, Uses(e, slot), n \in {e.tx, e.rx}
      PROVE  /\ Entry(n).action = Role(n, e) /\ Entry(n).stream = e.stream
             /\ \E w \in DOMAIN current_schedule :
                    current_schedule[w] = e /\ Entry(n).hasBuffer = HasBuffer(n, current_schedule, w)
  <2>1. PICK i \in DOMAIN current_schedule : e = current_schedule[i]
    BY <1>4, <1>8
  <2>2. i \in Acting
    BY <1>5, <1>8, <2>1, Roles
  <2>3. Acting # {}
    BY <2>2
  <2>4. Winner \in DOMAIN current_schedule
    BY <1>6, <2>3
  <2> HIDE DEF Acting, Winner
  <2>5. current_schedule[Winner] = e
    BY <1>1, <1>2, <1>7, <1>8, <2>3, SameSlotApart
  <2> QED
    BY <1>3, <2>3, <2>4, <2>5
<1> HIDE DEF Acting, Winner
<1> QED
  BY <1>3, <1>7, <1>8

\* The source sends its packet, a relay what it holds: it has the buffer when
\* it receives the block that it sends.
LEMMA SentBy ==
    ASSUME ScheduleInv, Expanded, slot \in 0..(ScheduleSlots - 1),
           NEW id \in Ids, NEW e \in Hops(id), Uses(e, slot)
    PROVE  LET sends == IF e.tx = StreamOf(id).src
                        THEN [stream |-> id, packet |-> SendPacket(tx[id], Count(id)).txPacket]
                        ELSE buffer[e.tx][id]
           IN  /\ Sent(e.tx) \in {Empty, sends}
               /\ (e.tx \notin out /\ (e.tx = StreamOf(id).src \/ Entry(e.tx).hasBuffer)) =>
                        Sent(e.tx) = sends
<1>1. e \in Elements /\ e.stream = id /\ e.src = StreamOf(id).src /\ e.tx \in net.nodes /\ e.tx # e.rx
  BY HopParts
<1>2. Entry(e.tx).action = Role(e.tx, e) /\ Entry(e.tx).stream = id
  BY <1>1, EntryOf
<1>3. CASE e.tx = StreamOf(id).src
  <2>1. Entry(e.tx).action = "SENDSTREAM"
    BY <1>1, <1>2, <1>3, Roles
  <2> QED
    BY <1>2, <1>3, <2>1 DEF Sent
<1>4. CASE e.tx # StreamOf(id).src
  <2>1. Entry(e.tx).action = "SENDBUFFER"
    BY <1>1, <1>2, <1>4, Roles
  <2> QED
    BY <1>2, <1>4, <2>1 DEF Sent
<1> QED
  BY <1>3, <1>4

LEMMA RelayHasBuffer ==
    ASSUME ScheduleInv, Expanded, slot \in 0..(ScheduleSlots - 1),
           NEW id \in Ids, NEW e \in Hops(id), Uses(e, slot),
           NEW d \in Hops(id), d.blk = e.blk, d.rx = e.tx, d.rx # d.dst
    PROVE  Entry(e.tx).hasBuffer
<1>1. /\ e \in Elements /\ d \in Elements /\ e.stream = id /\ d.stream = id
      /\ e.tx \in net.nodes /\ d.tx # d.rx
  BY HopParts
<1>2. current_schedule \in Seq(Placements) /\ scheduled_transmissions = <<>>
  BY DEF ScheduleInv, AllocInv, AllocTypeOK, SizeInv, Expanded
<1>3. PICK w \in DOMAIN current_schedule :
        current_schedule[w] = e /\ Entry(e.tx).hasBuffer = HasBuffer(e.tx, current_schedule, w)
  BY <1>1, EntryOf
<1>4. PICK j \in DOMAIN current_schedule : current_schedule[j] = d
  BY <1>1, <1>2 DEF Elements
<1>5. current_schedule \o scheduled_transmissions = current_schedule
  BY <1>2
<1>6. j < w
  BY <1>3, <1>4, <1>5 DEF ScheduleInv, LinkedInv
<1>7. Role(e.tx, d) = "RECVBUFFER"
  BY <1>1, Roles
<1>8. j \in 1..w
  BY <1>2, <1>3, <1>4, <1>6
<1> QED
  BY <1>1, <1>3, <1>4, <1>7, <1>8 DEF HasBuffer

\* Nobody else that the receiver can hear sends.
LEMMA OnlySender ==
    ASSUME ScheduleInv, Expanded, slot \in 0..(ScheduleSlots - 1),
           NEW id \in Ids, NEW e \in Hops(id), Uses(e, slot)
    PROVE  Senders(e.rx) \subseteq {e.tx}
<1>1. e \in Elements
  BY HopParts
<1>2. AllocInv /\ AllocTypeOK /\ slot \in Nat
  <2>1. newSize * net.slotsPerTile \in Nat
    BY NetworkParts DEF ScheduleInv, AllocInv, AllocTypeOK
  <2> QED
    BY <2>1 DEF ScheduleInv, AllocInv, ScheduleSlots
<1>3. ASSUME NEW n \in Senders(e.rx) PROVE n = e.tx
  <2>1. n \in net.nodes /\ Sent(n).packet # NoPacket /\ <<n, e.rx>> \in net.weak_graph
    BY <1>3 DEF Senders, HasEdge
  <2>2. Entry(n).action \in {"SENDSTREAM", "SENDBUFFER"}
    BY <2>1 DEF Sent, Empty
  <2>3. PICK f \in Elements : Uses(f, slot) /\ Entry(n).action = Role(n, f)
    BY <2>1, <2>2, EntryOf
  <2>4. f.tx # f.rx
    BY <1>2 DEF AllocInv, OffsetsInPeriod
  <2>5. f.tx = n
    BY <2>2, <2>3, <2>4, Roles
  <2>6. ASSUME f # e PROVE FALSE
    <3>1. Compatible(f, e)
      BY <1>1, <1>2, <2>3, <2>6, SameSlotApart
    <3>2. <<n, e.rx>> \notin net.weak_graph
      BY <1>2, <2>5, <3>1, RouteParts DEF Compatible
    <3> QED
      BY <2>1, <3>2
  <2> QED
    BY <2>5, <2>6
<1> QED
  BY <1>3

LEMMA HeardBy ==
    ASSUME ScheduleInv, Expanded, slot \in 0..(ScheduleSlots - 1),
           NEW id \in Ids, NEW e \in Hops(id), Uses(e, slot), NEW failed
    PROVE  Heard(e.rx, failed) \in {Empty, Sent(e.tx)}
<1>1. Senders(e.rx) \subseteq {e.tx}
  BY OnlySender
<1>2. CASE e.rx \in Audible \ failed
  <2>1. Cardinality(Senders(e.rx)) = 1
    BY <1>2 DEF Audible
  <2>2. Senders(e.rx) # {} /\ Senders(e.rx) \subseteq net.nodes
    <3>1. Cardinality({}) = 0
      BY FS_EmptySet
    <3> QED
      BY <2>1, <3>1 DEF Senders
  <2>3. (CHOOSE n \in net.nodes : n \in Senders(e.rx)) \in Senders(e.rx)
    BY <2>2
  <2> QED
    BY <1>1, <1>2, <2>3 DEF Heard
<1>3. CASE e.rx \notin Audible \ failed
  BY <1>3 DEF Heard
<1> QED
  BY <1>2, <1>3

\* What is sent is heard, unless the reception fails.
LEMMA HopHeard ==
    ASSUME ScheduleInv, Expanded, slot \in 0..(ScheduleSlots - 1),
           NEW id \in Ids, NEW e \in Hops(id), Uses(e, slot), NEW failed,
           e.rx \notin failed, e.rx \notin out, Sent(e.tx).packet # NoPacket
    PROVE  Heard(e.rx, failed) = Sent(e.tx)
<1>1. e \in Elements /\ e.tx \in net.nodes /\ e.rx \in net.nodes /\ e.tx # e.rx
  BY HopParts
<1>2. HasEdge(net.weak_graph, e.tx, e.rx)
  <2>1. HasEdge(net.network_graph, e.tx, e.rx)
    BY <1>1 DEF ScheduleInv, LinkedInv
  <2>2. net.network_graph \subseteq net.weak_graph
    BY RouteParts DEF ScheduleInv, AllocInv
  <2> QED
    BY <2>1, <2>2 DEF HasEdge
<1>3. Senders(e.rx) = {e.tx}
  <2>1. e.tx \in Senders(e.rx)
    BY <1>1, <1>2 DEF Senders
  <2> QED
    BY <2>1, OnlySender
<1>4. e.rx \in Audible
  <2>1. Cardinality(Senders(e.rx)) = 1
    BY <1>3, FS_Singleton
  <2>2. Entry(e.rx).action \in {"RECVSTREAM", "RECVBUFFER"}
    <3>1. Entry(e.rx).action = Role(e.rx, e)
      BY <1>1, EntryOf
    <3> QED
      BY <1>1, <3>1, Roles
  <2> QED
    BY <1>1, <2>1, <2>2 DEF Audible, Does
<1>5. (CHOOSE n \in net.nodes : n \in Senders(e.rx)) = e.tx
  BY <1>1, <1>3
<1> QED
  BY <1>4, <1>5 DEF Heard

\* Source and destination count the slots of the first and the last hops.
LEMMA EndsAct ==
    ASSUME ScheduleInv, Expanded, slot \in 0..(ScheduleSlots - 1), NEW id \in Ids
    PROVE  /\ Sending(id) <=> \E e \in FirstHops(id) : Uses(e, slot)
           /\ Receiving(id, StreamOf(id).dst) <=> \E e \in LastHops(id) : Uses(e, slot)
<1> DEFINE s == StreamOf(id)
<1>1. s.src \in net.nodes /\ s.dst \in net.nodes
  BY StreamNamed DEF ScheduleInv, AllocInv
<1>2. \A e \in Elements : e.tx # e.rx /\ e.src = StreamOf(e.stream).src /\ e.dst = StreamOf(e.stream).dst
  BY ElementParts
<1> HIDE DEF s
<1>3. ASSUME Sending(id) PROVE \E e \in FirstHops(id) : Uses(e, slot)
  <2>1. Entry(s.src).action = "SENDSTREAM" /\ Entry(s.src).stream = id
    BY <1>3 DEF Sending, s
  <2>2. PICK e \in Elements : Uses(e, slot) /\ Role(s.src, e) = "SENDSTREAM" /\ e.stream = id
    BY <1>1, <2>1, EntryOf
  <2>3. e.tx = s.src
    BY <1>2, <2>2, Roles
  <2> QED
    BY <2>2, <2>3 DEF FirstHops, Hops, s
<1>4. ASSUME NEW e \in FirstHops(id), Uses(e, slot) PROVE Sending(id)
  <2>1. e \in Elements /\ e.stream = id /\ e.tx = s.src
    BY <1>4 DEF FirstHops, Hops, s
  <2>2. Role(s.src, e) = "SENDSTREAM"
    BY <1>2, <2>1, Roles DEF s
  <2> QED
    BY <1>1, <1>4, <2>1, <2>2, EntryOf DEF Sending, s
<1>5. ASSUME Receiving(id, s.dst) PROVE \E e \in LastHops(id) : Uses(e, slot)
  <2>1. Entry(s.dst).action = "RECVSTREAM" /\ Entry(s.dst).stream = id
    BY <1>5 DEF Receiving
  <2>2. PICK e \in Elements : Uses(e, slot) /\ Role(s.dst, e) = "RECVSTREAM" /\ e.stream = id
    BY <1>1, <2>1, EntryOf
  <2>3. e.rx = s.dst
    BY <1>2, <2>2, Roles
  <2> QED
    BY <2>2, <2>3 DEF LastHops, Hops, s
<1>6. ASSUME NEW e \in LastHops(id), Uses(e, slot) PROVE Receiving(id, s.dst)
  <2>1. e \in Elements /\ e.stream = id /\ e.rx = s.dst
    BY <1>6 DEF LastHops, Hops, s
  <2>2. Role(s.dst, e) = "RECVSTREAM"
    BY <1>2, <2>1, Roles DEF s
  <2> QED
    BY <1>1, <1>6, <2>1, <2>2, EntryOf DEF Receiving
<1> QED
  BY <1>3, <1>4, <1>5, <1>6 DEF s

-----------------------------------------------------------------------------
(***************************************************************************)
(* The counters of a period.                                               *)
(***************************************************************************)
\* A block that is complete has one first and one last transmission.
LEMMA FirstHopsCounted ==
    ASSUME ScheduleInv, NEW id \in Ids, Complete(id)
    PROVE  IsFiniteSet(FirstHops(id)) /\ Cardinality(FirstHops(id)) \in {0, Count(id)}
<1> DEFINE H == FirstHops(id)
           B == BlocksOf(net, id)
           f == [e \in H |-> e.blk]
<1>1. AllocTypeOK /\ BlocksInv
  BY DEF ScheduleInv, AllocInv
<1>2. IsFiniteSet(B) /\ Cardinality(B) \in {0, Count(id)}
  BY <1>1, BlocksOfFinite, StreamNamed
<1>3. f \in [H -> B]
  BY HopParts DEF FirstHops
<1>4. ASSUME NEW e \in H, NEW g \in H, f[e] = f[g] PROVE e = g
  <2>1. e.blk = g.blk /\ e.tx = g.tx /\ e \in Elements /\ g \in Elements
    BY <1>4 DEF FirstHops, Hops
  <2> QED
    BY <1>1, <2>1 DEF BlocksInv
<1>5. ASSUME NEW b \in B PROVE \E e \in H : f[e] = b
  <2>1. b \in DOMAIN Blocks /\ Blocks[b][1].stream = id
    BY <1>1, BlocksOfFinite DEF BlocksOf, Blocks
  <2>2. PICK s \in ToSet(Streams) :
            /\ Len(Blocks[b]) \in Nat \ {0} /\ DOMAIN Blocks[b] = 1..Len(Blocks[b])
            /\ Blocks[b][1].tx = s.src
            /\ \A i \in DOMAIN Blocks[b] : Blocks[b][i].stream = s.id
    BY <1>1, <2>1, BlockParts
  <2>3. 1 \in DOMAIN Blocks[b]
    BY <2>2
  <2>4. s = StreamOf(id)
    BY <1>1, <2>1, <2>2, <2>3, StreamNamed
  <2>5. PICK e \in Elements : e.blk = b /\ Hop(e, Blocks[b][1])
    BY <2>3, AllPlaced
  <2>6. e \in H
    BY <2>1, <2>2, <2>4, <2>5 DEF Hop, FirstHops, Hops
  <2> QED
    BY <2>5, <2>6
<1> HIDE DEF f, B, H
<1>6. f \in Injection(H, B)
  BY <1>3, <1>4 DEF Injection, IsInjective
<1>7. f \in Surjection(H, B)
  BY <1>3, <1>5 DEF Surjection
<1> QED
  BY <1>2, <1>6, <1>7, FS_Injection DEF H

\* A block meets no node twice.
LEMMA SameArrival ==
    ASSUME ScheduleInv, NEW e \in Elements, NEW g \in Elements, e.blk = g.blk, e.rx = g.rx
    PROVE  e = g
<1>1. AllocTypeOK /\ BlocksInv
  BY DEF ScheduleInv, AllocInv
<1>2. PICK b : b = e.blk
  OBVIOUS
<1>3. b \in DOMAIN Blocks
  BY <1>1, <1>2 DEF BlocksInv
<1>4. PICK i \in DOMAIN Blocks[b] : Hop(e, Blocks[b][i])
  BY <1>1, <1>2 DEF BlocksInv
<1>5. PICK j \in DOMAIN Blocks[b] : Hop(g, Blocks[b][j])
  BY <1>1, <1>2 DEF BlocksInv
<1>6. \A k, l \in DOMAIN Blocks[b] : Blocks[b][k].rx = Blocks[b][l].rx => k = l
  BY <1>1, <1>3, BlockParts
<1>7. i = j
  BY <1>4, <1>5, <1>6 DEF Hop
<1>8. e.tx = g.tx
  BY <1>4, <1>5, <1>7 DEF Hop
<1> QED
  BY <1>1, <1>8 DEF BlocksInv

\* And it ends at the destination.
LEMMA LastPlaced ==
    ASSUME ScheduleInv, NEW id \in Ids, Complete(id), NEW b \in BlocksOf(net, id)
    PROVE  \E e \in PlacedOf(b) : e \in LastHops(id)
<1>1. AllocTypeOK
  BY DEF ScheduleInv, AllocInv
<1>2. b \in DOMAIN Blocks /\ Blocks[b][1].stream = id
  BY <1>1, BlocksOfFinite DEF BlocksOf, Blocks
<1>3. PICK s \in ToSet(Streams) :
          /\ Len(Blocks[b]) \in Nat \ {0} /\ DOMAIN Blocks[b] = 1..Len(Blocks[b])
          /\ Blocks[b][Len(Blocks[b])].rx = s.dst
          /\ \A i \in DOMAIN Blocks[b] : Blocks[b][i].stream = s.id
  BY <1>1, <1>2, BlockParts
<1>4. 1 \in DOMAIN Blocks[b] /\ Len(Blocks[b]) \in DOMAIN Blocks[b]
  BY <1>3
<1>5. s = StreamOf(id)
  BY <1>1, <1>2, <1>3, <1>4, StreamNamed
<1>6. PICK e \in Elements : e.blk = b /\ Hop(e, Blocks[b][Len(Blocks[b])])
  BY <1>4, AllPlaced
<1> QED
  BY <1>2, <1>3, <1>4, <1>5, <1>6 DEF Hop, LastHops, Hops, PlacedOf

LEMMA LastHopsCounted ==
    ASSUME ScheduleInv, NEW id \in Ids, Complete(id)
    PROVE  IsFiniteSet(LastHops(id)) /\ Cardinality(LastHops(id)) \in {0, Count(id)}
<1> DEFINE H == LastHops(id)
           B == BlocksOf(net, id)
           f == [e \in H |-> e.blk]
<1>1. AllocTypeOK /\ BlocksInv
  BY DEF ScheduleInv, AllocInv
<1>2. IsFiniteSet(B) /\ Cardinality(B) \in {0, Count(id)}
  BY <1>1, BlocksOfFinite, StreamNamed
<1>3. f \in [H -> B]
  BY HopParts DEF LastHops
<1>4. ASSUME NEW e \in H, NEW g \in H, f[e] = f[g] PROVE e = g
  <2>1. e.blk = g.blk /\ e.rx = g.rx /\ e \in Elements /\ g \in Elements
    BY <1>4 DEF LastHops, Hops
  <2> QED
    BY <2>1, SameArrival
<1>5. ASSUME NEW b \in B PROVE \E e \in H : f[e] = b
  <2>1. PICK e \in PlacedOf(b) : e \in H
    BY LastPlaced
  <2> QED
    BY <2>1 DEF PlacedOf
<1> HIDE DEF f, B, H
<1>6. f \in Injection(H, B)
  BY <1>3, <1>4 DEF Injection, IsInjective
<1>7. f \in Surjection(H, B)
  BY <1>3, <1>5 DEF Surjection
<1> QED
  BY <1>2, <1>6, <1>7, FS_Injection DEF H

\* Transmissions of one source, and receptions of one destination, have slots of
\* their own.
LEMMA EndsApart ==
    ASSUME ScheduleInv, NEW id \in Ids, NEW e \in Hops(id), NEW f \in Hops(id),
           e.tx = f.tx \/ e.rx = f.rx, e.offset = f.offset
    PROVE  e = f
<1>1. e \in Elements /\ f \in Elements /\ e.offset \in Nat
  BY HopParts
<1>2. e.period = f.period
  BY HopParts
<1>3. Uses(e, e.offset) /\ Uses(f, e.offset)
  <2>1. PICK P : P = PeriodSlots(net, e)
    OBVIOUS
  <2>2. P \in Nat \ {0} /\ P = PeriodSlots(net, f)
    <3>1. net.slotsPerTile \in Nat \ {0}
      BY NetworkParts DEF ScheduleInv, AllocInv
    <3>2. e.period \in Nat \ {0}
      BY <1>1, ElementsTyped DEF ScheduleInv, AllocInv, Placements
    <3> QED
      BY <1>2, <2>1, <3>1, <3>2, Product DEF PeriodSlots
  <2>3. (0 % P) = 0
    <3>1. 0 = P * 0 /\ 0 \in Nat
      BY <2>2
    <3> QED
      BY <2>2, <3>1, MultipleExists
  <2>4. e.offset - e.offset = 0 /\ e.offset - f.offset = 0
    BY <1>1
  <2> QED
    BY <1>1, <2>1, <2>2, <2>3, <2>4 DEF Uses
<1> QED
  BY <1>1, <1>3, SameSlotApart DEF ScheduleInv

\* One end of a stream: its slots in the period, and what its counter shows when
\* the period is at slot p.
Below(H, p) == {e \in H : e.offset < p}
Shown(H, p, N) == LET c == Cardinality(Below(H, p)) IN IF c = N THEN 0 ELSE c
Following(p, P) == IF p + 1 = P THEN 0 ELSE p + 1

LEMMA BelowNext ==
    ASSUME NEW P \in Nat \ {0}, NEW p \in 0..(P - 1),
           NEW H, \A e \in H : e.offset \in 0..(P - 1)
    PROVE  /\ \A e \in H : e.offset < p + 1 <=> (e.offset < p \/ e.offset = p)
           /\ p + 1 = P => Below(H, p + 1) = H
           /\ Below(H, 0) = {}
           /\ Below(H, p) \subseteq H
<1>1. \A e \in H : e.offset < p + 1 <=> (e.offset < p \/ e.offset = p)
  OBVIOUS
<1>2. p + 1 = P => Below(H, p + 1) = H
  <2> SUFFICES ASSUME p + 1 = P PROVE \A e \in H : e.offset < p + 1
    BY DEF Below
  <2> QED
    OBVIOUS
<1>3. Below(H, 0) = {}
  BY DEF Below
<1> QED
  BY <1>1, <1>2, <1>3 DEF Below

\* How it goes on.
Counts(H, p, P, N) ==
    /\ Shown(H, Following(p, P), N)
         = IF \E e \in H : e.offset = p THEN NextCount(Shown(H, p, N), N) ELSE Shown(H, p, N)
    /\ ((\E e \in H : e.offset = p) /\ NextCount(Shown(H, p, N), N) = 0) =>
         \A e \in H : e.offset < p + 1
    /\ Shown(H, p, N) # 0 => \E e \in H : e.offset < p
    /\ ((\E e \in H : e.offset = p) /\ Shown(H, p, N) = 0) => Below(H, p) = {}
    /\ (Below(H, p) = {}) => Shown(H, p, N) = 0

LEMMA ShownStep ==
    ASSUME NEW P \in Nat \ {0}, NEW p \in 0..(P - 1), NEW N \in Nat \ {0},
           NEW H, IsFiniteSet(H), Cardinality(H) \in {0, N},
           \A e \in H : e.offset \in 0..(P - 1),
           \A e, f \in H : e.offset = f.offset => e = f
    PROVE  Counts(H, p, P, N)
<1>1. /\ \A e \in H : e.offset < p + 1 <=> (e.offset < p \/ e.offset = p)
      /\ p + 1 = P => Below(H, p + 1) = H
      /\ Below(H, 0) = {}
      /\ Below(H, p) \subseteq H
  BY BelowNext
<1>2. Cardinality({}) = 0
  BY FS_EmptySet
<1>3. PICK c : c = Cardinality(Below(H, p))
  OBVIOUS
<1>4. IsFiniteSet(Below(H, p)) /\ c \in Nat /\ c <= Cardinality(H)
  BY <1>1, <1>3, FS_Subset, FS_CardinalityType
<1>5. Shown(H, p, N) = IF c = N THEN 0 ELSE c
  BY <1>3 DEF Shown
<1>6. Shown(H, 0, N) = 0
  BY <1>1, <1>2 DEF Shown
<1>7. Shown(H, p, N) # 0 => \E e \in H : e.offset < p
  <2>1. Shown(H, p, N) # 0 => Below(H, p) # {}
    BY <1>2, <1>3, <1>5
  <2> QED
    BY <2>1 DEF Below
<1>8. (Below(H, p) = {}) => Shown(H, p, N) = 0
  BY <1>2, <1>3, <1>5
<1>9. ASSUME NEW e \in H, e.offset = p
      PROVE  /\ Shown(H, Following(p, P), N) = NextCount(Shown(H, p, N), N)
             /\ NextCount(Shown(H, p, N), N) = 0 => Below(H, p + 1) = H
             /\ Shown(H, p, N) = 0 => Below(H, p) = {}
  <2>1. e \notin Below(H, p)
    BY <1>9 DEF Below
  <2>2. Below(H, p + 1) = Below(H, p) \cup {e}
    BY <1>1, <1>9 DEF Below
  <2>3. Cardinality(Below(H, p + 1)) = c + 1
    BY <1>3, <1>4, <2>1, <2>2, FS_AddElement
  <2>4. H # {} /\ Cardinality(H) = N
    <3>1. Cardinality(H) # 0
      BY <1>9, FS_EmptySet
    <3> QED
      BY <1>9, <3>1
  <2>5. Below(H, p + 1) \subseteq H
    BY DEF Below
  <2>6. c + 1 <= N
    BY <2>3, <2>4, <2>5, FS_Subset
  <2>7. Shown(H, p, N) = c
    BY <1>4, <1>5, <2>6
  <2>8. Shown(H, p + 1, N) = IF c + 1 = N THEN 0 ELSE c + 1
    BY <2>3 DEF Shown
  <2>9. NextCount(c, N) = IF c + 1 = N THEN 0 ELSE c + 1
    BY <1>4, <2>6 DEF NextCount
  <2>10. NextCount(Shown(H, p, N), N) = 0 => Below(H, p + 1) = H
    <3> SUFFICES ASSUME NextCount(c, N) = 0 PROVE Below(H, p + 1) = H
      BY <2>7
    <3>1. c + 1 = N
      BY <1>4, <2>9
    <3> QED
      BY <2>3, <2>4, <2>5, <3>1, FS_Subset
  <2>11. Shown(H, Following(p, P), N) = NextCount(c, N)
    <3>1. CASE p + 1 = P
      <4>1. c + 1 = N
        BY <1>1, <2>3, <2>4, <3>1
      <4> QED
        BY <1>6, <2>9, <3>1, <4>1 DEF Following
    <3>2. CASE p + 1 # P
      BY <2>8, <2>9, <3>2 DEF Following
    <3> QED
      BY <3>1, <3>2
  <2>12. Shown(H, p, N) = 0 => Below(H, p) = {}
    BY <1>3, <1>4, <2>7, FS_EmptySet
  <2> QED
    BY <2>7, <2>10, <2>11, <2>12
<1>10. ASSUME \A e \in H : e.offset # p
       PROVE  Shown(H, Following(p, P), N) = Shown(H, p, N)
  <2>1. Below(H, p + 1) = Below(H, p)
    BY <1>1, <1>10 DEF Below
  <2>2. CASE p + 1 = P
    <3>1. c \in {0, N}
      BY <1>1, <1>3, <2>1, <2>2
    <3>2. Shown(H, p, N) = 0
      BY <1>5, <3>1
    <3> QED
      BY <1>6, <2>2, <3>2 DEF Following
  <2>3. CASE p + 1 # P
    BY <2>1, <2>3 DEF Following, Shown
  <2> QED
    BY <2>2, <2>3
<1>11. ((\E e \in H : e.offset = p) /\ NextCount(Shown(H, p, N), N) = 0) =>
                \A e \in H : e.offset < p + 1
  BY <1>9 DEF Below
<1> QED
  BY <1>7, <1>8, <1>9, <1>10, <1>11 DEF Counts

-----------------------------------------------------------------------------
(***************************************************************************)
(* The buffers of the streams.                                             *)
(***************************************************************************)
LEMMA TxStep ==
    ASSUME NEW t \in TxTypes, NEW N \in Nat \ {0}
    PROVE  /\ SendPacket(t, N) \in TxTypes
           /\ SendPacket(t, N).txCount = NextCount(t.txCount, N)
           /\ t.txCount = 0 => /\ SendPacket(t, N).txPacket = t.nextTxPacket
                               /\ SendPacket(t, N).nextTxPacket = NoPacket
           /\ t.txCount # 0 => /\ SendPacket(t, N).txPacket = t.txPacket
                               /\ SendPacket(t, N).nextTxPacket = t.nextTxPacket
<1>1. NextCount(t.txCount, N) \in Nat
  BY DEF NextCount, TxTypes
<1>2. CASE t.txCount = 0
  <2> DEFINE u == [nextTxPacket |-> NoPacket, txPacket |-> t.nextTxPacket,
                   txCount |-> NextCount(t.txCount, N)]
  <2> DEFINE w == [nextTxPacket |-> NoPacket, txPacket |-> t.nextTxPacket, txCount |-> t.txCount]
  <2>1. UpdateTxPacket(t) = w
    <3>1. t = [nextTxPacket |-> t.nextTxPacket, txPacket |-> t.txPacket, txCount |-> t.txCount]
      BY DEF TxTypes
    <3>2. PICK a, b, c : /\ a = t.nextTxPacket /\ b = t.txPacket /\ c = t.txCount
                         /\ t = [nextTxPacket |-> a, txPacket |-> b, txCount |-> c]
      BY <3>1
    <3>3. UpdateTxPacket(t) = [[t EXCEPT !.txPacket = a] EXCEPT !.nextTxPacket = NoPacket]
      BY <3>2 DEF UpdateTxPacket
    <3>4. [t EXCEPT !.txPacket = a] = [nextTxPacket |-> a, txPacket |-> a, txCount |-> c]
      BY <3>2
    <3> QED
      BY <3>2, <3>3, <3>4
  <2>2. SendPacket(t, N) = [w EXCEPT !.txCount = NextCount(@, N)]
    BY <1>2, <2>1 DEF SendPacket
  <2>3. SendPacket(t, N) = u
    BY <2>2
  <2>4. u \in TxTypes
    BY <1>1 DEF TxTypes, NoPacket
  <2> QED
    BY <1>2, <2>3, <2>4
<1>3. CASE t.txCount # 0
  <2> DEFINE u == [nextTxPacket |-> t.nextTxPacket, txPacket |-> t.txPacket,
                   txCount |-> NextCount(t.txCount, N)]
  <2>1. SendPacket(t, N) = u
    BY <1>3 DEF SendPacket, TxTypes
  <2>2. u \in TxTypes
    BY <1>1 DEF TxTypes
  <2> QED
    BY <1>3, <2>1, <2>2
<1> QED
  BY <1>2, <1>3

LEMMA MissStep ==
    ASSUME NEW r \in RxTypes, NEW N \in Nat \ {0}
    PROVE  /\ MissPacket(r, N) \in RxTypes
           /\ MissPacket(r, N).rxCount = NextCount(r.rxCount, N)
           /\ NextCount(r.rxCount, N) = 0 => /\ MissPacket(r, N).rxPacket = NoPacket
                                             /\ MissPacket(r, N).rxPacketShared = r.rxPacket
           /\ NextCount(r.rxCount, N) # 0 => /\ MissPacket(r, N).rxPacket = r.rxPacket
                                             /\ MissPacket(r, N).rxPacketShared = r.rxPacketShared
<1>1. NextCount(r.rxCount, N) \in Nat
  BY DEF NextCount, RxTypes
<1>2. CASE NextCount(r.rxCount, N) = 0
  <2> DEFINE u == [rxPacket |-> NoPacket, rxPacketShared |-> r.rxPacket,
                   alreadyReceivedShared |-> FALSE, rxCount |-> 0]
  <2>1. MissPacket(r, N) = u
    BY <1>2 DEF MissPacket
  <2>2. u \in RxTypes
    BY DEF RxTypes, NoPacket
  <2> QED
    BY <1>2, <2>1, <2>2
<1>3. CASE NextCount(r.rxCount, N) # 0
  <2> DEFINE u == [r EXCEPT !.rxCount = @ + 1]
  <2>1. MissPacket(r, N) = u
    BY <1>3 DEF MissPacket
  <2>2. NextCount(r.rxCount, N) = r.rxCount + 1
    BY <1>3 DEF NextCount
  <2>3. u \in RxTypes /\ u.rxCount = r.rxCount + 1 /\ u.rxPacket = r.rxPacket
        /\ u.rxPacketShared = r.rxPacketShared
    BY DEF RxTypes
  <2> QED
    BY <1>3, <2>1, <2>2, <2>3
<1> QED
  BY <1>2, <1>3

LEMMA ReceiveStep ==
    ASSUME NEW r \in RxTypes, NEW N \in Nat \ {0}, NEW p \in Nat
    PROVE  /\ ReceivePacket(r, N, p) \in RxTypes
           /\ ReceivePacket(r, N, p).rxCount = NextCount(r.rxCount, N)
           /\ NextCount(r.rxCount, N) = 0 => /\ ReceivePacket(r, N, p).rxPacket = NoPacket
                                             /\ ReceivePacket(r, N, p).rxPacketShared = p
           /\ NextCount(r.rxCount, N) # 0 => /\ ReceivePacket(r, N, p).rxPacket = p
                                             /\ ReceivePacket(r, N, p).rxPacketShared = r.rxPacketShared
<1> DEFINE u == [r EXCEPT !.rxPacket = p]
<1>1. u \in RxTypes /\ u.rxPacket = p /\ u.rxCount = r.rxCount /\ u.rxPacketShared = r.rxPacketShared
  BY DEF RxTypes
<1>2. ReceivePacket(r, N, p) = MissPacket(u, N)
  BY DEF ReceivePacket
<1> HIDE DEF u
<1> QED
  BY <1>1, <1>2, MissStep

\* What is in the air has a packet's type.
LEMMA AirTyped ==
    ASSUME ScheduleInv, Expanded, slot \in 0..(ScheduleSlots - 1), BuffersTyped
    PROVE  /\ \A n \in net.nodes : Sent(n) \in AirTypes
           /\ \A r, failed : Heard(r, failed) \in AirTypes /\ Received(r, failed) \in Nat
<1>1. Empty \in AirTypes
  BY DEF Empty, AirTypes, NoPacket
<1>2. ASSUME NEW n \in net.nodes PROVE Sent(n) \in AirTypes
  <2>1. CASE n \in out
    BY <1>1, <2>1 DEF Sent
  <2>2. CASE n \notin out /\ Entry(n).action \in {"SENDSTREAM", "SENDBUFFER"}
    <3>1. PICK e \in Elements : Entry(n).stream = e.stream
      BY <1>2, <2>2, EntryOf
    <3>2. e.stream \in Ids /\ e.stream \in Nat
      BY ElementParts DEF Placements
    <3>3. buffer[n][e.stream] \in AirTypes
      BY <1>2, <3>2 DEF BuffersTyped
    <3>4. SendPacket(tx[e.stream], Count(e.stream)).txPacket \in Nat
      <4>1. tx[e.stream] \in TxTypes
        BY <3>2 DEF BuffersTyped
      <4>2. Count(e.stream) \in Nat \ {0}
        BY <3>2, StreamNamed DEF ScheduleInv, AllocInv
      <4>3. SendPacket(tx[e.stream], Count(e.stream)) \in TxTypes
        BY <4>1, <4>2, TxStep
      <4> QED
        BY <4>3 DEF TxTypes
    <3>5. [stream |-> e.stream, packet |-> SendPacket(tx[e.stream], Count(e.stream)).txPacket] \in AirTypes
      BY <3>2, <3>4 DEF AirTypes
    <3>6. CASE Entry(n).action = "SENDSTREAM"
      BY <2>2, <3>1, <3>5, <3>6 DEF Sent
    <3>7. CASE Entry(n).action = "SENDBUFFER"
      BY <1>1, <2>2, <3>1, <3>3, <3>7 DEF Sent
    <3> QED
      BY <2>2, <3>6, <3>7
  <2>3. CASE n \notin out /\ Entry(n).action \notin {"SENDSTREAM", "SENDBUFFER"}
    BY <1>1, <2>3 DEF Sent
  <2> QED
    BY <2>1, <2>2, <2>3
<1>3. ASSUME NEW r, NEW failed PROVE Heard(r, failed) \in AirTypes
  <2>1. CASE r \in Audible \ failed
    <3>1. Cardinality(Senders(r)) = 1
      BY <2>1 DEF Audible
    <3>2. Senders(r) # {} /\ Senders(r) \subseteq net.nodes
      BY <3>1, FS_EmptySet DEF Senders
    <3>3. (CHOOSE n \in net.nodes : n \in Senders(r)) \in net.nodes
      BY <3>2
    <3> QED
      BY <1>2, <2>1, <3>3 DEF Heard
  <2>2. CASE r \notin Audible \ failed
    BY <1>1, <2>2 DEF Heard
  <2> QED
    BY <2>1, <2>2
<1>4. ASSUME NEW r, NEW failed PROVE Received(r, failed) \in Nat
  BY <1>3 DEF Received, AirTypes, NoPacket
<1> QED
  BY <1>2, <1>3, <1>4

-----------------------------------------------------------------------------
(***************************************************************************)
(* One slot of all nodes.                                                  *)
(***************************************************************************)
\* What depends on the schedule alone.
LEMMA Unmoved ==
    ASSUME net' = net, allocVars' = allocVars
    PROVE  /\ Elements' = Elements /\ Ids' = Ids /\ ScheduleSlots' = ScheduleSlots
           /\ \A id : /\ StreamOf(id)' = StreamOf(id) /\ Count(id)' = Count(id)
                      /\ Hops(id)' = Hops(id) /\ FirstHops(id)' = FirstHops(id)
                      /\ LastHops(id)' = LastHops(id) /\ Relays(id)' = Relays(id)
                      /\ Intact(id)' = Intact(id)
<1>1. Elements' = Elements
  BY DEF Elements, allocVars
<1>2. Streams' = Streams /\ Ids' = Ids
  BY DEF Streams, Ids
<1>3. \A id : StreamOf(id)' = StreamOf(id)
  BY <1>2 DEF StreamOf
<1>4. \A id : Count(id)' = Count(id)
  BY <1>3 DEF Count
<1>5. \A id : Hops(id)' = Hops(id)
  BY <1>1 DEF Hops
<1>6. \A id : FirstHops(id)' = FirstHops(id) /\ LastHops(id)' = LastHops(id)
  BY <1>3, <1>5 DEF FirstHops, LastHops
<1>7. \A id : Relays(id)' = Relays(id)
  BY <1>1 DEF Relays
<1>8. ScheduleSlots' = ScheduleSlots
  BY DEF ScheduleSlots, allocVars
<1>9. \A id : Complete(id)' = Complete(id)
  <2>1. Blocks' = Blocks
    BY DEF Blocks
  <2>2. \A b : PlacedOf(b)' = PlacedOf(b)
    BY <1>1 DEF PlacedOf
  <2> QED
    BY <2>1, <2>2 DEF Complete
<1>10. \A id : InDataSlots(id)' = InDataSlots(id)
  BY <1>1, <1>8 DEF InDataSlots, Uses, PeriodSlots
<1> QED
  BY <1>1, <1>2, <1>3, <1>4, <1>5, <1>6, <1>7, <1>8, <1>9, <1>10 DEF Intact

\* The slot after, in the period of a stream that has transmissions.
LEMMA PhaseNext ==
    ASSUME ScheduleInv, slot \in 0..(ScheduleSlots - 1), NextSlot, net' = net, allocVars' = allocVars,
           NEW id \in Ids, Hops(id) # {}
    PROVE  \E P \in Nat \ {0} :
            /\ Phase(id) \in 0..(P - 1)
            /\ Phase(id)' = Following(Phase(id), P)
            /\ \A e \in Hops(id) : /\ e.offset \in 0..(P - 1)
                                   /\ Uses(e, slot) <=> e.offset = Phase(id)
<1>1. slot \in Nat
  <2>1. newSize * net.slotsPerTile \in Nat
    BY NetworkParts DEF ScheduleInv, AllocInv, AllocTypeOK
  <2> QED
    BY <2>1 DEF ScheduleSlots
<1>2. PICK P : P = StreamOf(id).period * net.slotsPerTile
  OBVIOUS
<1>3. \A e \in Hops(id) :
        /\ P \in Nat \ {0} /\ e.offset \in 0..(P - 1)
        /\ Phase(id) \in 0..(P - 1) /\ Phase(id) = slot % P
        /\ ScheduleSlots \in Nat \ {0} /\ (ScheduleSlots % P) = 0
        /\ Uses(e, slot) <=> e.offset = Phase(id)
  BY <1>1, <1>2, HopPhase
<1>4. PICK z : z = ScheduleSlots
  OBVIOUS
<1>5. /\ P \in Nat \ {0} /\ Phase(id) \in 0..(P - 1) /\ Phase(id) = slot % P
      /\ z \in Nat \ {0} /\ (z % P) = 0 /\ slot \in 0..(z - 1)
  BY <1>3, <1>4
<1>6. Phase(id)' = slot' % P
  BY <1>2, Unmoved DEF Phase
<1>7. slot' = (slot + 1) % z
  BY <1>4 DEF NextSlot
<1>8. (((slot + 1) % z) % P) = IF (slot % P) + 1 = P THEN 0 ELSE (slot % P) + 1
  <2>1. P \in Nat \ {0} /\ z \in Nat \ {0} /\ (z % P) = 0 /\ slot \in 0..(z - 1)
    BY <1>5
  <2>2. PhaseAdvances(slot, z, P)
    BY <2>1, NextPhase
  <2> QED
    BY <2>2 DEF PhaseAdvances
<1>9. Phase(id)' = Following(Phase(id), P)
  <2>1. PICK p : p = Phase(id)
    OBVIOUS
  <2>2. Phase(id)' = IF p + 1 = P THEN 0 ELSE p + 1
    BY <1>5, <1>6, <1>7, <1>8, <2>1
  <2> QED
    BY <2>1, <2>2 DEF Following
<1> QED
  BY <1>3, <1>5, <1>9

\* The counters after a slot are those of the transmissions passed.
LEMMA CountersNext ==
    ASSUME ScheduleInv, slot \in 0..(ScheduleSlots - 1), NextSlot, net' = net, allocVars' = allocVars,
           NEW id \in Ids, Complete(id), CountersAgree(id),
           tx'[id].txCount = IF \E e \in FirstHops(id) : Uses(e, slot)
                             THEN NextCount(tx[id].txCount, Count(id)) ELSE tx[id].txCount,
           rx'[id].rxCount = IF \E e \in LastHops(id) : Uses(e, slot)
                             THEN NextCount(rx[id].rxCount, Count(id)) ELSE rx[id].rxCount
    PROVE  CountersAgree(id)'
<1> DEFINE F == FirstHops(id)
           L == LastHops(id)
           N == Count(id)
<1>1. N \in Nat \ {0}
  BY StreamNamed DEF ScheduleInv, AllocInv
<1>2. F \subseteq Hops(id) /\ L \subseteq Hops(id)
  BY DEF FirstHops, LastHops
<1>3. /\ FirstHops(id)' = F /\ LastHops(id)' = L /\ Count(id)' = N
  BY Unmoved
<1>4. /\ tx[id].txCount = Shown(F, Phase(id), N) /\ rx[id].rxCount = Shown(L, Phase(id), N)
  BY DEF CountersAgree, Counter, Passed, Shown, Below
<1>5. CountersAgree(id)' <=> /\ tx'[id].txCount = Shown(F, Phase(id)', N)
                             /\ rx'[id].rxCount = Shown(L, Phase(id)', N)
  BY <1>3 DEF CountersAgree, Counter, Passed, Shown, Below
<1>6. CASE Hops(id) = {}
  <2>1. F = {} /\ L = {}
    BY <1>2, <1>6
  <2>2. \A p : Shown({}, p, N) = 0
    BY FS_EmptySet DEF Shown, Below
  <2> QED
    BY <1>4, <1>5, <2>1, <2>2
<1>7. CASE Hops(id) # {}
  <2>1. PICK P \in Nat \ {0} :
            /\ Phase(id) \in 0..(P - 1)
            /\ Phase(id)' = Following(Phase(id), P)
            /\ \A e \in Hops(id) : e.offset \in 0..(P - 1) /\ (Uses(e, slot) <=> e.offset = Phase(id))
    BY <1>7, PhaseNext
  <2>2. IsFiniteSet(F) /\ Cardinality(F) \in {0, N} /\ IsFiniteSet(L) /\ Cardinality(L) \in {0, N}
    BY FirstHopsCounted, LastHopsCounted
  <2>3. /\ \A e, f \in F : e.offset = f.offset => e = f
        /\ \A e, f \in L : e.offset = f.offset => e = f
    <3>1. \A e, f \in Hops(id) : ((e.tx = f.tx \/ e.rx = f.rx) /\ e.offset = f.offset) => e = f
      BY EndsApart
    <3>2. /\ \A e, f \in F : e.tx = f.tx
          /\ \A e, f \in L : e.rx = f.rx
      BY DEF FirstHops, LastHops
    <3> HIDE DEF F, L
    <3> QED
      BY <1>2, <3>1, <3>2
  <2> HIDE DEF F, L, N
  <2>4. PICK p : p = Phase(id)
    OBVIOUS
  <2>5. Counts(F, p, P, N) /\ Counts(L, p, P, N)
    <3>1. /\ \A e \in F : e.offset \in 0..(P - 1)
          /\ \A e \in L : e.offset \in 0..(P - 1)
      BY <1>2, <2>1
    <3> QED
      BY <1>1, <2>1, <2>2, <2>3, <2>4, <3>1, ShownStep
  <2>6. Shown(F, Following(p, P), N)
            = IF \E e \in F : e.offset = p THEN NextCount(Shown(F, p, N), N) ELSE Shown(F, p, N)
    BY <2>5 DEF Counts
  <2>7. Shown(L, Following(p, P), N)
            = IF \E e \in L : e.offset = p THEN NextCount(Shown(L, p, N), N) ELSE Shown(L, p, N)
    BY <2>5 DEF Counts
  <2>8. tx'[id].txCount = IF \E e \in F : e.offset = p THEN NextCount(tx[id].txCount, N) ELSE tx[id].txCount
    BY <1>2, <2>1, <2>4 DEF F, N
  <2>9. rx'[id].rxCount = IF \E e \in L : e.offset = p THEN NextCount(rx[id].rxCount, N) ELSE rx[id].rxCount
    BY <1>2, <2>1, <2>4 DEF L, N
  <2> QED
    BY <1>4, <1>5, <2>1, <2>4, <2>6, <2>7, <2>8, <2>9
<1> QED
  BY <1>6, <1>7

\* What the counters say of the period: the source takes a packet in the slot
\* before which nothing of the period has passed, and the destination hands one
\* over in the slot after which all of it has.
LEMMA PeriodFacts ==
    ASSUME ScheduleInv, slot \in 0..(ScheduleSlots - 1), NextSlot, net' = net, allocVars' = allocVars,
           NEW id \in Ids, Complete(id), CountersAgree(id)
    PROVE  /\ \A e \in Hops(id) : Uses(e, slot) <=> e.offset = Phase(id)
           /\ ((\E e \in FirstHops(id) : Uses(e, slot)) /\ tx[id].txCount = 0) => ~Begun(id)
           /\ ~Begun(id) => tx[id].txCount = 0
           /\ rx[id].rxCount # 0 => Begun(id)
           /\ \A e \in Hops(id) : (e.offset < Phase(id)) => Begun(id)
           /\ \A e \in Hops(id) : (Uses(e, slot) /\ ~Begun(id)) => \E d \in FirstHops(id) : Uses(d, slot)
           /\ (\E e \in LastHops(id) : Uses(e, slot)) =>
                /\ Begun(id) => Pending(id)
                /\ NextCount(rx[id].rxCount, Count(id)) = 0 =>
                        /\ ~Pending(id)'
                        /\ \A e \in LastHops(id) : e.offset < Phase(id) \/ Uses(e, slot)
           /\ Pending(id)' => Pending(id) \/ \E d \in FirstHops(id) : Uses(d, slot) /\ ~Begun(id)
           /\ \A e \in Hops(id) : (e.offset < Phase(id)') => (e.offset < Phase(id) \/ Uses(e, slot))
           /\ \A e, f \in Hops(id) : (e.offset < Phase(id)' /\ (f.offset < Phase(id) \/ Uses(f, slot)))
                                        => f.offset < Phase(id)'
<1> DEFINE F == FirstHops(id)
           L == LastHops(id)
           N == Count(id)
<1>1. N \in Nat \ {0}
  BY StreamNamed DEF ScheduleInv, AllocInv
<1>2. F \subseteq Hops(id) /\ L \subseteq Hops(id)
  BY DEF FirstHops, LastHops
<1>3. FirstHops(id)' = F /\ LastHops(id)' = L
  BY Unmoved
<1>4. /\ tx[id].txCount = Shown(F, Phase(id), N) /\ rx[id].rxCount = Shown(L, Phase(id), N)
  BY DEF CountersAgree, Counter, Passed, Shown, Below
<1>5. /\ Begun(id) <=> \E d \in F : d.offset < Phase(id)
      /\ Pending(id) <=> Begun(id) /\ \E e \in L : ~(e.offset < Phase(id))
      /\ Pending(id)' <=> /\ \E d \in F : d.offset < Phase(id)'
                          /\ \E e \in L : ~(e.offset < Phase(id)')
  BY <1>3 DEF Begun, Pending, Passed
<1>6. CASE Hops(id) = {}
  <2>1. F = {} /\ L = {}
    BY <1>2, <1>6
  <2>2. \A p : Shown({}, p, N) = 0
    BY FS_EmptySet DEF Shown, Below
  <2> HIDE DEF F, L
  <2>3. tx[id].txCount = 0 /\ rx[id].rxCount = 0 /\ ~Begun(id) /\ ~Pending(id)'
    BY <1>4, <1>5, <2>1, <2>2
  <2> QED
    BY <1>6, <2>1, <2>3 DEF F, L
<1>7. CASE Hops(id) # {}
  <2>1. PICK P \in Nat \ {0} :
            /\ Phase(id) \in 0..(P - 1)
            /\ Phase(id)' = Following(Phase(id), P)
            /\ \A e \in Hops(id) : e.offset \in 0..(P - 1) /\ (Uses(e, slot) <=> e.offset = Phase(id))
    BY <1>7, PhaseNext
  <2>2. IsFiniteSet(F) /\ Cardinality(F) \in {0, N} /\ IsFiniteSet(L) /\ Cardinality(L) \in {0, N}
    BY FirstHopsCounted, LastHopsCounted
  <2>3. /\ \A e, f \in F : e.offset = f.offset => e = f
        /\ \A e, f \in L : e.offset = f.offset => e = f
    <3>1. \A e, f \in Hops(id) : ((e.tx = f.tx \/ e.rx = f.rx) /\ e.offset = f.offset) => e = f
      BY EndsApart
    <3>2. /\ \A e, f \in F : e.tx = f.tx
          /\ \A e, f \in L : e.rx = f.rx
      BY DEF FirstHops, LastHops
    <3> HIDE DEF F, L
    <3> QED
      BY <1>2, <3>1, <3>2
  <2>4. \A e \in Hops(id) : \E d \in F : d.offset <= e.offset
    BY FirstBefore
  <2> HIDE DEF F, L, N
  <2>5. PICK p, q : p = Phase(id) /\ q = Phase(id)'
    OBVIOUS
  <2>6. /\ p \in 0..(P - 1) /\ (q = 0 \/ q = p + 1)
        /\ \A e \in Hops(id) : e.offset \in 0..(P - 1) /\ (Uses(e, slot) <=> e.offset = p)
    BY <2>1, <2>5 DEF Following
  <2>7. Counts(F, p, P, N) /\ Counts(L, p, P, N)
    <3>1. /\ \A e \in F : e.offset \in 0..(P - 1)
          /\ \A e \in L : e.offset \in 0..(P - 1)
      BY <1>2, <2>6
    <3>2. p \in 0..(P - 1)
      BY <2>6
    <3> QED
      BY <1>1, <2>2, <2>3, <3>1, <3>2, ShownStep
  <2>8. /\ ((\E e \in L : e.offset = p) /\ NextCount(Shown(L, p, N), N) = 0) => \A e \in L : e.offset < p + 1
        /\ Shown(L, p, N) # 0 => \E e \in L : e.offset < p
        /\ ((\E e \in F : e.offset = p) /\ Shown(F, p, N) = 0) => Below(F, p) = {}
        /\ (Below(F, p) = {}) => Shown(F, p, N) = 0
    BY <2>7 DEF Counts
  <2>9. Begun(id) <=> Below(F, p) # {}
    BY <1>5, <2>5 DEF Below
  <2>10. \A e \in Hops(id) : (e.offset < p) => Begun(id)
    <3> SUFFICES ASSUME NEW e \in Hops(id), e.offset < p PROVE Begun(id)
      OBVIOUS
    <3>1. PICK d \in F : d.offset <= e.offset
      BY <2>4
    <3>2. d.offset \in Nat /\ e.offset \in Nat /\ p \in Nat
      BY <1>2, <2>6
    <3>3. d.offset < p
      BY <3>1, <3>2
    <3> QED
      BY <1>5, <2>5, <3>3
  <2>11. \A e \in Hops(id) : (Uses(e, slot) /\ ~Begun(id)) => \E d \in F : Uses(d, slot)
    <3> SUFFICES ASSUME NEW e \in Hops(id), Uses(e, slot), ~Begun(id) PROVE \E d \in F : Uses(d, slot)
      OBVIOUS
    <3>1. PICK d \in F : d.offset <= e.offset
      BY <2>4
    <3>2. d.offset \in Nat /\ e.offset = p /\ p \in Nat /\ d \in Hops(id)
      BY <1>2, <2>6
    <3>3. ~(d.offset < p)
      BY <2>10, <3>2
    <3>4. d.offset = p
      BY <3>1, <3>2, <3>3
    <3> QED
      BY <2>6, <3>2, <3>4
  <2>12. rx[id].rxCount # 0 => Begun(id)
    BY <1>2, <1>4, <2>5, <2>8, <2>10
  <2>13. \A e \in Hops(id) : (e.offset < q) => (e.offset < p \/ e.offset = p)
    BY <2>6
  <2>14. ASSUME NEW e \in L, Uses(e, slot)
         PROVE  /\ Begun(id) => Pending(id)
                /\ NextCount(rx[id].rxCount, N) = 0 =>
                        /\ ~Pending(id)'
                        /\ \A g \in L : g.offset < p \/ Uses(g, slot)
    <3>1. e.offset = p /\ ~(e.offset < p)
      BY <1>2, <2>6, <2>14
    <3>2. Begun(id) => Pending(id)
      BY <1>5, <2>5, <3>1
    <3>3. ASSUME NextCount(rx[id].rxCount, N) = 0
          PROVE  ~Pending(id)' /\ \A g \in L : g.offset < p \/ Uses(g, slot)
      <4>1. \A f \in L : f.offset < p + 1
        BY <1>4, <2>5, <2>8, <3>1, <3>3
      <4>2. q = 0 => \A d \in F : ~(d.offset < q)
        BY <1>2, <2>6
      <4>3. q = 0 => ~Pending(id)'
        BY <1>5, <2>5, <4>2
      <4>4. q = p + 1 => ~Pending(id)'
        BY <1>5, <2>5, <4>1
      <4>5. \A g \in L : g.offset < p \/ Uses(g, slot)
        BY <1>2, <2>6, <4>1
      <4> QED
        BY <2>6, <4>3, <4>4, <4>5
    <3> QED
      BY <3>2, <3>3
  <2>15. ASSUME Pending(id)' PROVE Pending(id) \/ \E d \in F : Uses(d, slot) /\ ~Begun(id)
    <3>1. PICK d \in F : d.offset < q
      BY <1>5, <2>5, <2>15
    <3>2. PICK e \in L : ~(e.offset < q)
      BY <1>5, <2>5, <2>15
    <3>3. q = p + 1 /\ d \in Hops(id) /\ e \in Hops(id)
      BY <1>2, <2>6, <3>1
    <3>4. ~(e.offset < p)
      BY <2>6, <3>2, <3>3
    <3>5. CASE Begun(id)
      BY <1>5, <2>5, <3>4, <3>5
    <3>6. CASE ~Begun(id)
      <4>1. d.offset = p
        BY <1>5, <2>5, <2>13, <3>1, <3>3, <3>6
      <4> QED
        BY <2>6, <3>3, <3>6, <4>1
    <3> QED
      BY <3>5, <3>6
  <2>16. \A e, f \in Hops(id) : (e.offset < q /\ (f.offset < p \/ Uses(f, slot))) => f.offset < q
    BY <2>6
  <2> QED
    <3>1. ((\E e \in F : Uses(e, slot)) /\ tx[id].txCount = 0) => ~Begun(id)
      BY <1>2, <1>4, <2>5, <2>6, <2>8, <2>9
    <3>2. ~Begun(id) => tx[id].txCount = 0
      BY <1>4, <2>5, <2>8, <2>9
    <3> QED
      <4>1. p = Phase(id) /\ q = Phase(id)'
        BY <2>5
      <4>2. \A e \in Hops(id) : Uses(e, slot) <=> e.offset = Phase(id)
        BY <2>6, <4>1
      <4>3. /\ \A e \in Hops(id) : (e.offset < Phase(id)') => (e.offset < Phase(id) \/ Uses(e, slot))
            /\ \A e, f \in Hops(id) : (e.offset < Phase(id)' /\ (f.offset < Phase(id) \/ Uses(f, slot)))
                                        => f.offset < Phase(id)'
        <5>1. \A e \in Hops(id) : (e.offset < q) => (e.offset < p \/ Uses(e, slot))
          BY <2>6, <2>13
        <5>2. \A e \in Hops(id) : (e.offset < Phase(id)') => (e.offset < Phase(id) \/ Uses(e, slot))
          BY <4>1, <5>1
        <5>3. ASSUME NEW e \in Hops(id), NEW f \in Hops(id), e.offset < Phase(id)',
                     f.offset < Phase(id) \/ Uses(f, slot)
              PROVE  f.offset < Phase(id)'
          BY <2>16, <4>1, <5>3
        <5> QED
          BY <5>2, <5>3
      <4>4. (\E e \in L : Uses(e, slot)) =>
                /\ Begun(id) => Pending(id)
                /\ NextCount(rx[id].rxCount, N) = 0 =>
                        /\ ~Pending(id)'
                        /\ \A g \in L : g.offset < Phase(id) \/ Uses(g, slot)
        BY <2>14, <4>1
      <4>5. \A e \in Hops(id) : (e.offset < Phase(id)) => Begun(id)
        BY <2>10, <4>1
      <4> QED
        BY <2>11, <2>12, <2>15, <3>1, <3>2, <4>2, <4>3, <4>4, <4>5 DEF F, L, N
<1> QED
  BY <1>6, <1>7

\* The packet of the period, while a slot passes.
LEMMA PacketTaken ==
    ASSUME ScheduleInv, Expanded, slot \in 0..(ScheduleSlots - 1), BuffersTyped,
           NEW id \in Ids, Complete(id), CountersAgree(id), NEW failed, Execute(failed)
    PROVE  /\ tx'[id] \in TxTypes
           /\ tx'[id].txCount = IF \E e \in FirstHops(id) : Uses(e, slot)
                                THEN NextCount(tx[id].txCount, Count(id)) ELSE tx[id].txCount
           /\ (\E e \in FirstHops(id) : Uses(e, slot)) =>
                    tx'[id].txPacket = SendPacket(tx[id], Count(id)).txPacket
           /\ (Begun(id) \/ ~\E e \in FirstHops(id) : Uses(e, slot)) =>
                    /\ tx'[id].txPacket = tx[id].txPacket
                    /\ tx'[id].nextTxPacket = tx[id].nextTxPacket
           /\ (~Begun(id) /\ \E e \in FirstHops(id) : Uses(e, slot)) =>
                    /\ tx'[id].txPacket = tx[id].nextTxPacket
                    /\ tx'[id].nextTxPacket = NoPacket
<1>1. tx[id] \in TxTypes /\ Count(id) \in Nat \ {0}
  <2>1. AllocTypeOK
    BY DEF ScheduleInv, AllocInv
  <2>2. Count(id) \in Nat \ {0}
    BY <2>1, StreamNamed
  <2>3. tx \in [Ids -> TxTypes]
    BY DEF BuffersTyped
  <2> QED
    BY <2>2, <2>3
<1>2. NextSlot /\ net' = net /\ allocVars' = allocVars
  BY DEF Execute
<1>3. tx'[id] = IF Sending(id) THEN SendPacket(tx[id], Count(id)) ELSE tx[id]
  BY DEF Execute
<1>4. Sending(id) <=> \E e \in FirstHops(id) : Uses(e, slot)
  BY EndsAct
<1>5. /\ (Sending(id) /\ tx[id].txCount = 0) => ~Begun(id)
      /\ ~Begun(id) => tx[id].txCount = 0
  BY <1>2, <1>4, PeriodFacts
<1> QED
  BY <1>1, <1>3, <1>4, <1>5, TxStep

\* What a receiver of the stream hears is the packet of the period.
LEMMA PacketHeard ==
    ASSUME ScheduleInv, Expanded, slot \in 0..(ScheduleSlots - 1), BuffersTyped,
           NEW id \in Ids, Complete(id), CountersAgree(id), OnePacket(id),
           NEW failed, Execute(failed),
           NEW e \in Hops(id), Uses(e, slot)
    PROVE  Heard(e.rx, failed) \in {Empty, [stream |-> id, packet |-> tx'[id].txPacket]}
<1>1. Heard(e.rx, failed) \in {Empty, Sent(e.tx)}
  BY HeardBy
<1>2. Sent(e.tx) \in {Empty, IF e.tx = StreamOf(id).src
                             THEN [stream |-> id, packet |-> SendPacket(tx[id], Count(id)).txPacket]
                             ELSE buffer[e.tx][id]}
  BY SentBy
<1>3. CASE e.tx = StreamOf(id).src
  <2>1. e \in FirstHops(id)
    BY <1>3 DEF FirstHops
  <2>2. tx'[id].txPacket = SendPacket(tx[id], Count(id)).txPacket
    BY <2>1, PacketTaken
  <2> QED
    BY <1>1, <1>2, <1>3, <2>2
<1>4. CASE e.tx # StreamOf(id).src
  <2>1. PICK d \in Hops(id) : d.rx = e.tx /\ d.rx # d.dst /\ d.offset < e.offset
    BY <1>4, HopBefore
  <2>2. NextSlot /\ net' = net /\ allocVars' = allocVars
    BY DEF Execute
  <2>3. e.offset = Phase(id) /\ (d.offset < Phase(id) => Begun(id))
    BY <2>1, <2>2, PeriodFacts
  <2>4. Begun(id) /\ d.offset < Phase(id)
    BY <2>1, <2>3
  <2>5. tx'[id].txPacket = tx[id].txPacket
    BY <2>4, PacketTaken
  <2>6. buffer[e.tx][id] \in {Empty, [stream |-> id, packet |-> tx[id].txPacket]}
    BY <2>1, <2>4 DEF OnePacket
  <2> QED
    BY <1>1, <1>2, <1>4, <2>5, <2>6
<1> QED
  BY <1>3, <1>4

\* What the destination makes of it.
LEMMA PacketReceived ==
    ASSUME ScheduleInv, Expanded, slot \in 0..(ScheduleSlots - 1), BuffersTyped,
           NEW id \in Ids, Complete(id), CountersAgree(id), OnePacket(id), NEW failed, Execute(failed)
    PROVE  /\ rx'[id] \in RxTypes
           /\ rx'[id].rxCount = IF \E e \in LastHops(id) : Uses(e, slot)
                                THEN NextCount(rx[id].rxCount, Count(id)) ELSE rx[id].rxCount
           /\ (~\E e \in LastHops(id) : Uses(e, slot)) => rx'[id] = rx[id]
           /\ (\E e \in LastHops(id) : Uses(e, slot)) =>
                IF NextCount(rx[id].rxCount, Count(id)) = 0
                THEN /\ rx'[id].rxPacket = NoPacket
                     /\ rx'[id].rxPacketShared \in {rx[id].rxPacket, tx'[id].txPacket}
                     /\ Received(StreamOf(id).dst, failed) # NoPacket =>
                            rx'[id].rxPacketShared = tx'[id].txPacket
                ELSE /\ rx'[id].rxPacket \in {rx[id].rxPacket, tx'[id].txPacket}
                     /\ rx'[id].rxPacketShared = rx[id].rxPacketShared
                     /\ Received(StreamOf(id).dst, failed) # NoPacket =>
                            rx'[id].rxPacket = tx'[id].txPacket
<1> DEFINE r == StreamOf(id).dst
           p == Received(r, failed)
           N == Count(id)
<1>1. rx[id] \in RxTypes /\ N \in Nat \ {0} /\ p \in Nat
  <2>1. AllocTypeOK
    BY DEF ScheduleInv, AllocInv
  <2>2. Count(id) \in Nat \ {0}
    BY <2>1, StreamNamed
  <2>3. rx \in [Ids -> RxTypes]
    BY DEF BuffersTyped
  <2>4. p \in Nat
    BY AirTyped
  <2> QED
    BY <2>2, <2>3, <2>4
<1>2. Receiving(id, r) <=> \E e \in LastHops(id) : Uses(e, slot)
  BY EndsAct
<1>3. rx'[id] = IF ~Receiving(id, r) THEN rx[id]
                ELSE IF p # NoPacket THEN ReceivePacket(rx[id], N, p) ELSE MissPacket(rx[id], N)
  BY DEF Execute
<1>4. ASSUME Receiving(id, r) PROVE p \in {NoPacket, tx'[id].txPacket}
  <2>1. PICK e \in LastHops(id) : Uses(e, slot)
    BY <1>2, <1>4
  <2>2. e \in Hops(id) /\ e.rx = r
    BY DEF LastHops
  <2>3. Heard(r, failed) \in {Empty, [stream |-> id, packet |-> tx'[id].txPacket]}
    BY <2>1, <2>2, PacketHeard
  <2> QED
    BY <2>3 DEF Received, Empty
<1> HIDE DEF r, p, N
<1>5. CASE ~Receiving(id, r)
  BY <1>1, <1>2, <1>3, <1>5 DEF N, r
<1>6. CASE Receiving(id, r) /\ p # NoPacket
  <2>1. rx'[id] = ReceivePacket(rx[id], N, p) /\ p = tx'[id].txPacket
    BY <1>3, <1>4, <1>6
  <2>2. /\ ReceivePacket(rx[id], N, p) \in RxTypes
        /\ ReceivePacket(rx[id], N, p).rxCount = NextCount(rx[id].rxCount, N)
        /\ NextCount(rx[id].rxCount, N) = 0 => /\ ReceivePacket(rx[id], N, p).rxPacket = NoPacket
                                               /\ ReceivePacket(rx[id], N, p).rxPacketShared = p
        /\ NextCount(rx[id].rxCount, N) # 0 =>
                /\ ReceivePacket(rx[id], N, p).rxPacket = p
                /\ ReceivePacket(rx[id], N, p).rxPacketShared = rx[id].rxPacketShared
    BY <1>1, ReceiveStep
  <2> QED
    BY <1>2, <1>6, <2>1, <2>2 DEF N, r, p
<1>7. CASE Receiving(id, r) /\ p = NoPacket
  <2>1. rx'[id] = MissPacket(rx[id], N)
    BY <1>3, <1>7
  <2> QED
    BY <1>1, <1>2, <1>7, <2>1, MissStep DEF N, r, p
<1> QED
  BY <1>5, <1>6, <1>7

LEMMA OnePacketNext ==
    ASSUME ScheduleInv, Expanded, slot \in 0..(ScheduleSlots - 1), BuffersTyped,
           NEW id \in Ids, Complete(id), CountersAgree(id), OnePacket(id),
           out \subseteq interrupted, Relays(id) \cap interrupted = {},
           NEW failed, Execute(failed)
    PROVE  OnePacket(id)'
<1> DEFINE tp == tx[id].txPacket
           tq == tx'[id].txPacket
           s == \E e \in FirstHops(id) : Uses(e, slot)
           l == \E e \in LastHops(id) : Uses(e, slot)
<1>1. NextSlot /\ net' = net /\ allocVars' = allocVars
  BY DEF Execute
<1>2. /\ \A e \in Hops(id) : Uses(e, slot) <=> e.offset = Phase(id)
      /\ rx[id].rxCount # 0 => Begun(id)
      /\ \A e \in Hops(id) : (e.offset < Phase(id)) => Begun(id)
      /\ \A e \in Hops(id) : (e.offset < Phase(id)') => (e.offset < Phase(id) \/ Uses(e, slot))
  BY <1>1, PeriodFacts
<1>3. Begun(id) => tq = tp
  BY PacketTaken
<1>4. rx'[id].rxPacket \in (IF rx'[id].rxCount = 0 THEN {NoPacket} ELSE {NoPacket, tq})
  <2>1. rx[id].rxPacket \in {NoPacket, tq} /\ (rx[id].rxCount = 0 => rx[id].rxPacket = NoPacket)
    BY <1>2, <1>3 DEF OnePacket
  <2>2. /\ rx'[id].rxCount = IF l THEN NextCount(rx[id].rxCount, Count(id)) ELSE rx[id].rxCount
        /\ ~l => rx'[id] = rx[id]
        /\ l => IF NextCount(rx[id].rxCount, Count(id)) = 0
                THEN rx'[id].rxPacket = NoPacket
                ELSE rx'[id].rxPacket \in {rx[id].rxPacket, tq}
    BY PacketReceived
  <2> HIDE DEF l, tq
  <2> QED
    BY <2>1, <2>2
<1>5. ASSUME NEW e \in Hops(id), e.offset < Phase(id)', e.rx # e.dst
      PROVE  buffer'[e.rx][id] \in {Empty, [stream |-> id, packet |-> tq]}
  <2> DEFINE n == e.rx
  <2>1. n \in net.nodes /\ e \in Elements /\ e.stream = id /\ e.tx # e.rx
    BY HopParts
  <2>2. buffer'[n][id] = BufferAfter(n, id, failed)
    BY <2>1 DEF Execute
  <2>3. ASSUME n \in Does("RECVBUFFER"), Entry(n).stream = id
        PROVE  Heard(n, failed) \in {Empty, [stream |-> id, packet |-> tq]}
    <3>1. Entry(n).action = "RECVBUFFER"
      BY <2>3 DEF Does
    <3>2. PICK f \in Elements : Uses(f, slot) /\ Role(n, f) = "RECVBUFFER" /\ f.stream = id
      BY <2>1, <2>3, <3>1, EntryOf
    <3>3. f \in Hops(id) /\ f.tx # f.rx
      BY <3>2, ElementParts DEF Hops
    <3>4. f.rx = n
      BY <3>2, <3>3, Roles
    <3> QED
      BY <3>2, <3>3, <3>4, PacketHeard
  <2>4. BufferAfter(n, id, failed) \in
            IF n \in Does("RECVBUFFER") /\ Entry(n).stream = id
            THEN {Heard(n, failed)} ELSE {Empty, buffer[n][id]}
    BY DEF BufferAfter
  <2>5. CASE e.offset < Phase(id)
    <3>1. Begun(id)
      BY <1>2, <2>5
    <3>2. buffer[n][id] \in {Empty, [stream |-> id, packet |-> tp]}
      BY <1>5, <2>5 DEF OnePacket
    <3>3. tq = tp
      BY <1>3, <3>1
    <3> HIDE DEF tp, tq
    <3> QED
      BY <2>2, <2>3, <2>4, <3>2, <3>3
  <2>6. CASE Uses(e, slot)
    <3>1. Role(n, e) = "RECVBUFFER"
      BY <1>5, <2>1, Roles
    <3>2. Entry(n).action = "RECVBUFFER" /\ Entry(n).stream = id
      BY <2>1, <2>6, <3>1, EntryOf
    <3>3. n \in Relays(id)
      BY <1>5, <2>1 DEF Relays
    <3>4. n \in Does("RECVBUFFER")
      BY <2>1, <3>2, <3>3 DEF Does
    <3> HIDE DEF tq
    <3> QED
      BY <2>2, <2>3, <2>4, <3>2, <3>4
  <2> QED
    BY <1>2, <1>5, <2>5, <2>6
<1>6. Hops(id)' = Hops(id) /\ Empty' = Empty
  BY <1>1, Unmoved DEF Empty
<1> QED
  BY <1>4, <1>5, <1>6 DEF OnePacket

\* Packets in order, as a relation of what the source has next, what it sends,
\* what the destination has handed over and what was read.
Queued(next, packet, due, shared, reads, w) ==
    /\ next # NoPacket => /\ packet < next /\ shared < next
                          /\ \A i \in DOMAIN reads : reads[i] < next
    /\ due # NoPacket => /\ shared < due
                         /\ \A i \in DOMAIN reads : reads[i] < due
    /\ shared <= w
    /\ shared # NoPacket => \A i \in DOMAIN reads : reads[i] < shared
    /\ \A i \in DOMAIN reads : reads[i] <= w
    /\ \A i, j \in DOMAIN reads : i < j => reads[i] < reads[j]

\* The packet that is on its way.
Due(id) == IF Pending(id) THEN tx[id].txPacket ELSE NoPacket

LEMMA OrderedQueued ==
    ASSUME NEW id
    PROVE  /\ Ordered(id) <=> Queued(tx[id].nextTxPacket, tx[id].txPacket, Due(id),
                                     rx[id].rxPacketShared, read[id], written[id])
           /\ Ordered(id)' <=> Queued(tx'[id].nextTxPacket, tx'[id].txPacket, Due(id)',
                                      rx'[id].rxPacketShared, read'[id], written'[id])
  BY DEF Ordered, Queued, Newer, Due, NoPacket

\* The packet of the next period is taken.
LEMMA QueuedTake ==
    ASSUME NEW next \in Nat, NEW packet \in Nat, NEW shared \in Nat, NEW reads \in Seq(Nat),
           NEW w \in Nat, NEW due, NEW left, NEW shared2 \in Nat,
           next <= w, Queued(next, packet, due, shared, reads, w), left \in {NoPacket, next},
           shared2 = shared \/ (shared2 \in {NoPacket, next} /\ left = NoPacket)
    PROVE  Queued(NoPacket, next, left, shared2, reads, w)
<1>1. CASE shared2 = shared
  BY <1>1 DEF Queued
<1>2. CASE shared2 \in {NoPacket, next} /\ left = NoPacket
  BY <1>2 DEF Queued, NoPacket
<1> QED
  BY <1>1, <1>2

\* The packet of this period goes on, or is handed over at its end.
LEMMA QueuedGoOn ==
    ASSUME NEW next \in Nat, NEW packet \in Nat, NEW shared \in Nat, NEW reads \in Seq(Nat),
           NEW w \in Nat, NEW due, NEW left, NEW shared2 \in Nat,
           packet <= w, Queued(next, packet, due, shared, reads, w), due \in {NoPacket, packet},
           \/ shared2 = shared /\ left \in {NoPacket, due}
           \/ shared2 \in {NoPacket, due} /\ left = NoPacket
    PROVE  Queued(next, packet, left, shared2, reads, w)
<1>1. CASE shared2 = shared /\ left \in {NoPacket, due}
  BY <1>1 DEF Queued
<1>2. CASE shared2 \in {NoPacket, due} /\ left = NoPacket
  <2>1. CASE shared2 = NoPacket
    BY <1>2, <2>1 DEF Queued, NoPacket
  <2>2. CASE shared2 = packet /\ due = packet /\ packet # NoPacket
    BY <1>2, <2>2 DEF Queued, NoPacket
  <2> QED
    BY <1>2, <2>1, <2>2
<1> QED
  BY <1>1, <1>2

LEMMA OrderedNext ==
    ASSUME ScheduleInv, Expanded, slot \in 0..(ScheduleSlots - 1), BuffersTyped,
           NEW id \in Ids, Complete(id), CountersAgree(id), OnePacket(id), Ordered(id),
           NEW failed, Execute(failed)
    PROVE  Ordered(id)'
<1> DEFINE s == \E e \in FirstHops(id) : Uses(e, slot)
           l == \E e \in LastHops(id) : Uses(e, slot)
           h == NextCount(rx[id].rxCount, Count(id)) = 0
           old == rx[id].rxPacketShared
           new == rx'[id].rxPacketShared
<1>1. NextSlot /\ net' = net /\ allocVars' = allocVars /\ read' = read /\ written' = written
  BY DEF Execute, appVars
<1>2. /\ rx[id].rxCount # 0 => Begun(id)
      /\ \A e \in Hops(id) : (Uses(e, slot) /\ ~Begun(id)) => s
      /\ l => /\ Begun(id) => Pending(id)
              /\ h => ~Pending(id)'
      /\ Pending(id)' => Pending(id) \/ (s /\ ~Begun(id))
  <2>1. /\ rx[id].rxCount # 0 => Begun(id)
        /\ \A e \in Hops(id) : (Uses(e, slot) /\ ~Begun(id)) => s
        /\ l => /\ Begun(id) => Pending(id)
                /\ h => ~Pending(id)'
        /\ Pending(id)' => Pending(id) \/ \E d \in FirstHops(id) : Uses(d, slot) /\ ~Begun(id)
    BY <1>1, PeriodFacts
  <2> QED
    BY <2>1
<1>3. /\ Begun(id) \/ ~s => /\ tx'[id].txPacket = tx[id].txPacket
                            /\ tx'[id].nextTxPacket = tx[id].nextTxPacket
      /\ ~Begun(id) /\ s => /\ tx'[id].txPacket = tx[id].nextTxPacket
                            /\ tx'[id].nextTxPacket = NoPacket
  BY PacketTaken
<1>4. l /\ ~Begun(id) => s
  BY <1>2 DEF LastHops
<1>5. /\ rx'[id] \in RxTypes
      /\ ~(l /\ h) => new = old
      /\ l /\ h => new \in {rx[id].rxPacket, tx'[id].txPacket}
  <2>1. /\ rx'[id] \in RxTypes
        /\ ~l => rx'[id] = rx[id]
        /\ l => IF h
                THEN /\ rx'[id].rxPacket = NoPacket
                     /\ rx'[id].rxPacketShared \in {rx[id].rxPacket, tx'[id].txPacket}
                ELSE /\ rx'[id].rxPacket \in {rx[id].rxPacket, tx'[id].txPacket}
                     /\ rx'[id].rxPacketShared = rx[id].rxPacketShared
    BY PacketReceived
  <2> HIDE DEF l, h
  <2> QED
    BY <2>1
<1>6. rx[id].rxPacket \in {NoPacket, tx'[id].txPacket}
  <2>1. rx[id].rxPacket \in (IF rx[id].rxCount = 0 THEN {NoPacket} ELSE {NoPacket, tx[id].txPacket})
    BY DEF OnePacket
  <2> HIDE DEF s
  <2> QED
    BY <1>2, <1>3, <2>1
<1>7. l /\ h => new \in {NoPacket, tx'[id].txPacket}
  BY <1>5, <1>6
<1>8. /\ tx[id].nextTxPacket \in Nat /\ tx[id].txPacket \in Nat /\ old \in Nat /\ new \in Nat
      /\ read[id] \in Seq(Nat) /\ written[id] \in Nat
      /\ tx[id].nextTxPacket <= written[id] /\ tx[id].txPacket <= written[id]
  BY <1>5 DEF BuffersTyped, TxTypes, RxTypes
<1>9. Due(id) \in {NoPacket, tx[id].txPacket} /\ Due(id)' \in {NoPacket, tx'[id].txPacket}
  BY DEF Due
<1>10. Queued(tx[id].nextTxPacket, tx[id].txPacket, Due(id), old, read[id], written[id])
  BY OrderedQueued
<1>11. PICK next, packet, reads, w, due, left, p, q :
            /\ next = tx[id].nextTxPacket /\ packet = tx[id].txPacket
            /\ reads = read[id] /\ w = written[id]
            /\ due = Due(id) /\ left = Due(id)'
            /\ p = old /\ q = new
  OBVIOUS
<1>12. /\ next \in Nat /\ packet \in Nat /\ p \in Nat /\ q \in Nat
       /\ reads \in Seq(Nat) /\ w \in Nat /\ next <= w /\ packet <= w
       /\ due \in {NoPacket, packet}
       /\ Queued(next, packet, due, p, reads, w)
  BY <1>8, <1>9, <1>10, <1>11
<1> HIDE DEF s, l, h, old, new
<1>13. CASE ~Begun(id) /\ s
  <2>1. left \in {NoPacket, next}
    BY <1>3, <1>9, <1>11, <1>13
  <2>2. q = p \/ (q \in {NoPacket, next} /\ left = NoPacket)
    BY <1>2, <1>3, <1>5, <1>7, <1>11, <1>13 DEF Due
  <2>3. Queued(NoPacket, next, left, q, reads, w)
    BY <1>12, <2>1, <2>2, QueuedTake
  <2> QED
    BY <1>1, <1>3, <1>11, <1>13, <2>3, OrderedQueued DEF new
<1>14. CASE Begun(id) \/ ~s
  <2>1. \/ q = p /\ left \in {NoPacket, due}
        \/ q \in {NoPacket, due} /\ left = NoPacket
    BY <1>2, <1>3, <1>4, <1>5, <1>7, <1>11, <1>14 DEF Due
  <2>2. Queued(next, packet, left, q, reads, w)
    BY <1>12, <2>1, QueuedGoOn
  <2> QED
    BY <1>1, <1>3, <1>11, <1>14, <2>2, OrderedQueued DEF new
<1> QED
  BY <1>13, <1>14

-----------------------------------------------------------------------------
(***************************************************************************)
(* Every step keeps the packets in order.                                  *)
(***************************************************************************)
LEMMA SlotNext ==
    ASSUME ScheduleInv, slot \in 0..(ScheduleSlots - 1), NextSlot, net' = net, allocVars' = allocVars
    PROVE  slot' \in 0..(ScheduleSlots' - 1)
<1>1. newSize * net.slotsPerTile \in Nat \ {0}
  BY NetworkParts, Product DEF ScheduleInv, AllocInv, AllocTypeOK
<1>2. PICK m : m = ScheduleSlots
  OBVIOUS
<1>3. m \in Nat \ {0} /\ slot \in Nat /\ slot' = ((slot + 1) % m)
  BY <1>1, <1>2 DEF ScheduleSlots, NextSlot
<1>4. ((slot + 1) % m) \in 0..(m - 1)
  BY <1>3
<1> QED
  BY <1>2, <1>3, <1>4, Unmoved

\* Nothing of the schedule and of time moves.
LEMMA Frozen ==
    ASSUME net' = net, allocVars' = allocVars, slot' = slot, NEW id
    PROVE  /\ Phase(id)' = Phase(id) /\ Begun(id)' = Begun(id) /\ Pending(id)' = Pending(id)
           /\ Counter(id, FirstHops(id))' = Counter(id, FirstHops(id))
           /\ Counter(id, LastHops(id))' = Counter(id, LastHops(id))
<1>1. /\ StreamOf(id)' = StreamOf(id) /\ Count(id)' = Count(id)
      /\ FirstHops(id)' = FirstHops(id) /\ LastHops(id)' = LastHops(id)
  BY Unmoved
<1>2. Phase(id)' = Phase(id)
  BY <1>1 DEF Phase
<1>3. Begun(id)' = Begun(id)
  BY <1>1, <1>2 DEF Begun, Passed
<1>4. Pending(id)' = Pending(id)
  BY <1>1, <1>2, <1>3 DEF Pending, Passed
<1>5. /\ Counter(id, FirstHops(id))' = Counter(id, FirstHops(id))
      /\ Counter(id, LastHops(id))' = Counter(id, LastHops(id))
  BY <1>1, <1>2 DEF Counter, Passed
<1> QED
  BY <1>2, <1>3, <1>4, <1>5

\* What a node shows of the schedule, in parts.
ActingAt(n, k) ==
    {i \in DOMAIN current_schedule : Role(n, current_schedule[i]) # "SLEEP" /\ Uses(current_schedule[i], k)}
LatestAt(n, k) == CHOOSE i \in ActingAt(n, k) : \A j \in ActingAt(n, k) : j <= i
ShownAt(n, i) ==
    [action |-> Role(n, current_schedule[i]), stream |-> current_schedule[i].stream,
     hasBuffer |-> HasBuffer(n, current_schedule, i)]
ExpansionAt(n) ==
    [k \in 0..(ScheduleSlots - 1) |-> IF ActingAt(n, k) = {} THEN Sleep ELSE ShownAt(n, LatestAt(n, k))]
Expansions == [n \in net.nodes |-> ExpandSchedule(n, current_schedule, ScheduleSlots)]

LEMMA ExpansionKept ==
    ASSUME net' = net, allocVars' = allocVars
    PROVE  Expansions' = Expansions
<1>1. ScheduleSlots' = ScheduleSlots /\ current_schedule' = current_schedule
  BY Unmoved DEF allocVars
<1>2. \A e, k : Uses(e, k)' <=> Uses(e, k)
  BY DEF Uses
<1>3. \A n, k : ActingAt(n, k)' = ActingAt(n, k)
  BY <1>1, <1>2 DEF ActingAt
<1>4. \A n, k : LatestAt(n, k)' = LatestAt(n, k)
  BY <1>3 DEF LatestAt
<1>5. \A n, i : ShownAt(n, i)' = ShownAt(n, i)
  BY <1>1 DEF ShownAt
<1>6. \A n : ExpansionAt(n)' = ExpansionAt(n)
  BY <1>1, <1>3, <1>4, <1>5 DEF ExpansionAt
<1>7. Expansions = [n \in net.nodes |-> ExpansionAt(n)]
  BY DEF Expansions, ExpansionAt, ExpandSchedule, ActingAt, LatestAt, ShownAt
<1>8. Expansions' = [n \in net.nodes |-> ExpansionAt(n)']
  BY DEF Expansions, ExpansionAt, ExpandSchedule, ActingAt, LatestAt, ShownAt
<1> QED
  BY <1>6, <1>7, <1>8

LEMMA PacketKept ==
    ASSUME net' = net, allocVars' = allocVars, slot' = slot, buffer' = buffer, NEW id,
           CountersAgree(id), OnePacket(id),
           tx'[id].txCount = tx[id].txCount, tx'[id].txPacket = tx[id].txPacket,
           rx'[id].rxCount = rx[id].rxCount, rx'[id].rxPacket = rx[id].rxPacket
    PROVE  CountersAgree(id)' /\ OnePacket(id)'
<1>1. CountersAgree(id)'
  BY Frozen DEF CountersAgree
<1>2. OnePacket(id)'
  <2>1. Phase(id)' = Phase(id) /\ Hops(id)' = Hops(id)
    BY Frozen, Unmoved
  <2> QED
    BY <2>1 DEF OnePacket, Empty
<1> QED
  BY <1>1, <1>2

\* What PlayInv says of a stream whose transmissions are all there.
Carried(id) == CountersAgree(id) /\ OnePacket(id) /\ Ordered(id)

LEMMA TypedNext ==
    ASSUME ScheduleInv, Expanded, slot \in 0..(ScheduleSlots - 1), BuffersTyped,
           NEW failed, Execute(failed)
    PROVE  BuffersTyped'
<1>1. /\ buffer \in [net.nodes -> [Ids -> AirTypes]]
      /\ tx \in [Ids -> TxTypes] /\ rx \in [Ids -> RxTypes]
      /\ written \in [Ids -> Nat] /\ read \in [Ids -> Seq(Nat)]
      /\ \A id \in Ids : tx[id].nextTxPacket <= written[id] /\ tx[id].txPacket <= written[id]
  BY DEF BuffersTyped
<1>2. /\ net' = net /\ allocVars' = allocVars /\ written' = written /\ read' = read
      /\ tx' = [id \in Ids |-> IF Sending(id) THEN SendPacket(tx[id], Count(id)) ELSE tx[id]]
      /\ rx' = [id \in Ids |->
                LET r == StreamOf(id).dst
                IN  IF ~Receiving(id, r) THEN rx[id]
                    ELSE IF Received(r, failed) # NoPacket
                         THEN ReceivePacket(rx[id], Count(id), Received(r, failed))
                         ELSE MissPacket(rx[id], Count(id))]
      /\ buffer' = [n \in net.nodes |-> [id \in Ids |-> BufferAfter(n, id, failed)]]
  BY DEF Execute, appVars
<1>3. Ids' = Ids
  BY <1>2, Unmoved
<1>4. ASSUME NEW id \in Ids PROVE Count(id) \in Nat \ {0}
  BY StreamNamed DEF ScheduleInv, AllocInv
<1>5. ASSUME NEW n \in net.nodes, NEW id \in Ids PROVE BufferAfter(n, id, failed) \in AirTypes
  <2>1. Heard(n, failed) \in AirTypes /\ Empty \in AirTypes /\ buffer[n][id] \in AirTypes
    BY <1>1, AirTyped DEF Empty, AirTypes, NoPacket
  <2> QED
    BY <2>1 DEF BufferAfter
<1>6. buffer' \in [net.nodes -> [Ids -> AirTypes]]
  BY <1>2, <1>5
<1>7. ASSUME NEW id \in Ids
      PROVE  /\ tx'[id] \in TxTypes
             /\ tx'[id].nextTxPacket <= written[id] /\ tx'[id].txPacket <= written[id]
  <2>1. tx'[id] = IF Sending(id) THEN SendPacket(tx[id], Count(id)) ELSE tx[id]
    BY <1>2
  <2>2. /\ tx[id] \in TxTypes /\ written[id] \in Nat
        /\ tx[id].nextTxPacket <= written[id] /\ tx[id].txPacket <= written[id]
    BY <1>1
  <2>3. /\ SendPacket(tx[id], Count(id)) \in TxTypes
        /\ tx[id].txCount = 0 => /\ SendPacket(tx[id], Count(id)).txPacket = tx[id].nextTxPacket
                                 /\ SendPacket(tx[id], Count(id)).nextTxPacket = NoPacket
        /\ tx[id].txCount # 0 => /\ SendPacket(tx[id], Count(id)).txPacket = tx[id].txPacket
                                 /\ SendPacket(tx[id], Count(id)).nextTxPacket = tx[id].nextTxPacket
    BY <1>4, <2>2, TxStep
  <2> QED
    BY <2>1, <2>2, <2>3 DEF NoPacket
<1>8. ASSUME NEW id \in Ids PROVE rx'[id] \in RxTypes
  <2>1. PICK r, p : r = StreamOf(id).dst /\ p = Received(r, failed)
    OBVIOUS
  <2>2. p \in Nat /\ rx[id] \in RxTypes
    BY <1>1, <2>1, AirTyped
  <2>3. ReceivePacket(rx[id], Count(id), p) \in RxTypes /\ MissPacket(rx[id], Count(id)) \in RxTypes
    BY <1>4, <2>2, ReceiveStep, MissStep
  <2>4. rx'[id] = IF ~Receiving(id, r) THEN rx[id]
                  ELSE IF p # NoPacket THEN ReceivePacket(rx[id], Count(id), p)
                                       ELSE MissPacket(rx[id], Count(id))
    BY <1>2, <2>1
  <2> QED
    BY <2>2, <2>3, <2>4
<1>9. tx' \in [Ids -> TxTypes]
  BY <1>2, <1>7
<1>10. rx' \in [Ids -> RxTypes]
  BY <1>2, <1>8
<1> QED
  BY <1>1, <1>2, <1>3, <1>6, <1>7, <1>9, <1>10 DEF BuffersTyped

LEMMA ExecuteInv ==
    ASSUME ScheduleInv, PlayInv, NEW failed, Execute(failed)
    PROVE  PlayInv'
<1>1. /\ NextSlot /\ net' = net /\ allocVars' = allocVars
      /\ Playing /\ explicit' = explicit /\ out' = out /\ interrupted' = interrupted
  BY DEF Execute
<1>2. /\ BuffersTyped /\ slot \in 0..(ScheduleSlots - 1) /\ out \subseteq interrupted /\ Expanded
      /\ \A id \in Ids : (Intact(id) /\ Relays(id) \cap interrupted = {}) => Carried(id)
  BY <1>1 DEF PlayInv, Playing, Expanded, Carried
<1>3. BuffersTyped'
  BY <1>2, TypedNext
<1>4. slot' \in 0..(ScheduleSlots' - 1)
  BY <1>1, <1>2, SlotNext
<1>5. Expanded'
  <2>1. stage' = stage /\ current_schedule' = current_schedule /\ ScheduleSlots' = ScheduleSlots
    BY <1>1, Unmoved DEF allocVars
  <2> QED
    BY <1>1, <1>2, <2>1, ExpansionKept DEF Expanded, Expansions
<1>6. ASSUME NEW id \in Ids, Intact(id), Relays(id) \cap interrupted = {} PROVE Carried(id)'
  <2>1. Complete(id) /\ CountersAgree(id) /\ OnePacket(id) /\ Ordered(id)
    BY <1>2, <1>6 DEF Carried, Intact
  <2>2. /\ tx'[id].txCount = IF \E e \in FirstHops(id) : Uses(e, slot)
                             THEN NextCount(tx[id].txCount, Count(id)) ELSE tx[id].txCount
        /\ rx'[id].rxCount = IF \E e \in LastHops(id) : Uses(e, slot)
                             THEN NextCount(rx[id].rxCount, Count(id)) ELSE rx[id].rxCount
    BY <1>2, <2>1, PacketTaken, PacketReceived
  <2>3. CountersAgree(id)'
    BY <1>1, <1>2, <2>1, <2>2, CountersNext
  <2>4. OnePacket(id)'
    BY <1>2, <1>6, <2>1, OnePacketNext
  <2>5. Ordered(id)'
    BY <1>2, <2>1, OrderedNext
  <2> QED
    BY <2>3, <2>4, <2>5 DEF Carried
<1>7. \A id \in Ids' : (Intact(id) /\ Relays(id) \cap interrupted = {})' => Carried(id)'
  BY <1>1, <1>6, Unmoved
<1>8. Playing'
  BY <1>1 DEF Playing
<1> QED
  BY <1>1, <1>2, <1>3, <1>4, <1>5, <1>7, <1>8 DEF PlayInv, Playing, Expanded, Carried

\* A stream that is intact does not transmit in a control slot.
LEMMA AdvanceInv ==
    ASSUME ScheduleInv, PlayInv, AdvanceBy
    PROVE  PlayInv'
<1>1. /\ NextSlot /\ net' = net /\ allocVars' = allocVars
      /\ Playing /\ ~DataSlot(net, slot) /\ explicit' = explicit
      /\ buffer' = buffer /\ tx' = tx /\ rx' = rx /\ written' = written /\ read' = read
      /\ out' = out /\ interrupted' = interrupted
  BY DEF AdvanceBy, appVars, airVars
<1>2. /\ BuffersTyped /\ slot \in 0..(ScheduleSlots - 1) /\ out \subseteq interrupted /\ Expanded
      /\ \A id \in Ids : (Intact(id) /\ Relays(id) \cap interrupted = {}) => Carried(id)
  BY <1>1 DEF PlayInv, Playing, Expanded, Carried
<1>3. BuffersTyped'
  BY <1>1, <1>2, Unmoved DEF BuffersTyped
<1>4. slot' \in 0..(ScheduleSlots' - 1)
  BY <1>1, <1>2, SlotNext
<1>5. Expanded'
  <2>1. stage' = stage /\ current_schedule' = current_schedule /\ ScheduleSlots' = ScheduleSlots
    BY <1>1, Unmoved DEF allocVars
  <2> QED
    BY <1>1, <1>2, <2>1, ExpansionKept DEF Expanded, Expansions
<1>6. ASSUME NEW id \in Ids, Intact(id), Relays(id) \cap interrupted = {} PROVE Carried(id)'
  <2>1. Complete(id) /\ InDataSlots(id) /\ CountersAgree(id) /\ OnePacket(id) /\ Ordered(id)
    BY <1>2, <1>6 DEF Carried, Intact
  <2>2. \A e \in Hops(id) : ~Uses(e, slot)
    BY <1>1, <1>2, <2>1 DEF InDataSlots, Hops
  <2>3. /\ ~\E e \in FirstHops(id) : Uses(e, slot)
        /\ ~\E e \in LastHops(id) : Uses(e, slot)
    BY <2>2 DEF FirstHops, LastHops
  <2>4. CountersAgree(id)'
    BY <1>1, <1>2, <2>1, <2>3, CountersNext
  <2>5. /\ Pending(id)' => Pending(id) \/ \E d \in FirstHops(id) : Uses(d, slot) /\ ~Begun(id)
        /\ \A e \in Hops(id) : (e.offset < Phase(id)') => (e.offset < Phase(id) \/ Uses(e, slot))
    BY <1>1, <1>2, <2>1, PeriodFacts
  <2>6. OnePacket(id)'
    <3>1. Hops(id)' = Hops(id)
      BY <1>1, Unmoved
    <3>2. \A e \in Hops(id) : (e.offset < Phase(id)') => (e.offset < Phase(id))
      BY <2>2, <2>5
    <3> QED
      BY <1>1, <2>1, <3>1, <3>2 DEF OnePacket, Empty
  <2>7. Pending(id)' => Pending(id)
    BY <2>3, <2>5
  <2>8. Ordered(id)'
    BY <1>1, <2>1, <2>7 DEF Ordered, Newer
  <2> QED
    BY <2>4, <2>6, <2>8 DEF Carried
<1>7. \A id \in Ids' : (Intact(id) /\ Relays(id) \cap interrupted = {})' => Carried(id)'
  BY <1>1, <1>6, Unmoved
<1> QED
  BY <1>1, <1>2, <1>3, <1>4, <1>5, <1>7 DEF PlayInv, Playing, Expanded, Carried

\* A step of an application, at whatever time: it only queues or takes packets.
LEMMA ApplicationInv ==
    ASSUME ScheduleInv, PlayInv, Playing,
           net' = net, allocVars' = allocVars, explicit' = explicit, slot' = slot, buffer' = buffer,
           airVars' = airVars, BuffersTyped',
           \A id \in Ids : /\ tx'[id].txCount = tx[id].txCount /\ tx'[id].txPacket = tx[id].txPacket
                           /\ rx'[id].rxCount = rx[id].rxCount /\ rx'[id].rxPacket = rx[id].rxPacket
                           /\ Ordered(id) => Ordered(id)'
    PROVE  PlayInv'
<1>1. /\ slot \in 0..(ScheduleSlots - 1) /\ out \subseteq interrupted /\ Expanded
      /\ \A id \in Ids : (Intact(id) /\ Relays(id) \cap interrupted = {}) => Carried(id)
  BY DEF PlayInv, Playing, Expanded, Carried
<1>2. /\ ScheduleSlots' = ScheduleSlots /\ Ids' = Ids
      /\ \A id : Relays(id)' = Relays(id) /\ Intact(id)' = Intact(id)
  BY Unmoved
<1>3. out' = out /\ interrupted' = interrupted
  BY DEF airVars
<1>4. Expanded'
  BY <1>1, <1>2, ExpansionKept DEF Expanded, Expansions, allocVars
<1>5. ASSUME NEW id \in Ids, Intact(id), Relays(id) \cap interrupted = {} PROVE Carried(id)'
  <2>1. CountersAgree(id) /\ OnePacket(id) /\ Ordered(id)
    BY <1>1, <1>5 DEF Carried
  <2>2. CountersAgree(id)' /\ OnePacket(id)'
    BY <2>1, PacketKept
  <2> QED
    BY <2>1, <2>2 DEF Carried
<1>6. \A id \in Ids' : (Intact(id) /\ Relays(id) \cap interrupted = {})' => Carried(id)'
  BY <1>2, <1>3, <1>5
<1> QED
  BY <1>1, <1>2, <1>3, <1>4, <1>6 DEF PlayInv, Playing, Expanded, Carried

LEMMA QueuedWrite ==
    ASSUME NEW packet \in Nat, NEW shared \in Nat, NEW reads \in Seq(Nat), NEW w \in Nat, packet <= w,
           NEW due, Queued(NoPacket, packet, due, shared, reads, w)
    PROVE  Queued(w + 1, packet, due, shared, reads, w + 1)
<1>1. \A i \in DOMAIN reads : reads[i] < w + 1 /\ reads[i] <= w + 1
  BY DEF Queued
<1>2. shared < w + 1 /\ shared <= w + 1 /\ packet < w + 1
  BY DEF Queued
<1> QED
  BY <1>1, <1>2 DEF Queued

LEMMA AppWriteInv ==
    ASSUME ScheduleInv, PlayInv, NEW i \in Ids, AppWrite(i)
    PROVE  PlayInv'
<1>1. /\ net' = net /\ allocVars' = allocVars /\ explicit' = explicit /\ slot' = slot
      /\ buffer' = buffer /\ airVars' = airVars /\ Playing
      /\ rx' = rx /\ read' = read
      /\ tx[i].nextTxPacket = NoPacket
      /\ written' = [written EXCEPT ![i] = @ + 1]
      /\ tx' = [tx EXCEPT ![i] = Write(@, written'[i])]
  BY DEF AppWrite, CanWrite
<1>2. BuffersTyped
  BY DEF PlayInv
<1>3. /\ tx \in [Ids -> TxTypes] /\ written \in [Ids -> Nat] /\ read \in [Ids -> Seq(Nat)]
      /\ rx \in [Ids -> RxTypes] /\ buffer \in [net.nodes -> [Ids -> AirTypes]]
      /\ \A id \in Ids : tx[id].nextTxPacket <= written[id] /\ tx[id].txPacket <= written[id]
  BY <1>2 DEF BuffersTyped
<1>4. written'[i] = written[i] + 1 /\ written[i] \in Nat
  BY <1>1, <1>3
<1>5. /\ tx'[i] \in TxTypes
      /\ tx'[i].txCount = tx[i].txCount /\ tx'[i].txPacket = tx[i].txPacket
      /\ tx'[i].nextTxPacket = written[i] + 1
  <2>1. tx'[i] = Write(tx[i], written[i] + 1)
    BY <1>1, <1>3, <1>4
  <2>2. tx[i] \in TxTypes /\ written[i] + 1 \in Nat
    BY <1>3, <1>4
  <2> HIDE <1>1, <1>3
  <2> QED
    BY <2>1, <2>2 DEF Write, TxTypes
<1>6. \A id \in Ids \ {i} : tx'[id] = tx[id] /\ written'[id] = written[id]
  BY <1>1, <1>3
<1>7. BuffersTyped'
  <2>1. tx' \in [Ids -> TxTypes]
    BY <1>1, <1>3, <1>5, <1>6
  <2>2. written' \in [Ids -> Nat]
    BY <1>1, <1>3
  <2>3. ASSUME NEW id \in Ids
        PROVE  tx'[id].nextTxPacket <= written'[id] /\ tx'[id].txPacket <= written'[id]
    <3>1. CASE id # i
      BY <1>3, <1>6, <3>1
    <3>2. CASE id = i
      <4>1. tx[i].txPacket \in Nat /\ tx[i].txPacket <= written[i]
        BY <1>3 DEF TxTypes
      <4> QED
        BY <1>4, <1>5, <3>2, <4>1
    <3> QED
      BY <3>1, <3>2
  <2> QED
    BY <1>1, <1>3, <2>1, <2>2, <2>3, Unmoved DEF BuffersTyped
<1>8. ASSUME NEW id \in Ids, Ordered(id) PROVE Ordered(id)'
  <2>1. Pending(id)' = Pending(id)
    BY <1>1, Frozen
  <2>2. CASE id # i
    <3>1. tx'[id] = tx[id] /\ written'[id] = written[id]
      BY <1>6, <2>2
    <3> QED
      BY <1>1, <1>8, <2>1, <3>1 DEF Ordered, Newer
  <2>3. CASE id = i
    <3>1. Queued(NoPacket, tx[i].txPacket, Due(i), rx[i].rxPacketShared, read[i], written[i])
      BY <1>1, <1>8, <2>3, OrderedQueued
    <3>2. /\ tx[i].txPacket \in Nat /\ tx[i].txPacket <= written[i] /\ rx[i].rxPacketShared \in Nat
          /\ read[i] \in Seq(Nat)
      BY <1>3 DEF TxTypes, RxTypes
    <3>3. Queued(written[i] + 1, tx[i].txPacket, Due(i), rx[i].rxPacketShared, read[i], written[i] + 1)
      BY <1>4, <3>1, <3>2, QueuedWrite
    <3> QED
      BY <1>1, <1>4, <1>5, <2>1, <2>3, <3>3, OrderedQueued DEF Due
  <2> QED
    BY <2>2, <2>3
<1>9. \A id \in Ids : /\ tx'[id].txCount = tx[id].txCount /\ tx'[id].txPacket = tx[id].txPacket
                      /\ rx'[id].rxCount = rx[id].rxCount /\ rx'[id].rxPacket = rx[id].rxPacket
                      /\ Ordered(id) => Ordered(id)'
  BY <1>1, <1>5, <1>6, <1>8
<1> QED
  BY <1>1, <1>7, <1>9, ApplicationInv

LEMMA QueuedRead ==
    ASSUME NEW next \in Nat, NEW packet \in Nat, NEW shared \in Nat, NEW reads \in Seq(Nat),
           NEW w \in Nat, NEW due \in Nat, Queued(next, packet, due, shared, reads, w)
    PROVE  /\ shared = NoPacket => Queued(next, packet, due, NoPacket, reads, w)
           /\ shared # NoPacket => Queued(next, packet, due, NoPacket, Append(reads, shared), w)
<1>1. ASSUME shared # NoPacket PROVE Queued(next, packet, due, NoPacket, Append(reads, shared), w)
  <2> DEFINE all == Append(reads, shared)
  <2>1. \A i \in DOMAIN all : all[i] = shared \/ (i \in DOMAIN reads /\ all[i] = reads[i])
    OBVIOUS
  <2>2. \A i \in DOMAIN reads : reads[i] \in Nat /\ reads[i] < shared /\ reads[i] <= w
    BY <1>1 DEF Queued
  <2>3. \A i \in DOMAIN all : all[i] <= w
    BY <2>1, <2>2 DEF Queued
  <2>4. ASSUME NEW i \in DOMAIN all, NEW j \in DOMAIN all, i < j PROVE all[i] < all[j]
    <3>1. i \in DOMAIN reads /\ all[i] = reads[i]
      BY <2>4
    <3>2. CASE j \in DOMAIN reads /\ all[j] = reads[j]
      BY <2>4, <3>1, <3>2 DEF Queued
    <3>3. CASE all[j] = shared
      BY <2>2, <3>1, <3>3
    <3> QED
      BY <2>1, <3>2, <3>3
  <2>5. next # NoPacket => NoPacket < next /\ \A i \in DOMAIN all : all[i] < next
    <3>1. next # NoPacket => shared < next /\ \A i \in DOMAIN reads : reads[i] < next
      BY DEF Queued
    <3> HIDE DEF all
    <3> QED
      BY <2>1, <3>1 DEF NoPacket
  <2>6. due # NoPacket => NoPacket < due /\ \A i \in DOMAIN all : all[i] < due
    <3>1. due # NoPacket => shared < due /\ \A i \in DOMAIN reads : reads[i] < due
      BY DEF Queued
    <3> HIDE DEF all
    <3> QED
      BY <2>1, <3>1 DEF NoPacket
  <2>7. next # NoPacket => packet < next
    BY DEF Queued
  <2> HIDE DEF all
  <2> SUFFICES Queued(next, packet, due, NoPacket, all, w)
    BY DEF all
  <2> QED
    BY <2>3, <2>4, <2>5, <2>6, <2>7 DEF Queued, NoPacket
<1>2. shared = NoPacket => Queued(next, packet, due, NoPacket, reads, w)
  OBVIOUS
<1> QED
  BY <1>1, <1>2

LEMMA AppReadInv ==
    ASSUME ScheduleInv, PlayInv, NEW i \in Ids, AppRead(i)
    PROVE  PlayInv'
<1>1. /\ net' = net /\ allocVars' = allocVars /\ explicit' = explicit /\ slot' = slot
      /\ buffer' = buffer /\ airVars' = airVars /\ Playing
      /\ tx' = tx /\ written' = written
      /\ rx' = [rx EXCEPT ![i] = Read(@)]
      /\ read' = IF rx[i].rxPacketShared = NoPacket THEN read
                 ELSE [read EXCEPT ![i] = Append(@, rx[i].rxPacketShared)]
  BY DEF AppRead
<1>2. BuffersTyped
  BY DEF PlayInv
<1>3. /\ tx \in [Ids -> TxTypes] /\ written \in [Ids -> Nat] /\ read \in [Ids -> Seq(Nat)]
      /\ rx \in [Ids -> RxTypes] /\ buffer \in [net.nodes -> [Ids -> AirTypes]]
      /\ \A id \in Ids : tx[id].nextTxPacket <= written[id] /\ tx[id].txPacket <= written[id]
  BY <1>2 DEF BuffersTyped
<1>4. /\ rx'[i] \in RxTypes /\ rx'[i].rxPacketShared = NoPacket
      /\ rx'[i].rxCount = rx[i].rxCount /\ rx'[i].rxPacket = rx[i].rxPacket
  <2>1. rx'[i] = Read(rx[i])
    BY <1>1, <1>3
  <2>2. PICK r \in RxTypes : r = rx[i]
    BY <1>3
  <2>3. PICK q : q = [r EXCEPT !.alreadyReceivedShared = TRUE]
    OBVIOUS
  <2>4. q \in RxTypes /\ q.rxPacket = r.rxPacket /\ q.rxCount = r.rxCount
    BY <2>3 DEF RxTypes
  <2>5. Read(r) = [q EXCEPT !.rxPacketShared = NoPacket]
    BY <2>3 DEF Read
  <2>6. PICK u : u = Read(r)
    OBVIOUS
  <2>7. u \in RxTypes /\ u.rxPacketShared = NoPacket /\ u.rxPacket = q.rxPacket /\ u.rxCount = q.rxCount
    BY <2>4, <2>5, <2>6 DEF RxTypes, NoPacket
  <2> QED
    BY <2>1, <2>2, <2>4, <2>6, <2>7
<1>5. \A id \in Ids \ {i} : rx'[id] = rx[id] /\ read'[id] = read[id]
  BY <1>1, <1>3
<1>6. read'[i] = IF rx[i].rxPacketShared = NoPacket THEN read[i]
                 ELSE Append(read[i], rx[i].rxPacketShared)
  BY <1>1, <1>3
<1>7. BuffersTyped'
  <2>1. rx' \in [Ids -> RxTypes]
    BY <1>1, <1>3, <1>4, <1>5
  <2>2. rx[i].rxPacketShared \in Nat /\ read[i] \in Seq(Nat)
    BY <1>3 DEF RxTypes
  <2>3. Append(read[i], rx[i].rxPacketShared) \in Seq(Nat)
    BY <2>2
  <2>4. read' \in [Ids -> Seq(Nat)]
    BY <1>1, <1>3, <2>3
  <2> QED
    BY <1>1, <1>3, <2>1, <2>4, Unmoved DEF BuffersTyped
<1>8. ASSUME NEW id \in Ids, Ordered(id) PROVE Ordered(id)'
  <2>1. Pending(id)' = Pending(id)
    BY <1>1, Frozen
  <2>2. CASE id # i
    <3>1. rx'[id] = rx[id] /\ read'[id] = read[id]
      BY <1>5, <2>2
    <3> QED
      BY <1>1, <1>8, <2>1, <3>1 DEF Ordered, Newer
  <2>3. CASE id = i
    <3> DEFINE t == tx[i]
               shared == rx[i].rxPacketShared
    <3>1. Queued(t.nextTxPacket, t.txPacket, Due(i), shared, read[i], written[i])
      BY <1>1, <1>8, <2>3, OrderedQueued
    <3>2. /\ t.txPacket \in Nat /\ t.nextTxPacket \in Nat /\ shared \in Nat
          /\ read[i] \in Seq(Nat) /\ written[i] \in Nat /\ Due(i) \in Nat
      BY <1>3 DEF TxTypes, RxTypes, Due, NoPacket
    <3>3. Queued(t.nextTxPacket, t.txPacket, Due(i), NoPacket, read'[i], written[i])
      <4>1. /\ shared = NoPacket =>
                    Queued(t.nextTxPacket, t.txPacket, Due(i), NoPacket, read[i], written[i])
            /\ shared # NoPacket =>
                    Queued(t.nextTxPacket, t.txPacket, Due(i), NoPacket, Append(read[i], shared), written[i])
        BY <3>1, <3>2, QueuedRead
      <4> QED
        BY <1>6, <4>1
    <3> QED
      BY <1>1, <1>4, <2>1, <2>3, <3>3, OrderedQueued DEF Due
  <2> QED
    BY <2>2, <2>3
<1>9. \A id \in Ids : /\ tx'[id].txCount = tx[id].txCount /\ tx'[id].txPacket = tx[id].txPacket
                      /\ rx'[id].rxCount = rx[id].rxCount /\ rx'[id].rxPacket = rx[id].rxPacket
                      /\ Ordered(id) => Ordered(id)'
  BY <1>1, <1>4, <1>5, <1>8
<1> QED
  BY <1>1, <1>7, <1>9, ApplicationInv

\* At slot 0 nothing of a period has passed.
LEMMA PeriodStarts ==
    ASSUME ScheduleInv, slot = 0, NEW id \in Ids, NEW e \in Hops(id)
    PROVE  ~(e.offset < Phase(id))
<1>1. e \in Elements /\ e.period = StreamOf(id).period /\ e.offset \in Nat
  BY HopParts
<1>2. net.slotsPerTile \in Nat \ {0} /\ e.period \in Nat \ {0}
  BY <1>1, NetworkParts, ElementsTyped DEF ScheduleInv, AllocInv, Placements
<1>3. PICK P : P = StreamOf(id).period * net.slotsPerTile
  OBVIOUS
<1>4. P \in Nat \ {0}
  BY <1>1, <1>2, <1>3, Product
<1>5. (0 % P) = 0
  <2>1. 0 = P * 0 /\ 0 \in Nat
    BY <1>4
  <2> QED
    BY <1>4, <2>1, MultipleExists
<1>6. Phase(id) = 0
  BY <1>3, <1>5 DEF Phase
<1> QED
  BY <1>1, <1>6

\* The first period begins with empty buffers.
LEMMA ApplyScheduleInv ==
    ASSUME ScheduleInv, PlayInv, ApplySchedule
    PROVE  PlayInv'
<1>1. /\ net' = net /\ allocVars' = allocVars /\ slot' = slot /\ stage = "done" /\ explicit = <<>>
      /\ buffer' = buffer /\ tx' = tx /\ rx' = rx /\ written' = written /\ read' = read
      /\ out' = out /\ interrupted' = interrupted
      /\ explicit' = [n \in net.nodes |-> ExpandSchedule(n, current_schedule, ScheduleSlots)]
  BY DEF ApplySchedule, appVars, airVars
<1>2. /\ BuffersTyped /\ slot \in 0..(ScheduleSlots - 1) /\ out \subseteq interrupted
      /\ slot = 0 /\ tx = [id \in Ids |-> TxBuffers] /\ rx = [id \in Ids |-> RxBuffers]
      /\ read = [id \in Ids |-> <<>>]
  BY <1>1 DEF PlayInv
<1>3. BuffersTyped'
  BY <1>1, <1>2, Unmoved DEF BuffersTyped
<1>4. stage' = stage /\ current_schedule' = current_schedule /\ ScheduleSlots' = ScheduleSlots /\ Ids' = Ids
  BY <1>1, Unmoved DEF allocVars
<1>5. Expanded'
  BY <1>1, <1>4, ExpansionKept DEF Expanded, Expansions
<1>6. ASSUME NEW id \in Ids PROVE Carried(id)'
  <2>1. tx[id] = TxBuffers /\ rx[id] = RxBuffers /\ read[id] = <<>> /\ written[id] \in Nat
    BY <1>2 DEF BuffersTyped
  <2>2. \A e \in Hops(id) : ~(e.offset < Phase(id))
    BY <1>2, PeriodStarts
  <2>3. Passed(id, FirstHops(id)) = {} /\ Passed(id, LastHops(id)) = {}
    BY <2>2 DEF Passed, FirstHops, LastHops
  <2>4. ~Begun(id) /\ ~Pending(id)
    BY <2>3 DEF Begun, Pending
  <2>5. Counter(id, FirstHops(id)) = 0 /\ Counter(id, LastHops(id)) = 0
    BY <2>3, FS_EmptySet DEF Counter
  <2>6. CountersAgree(id)
    BY <2>1, <2>5 DEF CountersAgree, TxBuffers, RxBuffers
  <2>7. OnePacket(id)
    BY <2>1, <2>2 DEF OnePacket, RxBuffers
  <2>8. CountersAgree(id)' /\ OnePacket(id)'
    BY <1>1, <2>6, <2>7, PacketKept
  <2>9. Ordered(id)
    BY <2>1, <2>4 DEF Ordered, Newer, TxBuffers, RxBuffers, NoPacket
  <2>10. Ordered(id)'
    BY <1>1, <2>9, Frozen DEF Ordered, Newer
  <2> QED
    BY <2>8, <2>10 DEF Carried
<1>7. slot' \in 0..(ScheduleSlots' - 1) /\ out' \subseteq interrupted'
  BY <1>1, <1>2, <1>4
<1>8. IF explicit' = <<>>
      THEN /\ slot' = 0
           /\ tx' = [id \in Ids' |-> TxBuffers] /\ rx' = [id \in Ids' |-> RxBuffers]
           /\ read' = [id \in Ids' |-> <<>>]
      ELSE Expanded'
  BY <1>1, <1>2, <1>4, <1>5
<1> QED
  BY <1>3, <1>4, <1>6, <1>7, <1>8 DEF PlayInv, Expanded, Carried

LEMMA OutageInv ==
    ASSUME ScheduleInv, PlayInv, NEW n, LoseSync(n) \/ RegainSync(n)
    PROVE  PlayInv'
<1>1. /\ net' = net /\ allocVars' = allocVars /\ slot' = slot /\ explicit' = explicit /\ Playing
      /\ buffer' = buffer /\ tx' = tx /\ rx' = rx /\ written' = written /\ read' = read
      /\ interrupted \subseteq interrupted'
      /\ out \subseteq interrupted => out' \subseteq interrupted'
  BY DEF LoseSync, RegainSync, SuperframeStarts, appVars
<1>2. /\ BuffersTyped /\ slot \in 0..(ScheduleSlots - 1) /\ out \subseteq interrupted /\ Expanded
      /\ \A id \in Ids : (Intact(id) /\ Relays(id) \cap interrupted = {}) => Carried(id)
  BY <1>1 DEF PlayInv, Playing, Expanded, Carried
<1>3. BuffersTyped'
  BY <1>1, <1>2, Unmoved DEF BuffersTyped
<1>4. stage' = stage /\ current_schedule' = current_schedule /\ ScheduleSlots' = ScheduleSlots /\ Ids' = Ids
  BY <1>1, Unmoved DEF allocVars
<1>5. Expanded'
  BY <1>1, <1>2, <1>4, ExpansionKept DEF Expanded, Expansions
<1>6. ASSUME NEW id \in Ids, Intact(id), Relays(id) \cap interrupted' = {} PROVE Carried(id)'
  <2>1. CountersAgree(id) /\ OnePacket(id) /\ Ordered(id)
    BY <1>1, <1>2, <1>6 DEF Carried
  <2>2. CountersAgree(id)' /\ OnePacket(id)'
    BY <1>1, <2>1, PacketKept
  <2>3. Ordered(id)'
    BY <1>1, <2>1, Frozen DEF Ordered, Newer
  <2> QED
    BY <2>2, <2>3 DEF Carried
<1>7. \A id \in Ids' : (Intact(id) /\ Relays(id) \cap interrupted = {})' => Carried(id)'
  BY <1>1, <1>6, Unmoved
<1> QED
  BY <1>1, <1>2, <1>3, <1>4, <1>5, <1>7 DEF PlayInv, Playing, Expanded, Carried

\* The schedule does not change any more once it is played.
LEMMA NotPlayed ==
    ASSUME ScheduleInv, PlayInv, Schedule
    PROVE  explicit = <<>> /\ net' = net
<1>1. AllocNext
  BY DEF Schedule
<1>2. stage # "done"
  <2>1. stage = "done" => blocks = <<>> /\ todo = <<>>
    BY DEF ScheduleInv, SizeInv
  <2> QED
    BY <1>1, <2>1 DEF AllocNext, NextBlock, PlaceTransmission, SkipTransmission, UndoBlock, NextStage
<1>3. net' = net
  BY <1>1 DEF AllocNext, NextBlock, PlaceTransmission, SkipTransmission, UndoBlock, NextStage
<1> QED
  BY <1>2, <1>3 DEF PlayInv

LEMMA ScheduleStepInv ==
    ASSUME ScheduleInv, ScheduleInv', PlayInv, Schedule
    PROVE  PlayInv'
<1>1. AllocNext /\ playVars' = playVars
  BY DEF Schedule
<1>2. /\ explicit' = explicit /\ slot' = slot
      /\ buffer' = buffer /\ tx' = tx /\ rx' = rx /\ written' = written /\ read' = read
      /\ out' = out /\ interrupted' = interrupted
  BY <1>1 DEF playVars, appVars, airVars
<1>3. net' = net /\ explicit = <<>>
  BY NotPlayed
<1>4. Ids' = Ids
  BY <1>3 DEF Ids, Streams
<1>5. BuffersTyped'
  BY <1>2, <1>3, <1>4 DEF PlayInv, BuffersTyped
<1>6. 0 \in 0..(ScheduleSlots' - 1)
  <2>1. newSize' \in Nat \ {0} /\ net.slotsPerTile \in Nat \ {0}
    BY NetworkParts DEF ScheduleInv, AllocInv, AllocTypeOK
  <2>2. PICK m : m = newSize' * net.slotsPerTile
    OBVIOUS
  <2>3. m \in Nat \ {0}
    BY <2>1, <2>2, Product
  <2> QED
    BY <1>3, <2>2, <2>3 DEF ScheduleSlots
<1>7. /\ slot = 0 /\ out \subseteq interrupted
      /\ tx = [id \in Ids |-> TxBuffers] /\ rx = [id \in Ids |-> RxBuffers]
      /\ read = [id \in Ids |-> <<>>]
  BY <1>3 DEF PlayInv
<1> QED
  BY <1>2, <1>3, <1>4, <1>5, <1>6, <1>7 DEF PlayInv, Playing

LEMMA PlayInit ==
    ASSUME Init, ScheduleInv
    PROVE  PlayInv
<1>1. /\ explicit = <<>> /\ slot = 0
      /\ buffer = [n \in net.nodes |-> [id \in Ids |-> Empty]]
      /\ tx = [id \in Ids |-> TxBuffers] /\ rx = [id \in Ids |-> RxBuffers]
      /\ written = [id \in Ids |-> 0] /\ read = [id \in Ids |-> <<>>]
      /\ out = {} /\ interrupted = {}
  BY DEF Init
<1>2. TxBuffers \in TxTypes /\ TxBuffers.nextTxPacket = 0 /\ TxBuffers.txPacket = 0
  BY DEF TxBuffers, TxTypes, NoPacket
<1>3. RxBuffers \in RxTypes
  BY DEF RxBuffers, RxTypes, NoPacket
<1>4. Empty \in AirTypes
  BY DEF Empty, AirTypes, NoPacket
<1>5. BuffersTyped
  <2>1. tx \in [Ids -> TxTypes] /\ rx \in [Ids -> RxTypes]
    BY <1>1, <1>2, <1>3
  <2>2. buffer \in [net.nodes -> [Ids -> AirTypes]]
    BY <1>1, <1>4
  <2>3. written \in [Ids -> Nat]
    BY <1>1
  <2>4. read \in [Ids -> Seq(Nat)]
    BY <1>1
  <2>5. \A id \in Ids : tx[id].nextTxPacket <= written[id] /\ tx[id].txPacket <= written[id]
    BY <1>1, <1>2
  <2> QED
    BY <2>1, <2>2, <2>3, <2>4, <2>5 DEF BuffersTyped
<1>6. 0 \in 0..(ScheduleSlots - 1)
  <2>1. newSize \in Nat \ {0} /\ net.slotsPerTile \in Nat \ {0}
    BY NetworkParts DEF ScheduleInv, AllocInv, AllocTypeOK
  <2>2. PICK m : m = newSize * net.slotsPerTile
    OBVIOUS
  <2>3. m \in Nat \ {0}
    BY <2>1, <2>2, Product
  <2> QED
    BY <2>2, <2>3 DEF ScheduleSlots
<1> QED
  BY <1>1, <1>5, <1>6 DEF PlayInv, Playing

LEMMA PlayStep ==
    ASSUME ScheduleInv, ScheduleInv', PlayInv, [Next]_vars
    PROVE  PlayInv'
<1>1. CASE Schedule
  BY <1>1, ScheduleStepInv
<1>2. CASE ApplySchedule
  BY <1>2, ApplyScheduleInv
<1>3. ASSUME NEW n \in net.nodes, LoseSync(n) \/ RegainSync(n) PROVE PlayInv'
  BY <1>3, OutageInv
<1>4. CASE AdvanceBy
  BY <1>4, AdvanceInv
<1>5. ASSUME NEW id \in Ids, AppWrite(id) \/ AppRead(id) PROVE PlayInv'
  BY <1>5, AppWriteInv, AppReadInv
<1>6. ASSUME NEW failed \in SUBSET net.nodes, Execute(failed) PROVE PlayInv'
  BY <1>6, ExecuteInv
<1>7. CASE UNCHANGED vars
  <2>1. /\ net' = net /\ allocVars' = allocVars /\ slot' = slot /\ explicit' = explicit
        /\ buffer' = buffer /\ tx' = tx /\ rx' = rx /\ written' = written /\ read' = read
        /\ out' = out /\ interrupted' = interrupted /\ airVars' = airVars
    BY <1>7 DEF vars, playVars, appVars, airVars
  <2>2. BuffersTyped'
    BY <2>1, Unmoved DEF PlayInv, BuffersTyped
  <2>3. CASE Playing
    <3>1. \A id : Ordered(id) => Ordered(id)'
      BY <2>1, Frozen DEF Ordered, Newer
    <3> QED
      BY <2>1, <2>2, <2>3, <3>1, ApplicationInv
  <2>4. CASE ~Playing
    <3>1. ScheduleSlots' = ScheduleSlots /\ Ids' = Ids
      BY <2>1, Unmoved
    <3> QED
      BY <2>1, <2>2, <2>4, <3>1 DEF PlayInv, Playing
  <2> QED
    BY <2>3, <2>4
<1> QED
  BY <1>1, <1>2, <1>3, <1>4, <1>5, <1>6, <1>7 DEF Next, Play

\* The inductive invariant of the data phases: where in its period a stream is
\* and what its ends have counted, that one packet is on its way in a period, and
\* what was handed over (DataPhase::execute and advance on all nodes).
THEOREM PlayInductive == Spec => []PlayInv
<1>1. Init /\ ScheduleInv => PlayInv
  BY PlayInit
<1>2. ScheduleInv /\ ScheduleInv' /\ PlayInv /\ [Next]_vars => PlayInv'
  BY PlayStep
<1> QED
  BY <1>1, <1>2, ScheduleInductive, PTL DEF Spec

\* Whatever receptions fail and whenever the applications write and read, the
\* reader of a stream gets packets in the order they were written, and none
\* twice (Stream::write, Stream::read, DataPhase::execute and advance).
THEOREM InOrder == Spec => []ReadInOrder
<1>1. ScheduleInv /\ PlayInv => ReadInOrder
  <2> SUFFICES ASSUME PlayInv,
                      NEW id \in Ids, Intact(id), Relays(id) \cap interrupted = {},
                      NEW i \in 1..(Len(read[id]) - 1)
               PROVE  read[id][i] < read[id][i + 1]
    BY DEF ReadInOrder
  <2>1. read \in [Ids -> Seq(Nat)]
    BY DEF PlayInv, BuffersTyped
  <2>2. read[id] \in Seq(Nat)
    BY <2>1
  <2>3. CASE Playing
    <3>1. \A k, j \in DOMAIN read[id] : k < j => read[id][k] < read[id][j]
      BY <2>3 DEF PlayInv, Ordered
    <3>2. i \in DOMAIN read[id] /\ i + 1 \in DOMAIN read[id] /\ i < i + 1
      BY <2>2
    <3> QED
      BY <3>1, <3>2
  <2>4. CASE ~Playing
    <3>1. read = [d \in Ids |-> <<>>]
      BY <2>4 DEF PlayInv, Playing
    <3>2. Len(read[id]) = 0
      BY <3>1
    <3> QED
      BY <3>2
  <2> QED
    BY <2>3, <2>4
<1> QED
  BY <1>1, PlayInductive, ScheduleInductive, PTL

-----------------------------------------------------------------------------
(***************************************************************************)
(* Losses and copies.                                                      *)
(***************************************************************************)
\* A slot of a stream whose copies all have their hops and do not mix.
Undisturbed(id, failed) ==
    /\ ScheduleInv /\ Expanded /\ slot \in 0..(ScheduleSlots - 1) /\ BuffersTyped
    /\ Intact(id) /\ Separate(id) /\ CountersAgree(id) /\ OnePacket(id)
    /\ out = {} /\ Execute(failed)

\* The copies that have a reception among those that fail in this slot.
Hit(id, failed) == {b \in BlocksOf(net, id) : \E e \in PlacedOf(b) : Uses(e, slot) /\ e.rx \in failed}

LEMMA PlacedHop ==
    ASSUME ScheduleInv, NEW id \in Ids, NEW b \in BlocksOf(net, id), NEW e \in PlacedOf(b)
    PROVE  e \in Hops(id) /\ e \in Elements /\ e.blk = b
<1>1. e \in Elements /\ e.blk = b
  BY DEF PlacedOf
<1>2. b \in BlocksOf(net, e.stream)
  BY <1>1, ElementParts
<1> QED
  BY <1>1, <1>2 DEF BlocksOf, Hops

\* Where a copy should be, it is heard.
LEMMA CopyHeard ==
    ASSUME NEW id \in Ids, NEW failed, Undisturbed(id, failed), tx'[id].txPacket # NoPacket,
           NEW b \in BlocksOf(net, id), OnItsWay(id, b),
           NEW e \in PlacedOf(b), Uses(e, slot), e.rx \notin failed
    PROVE  Heard(e.rx, failed) = [stream |-> id, packet |-> tx'[id].txPacket]
<1>1. /\ ScheduleInv /\ Expanded /\ slot \in 0..(ScheduleSlots - 1) /\ BuffersTyped
      /\ Complete(id) /\ CountersAgree(id) /\ OnePacket(id) /\ out = {} /\ Execute(failed)
      /\ NextSlot /\ net' = net /\ allocVars' = allocVars
  BY DEF Undisturbed, Intact, Execute
<1>2. e \in Hops(id) /\ e.blk = b
  BY <1>1, PlacedHop
<1> DEFINE sends == IF e.tx = StreamOf(id).src
                    THEN [stream |-> id, packet |-> SendPacket(tx[id], Count(id)).txPacket]
                    ELSE buffer[e.tx][id]
<1>3. (e.tx = StreamOf(id).src \/ Entry(e.tx).hasBuffer) => Sent(e.tx) = sends
  BY <1>1, <1>2, SentBy
<1>4. Sent(e.tx) = [stream |-> id, packet |-> tx'[id].txPacket]
  <2>1. CASE e.tx = StreamOf(id).src
    <3>1. e \in FirstHops(id)
      BY <1>2, <2>1 DEF FirstHops
    <3>2. tx'[id].txPacket = SendPacket(tx[id], Count(id)).txPacket
      BY <1>1, <3>1, PacketTaken
    <3> QED
      BY <1>3, <2>1, <3>2
  <2>2. CASE e.tx # StreamOf(id).src
    <3>1. PICK d \in Hops(id) : d.blk = e.blk /\ d.rx = e.tx /\ d.rx # d.dst /\ d.offset < e.offset
      BY <1>1, <1>2, <2>2, HopBefore
    <3>2. e.offset = Phase(id) /\ (d.offset < Phase(id) => Begun(id))
      BY <1>1, <1>2, <3>1, PeriodFacts
    <3>3. tx'[id].txPacket = tx[id].txPacket
      BY <1>1, <3>1, <3>2, PacketTaken
    <3>4. d \in PlacedOf(b) /\ ~(e.offset < Phase(id))
      <4>1. e.offset \in Nat
        BY <1>1, <1>2, HopParts
      <4> QED
        BY <1>2, <3>1, <3>2, <4>1 DEF PlacedOf, Hops
    <3>5. buffer[e.tx][id] = [stream |-> id, packet |-> tx[id].txPacket]
      BY <3>1, <3>2, <3>4 DEF OnItsWay
    <3>6. Entry(e.tx).hasBuffer
      BY <1>1, <1>2, <3>1, RelayHasBuffer
    <3> QED
      BY <1>3, <2>2, <3>3, <3>5, <3>6
  <2> QED
    BY <2>1, <2>2
<1>5. Sent(e.tx).packet # NoPacket /\ e.rx \notin out
  BY <1>1, <1>4
<1> QED
  BY <1>1, <1>2, <1>4, <1>5, HopHeard

\* A relay that waits with a copy hears no other one and sends no other one.
LEMMA RelayWaits ==
    ASSUME ScheduleInv, NEW id \in Ids, Complete(id), Separate(id), NEW b \in BlocksOf(net, id),
           NEW e \in PlacedOf(b), NEW f \in PlacedOf(b), e.rx = f.tx,
           NEW g \in Hops(id), e.offset < g.offset, g.offset < f.offset
    PROVE  g.rx # e.rx /\ (g.tx # StreamOf(id).src => g.tx # e.rx)
<1>1. /\ e \in Hops(id) /\ e \in Elements /\ e.blk = b
      /\ f \in Hops(id) /\ f \in Elements /\ f.blk = b
  BY PlacedHop
<1>2. g \in Elements /\ g.stream = id /\ g.blk \in BlocksOf(net, id) /\ g.offset \in Nat
  BY HopParts
<1>3. e.offset \in Nat /\ f.offset \in Nat
  BY <1>1, HopParts
<1>4. \A h \in Elements : (h.stream = id /\ h.blk # b /\ h.rx = e.rx) =>
            ~(e.offset < h.offset /\ h.offset < f.offset)
  BY DEF Separate
<1>5. ASSUME g.rx = e.rx PROVE FALSE
  <2>1. g.blk = b
    BY <1>2, <1>4, <1>5
  <2>2. g = e
    BY <1>1, <1>2, <1>5, <2>1, SameArrival
  <2> QED
    BY <1>3, <2>2
<1>6. ASSUME g.tx # StreamOf(id).src, g.tx = e.rx PROVE FALSE
  <2>1. g.blk # b
    <3> SUFFICES ASSUME g.blk = b PROVE FALSE
      OBVIOUS
    <3>1. g = f
      BY <1>1, <1>2, <1>6 DEF ScheduleInv, BlocksInv
    <3> QED
      BY <1>3, <3>1
  <2>2. PICK d \in Hops(id) : d.blk = g.blk /\ d.rx = g.tx /\ d.offset < g.offset
    BY <1>6, HopBefore
  <2>3. d \in Elements /\ d.stream = id /\ d.offset \in Nat
    BY HopParts
  <2>4. CASE d.offset = e.offset
    <3>1. d = e
      BY <1>1, <1>6, <2>2, <2>4, EndsApart
    <3> QED
      BY <1>1, <2>1, <2>2, <3>1
  <2>5. CASE e.offset < d.offset
    <3>1. d.offset < f.offset
      BY <1>2, <1>3, <2>2, <2>3
    <3> QED
      BY <1>4, <1>6, <2>1, <2>2, <2>3, <2>5, <3>1
  <2>6. CASE d.offset < e.offset
    <3>1. d \in PlacedOf(g.blk) /\ g \in PlacedOf(g.blk)
      BY <1>2, <2>2, <2>3 DEF PlacedOf
    <3>2. ~(/\ e.stream = id /\ e.blk # g.blk /\ e.rx = d.rx
            /\ d.offset < e.offset /\ e.offset < g.offset)
      BY <1>1, <1>2, <2>2, <3>1 DEF Separate
    <3> QED
      BY <1>1, <1>6, <2>1, <2>2, <2>6, <3>2 DEF Hops
  <2> QED
    BY <1>3, <2>3, <2>4, <2>5, <2>6
<1> QED
  BY <1>5, <1>6

LEMMA ImageFinite ==
    ASSUME NEW S, IsFiniteSet(S), NEW f, DOMAIN f = S, f = [x \in S |-> f[x]],
           NEW T, \A y : y \in T <=> \E x \in S : y = f[x]
    PROVE  IsFiniteSet(T)
<1>1. f \in Surjection(S, T)
  BY DEF Surjection
<1> QED
  BY <1>1, FS_Surjection

LEMMA ReceiversFinite ==
    ASSUME AllocTypeOK
    PROVE  IsFiniteSet({e.rx : e \in Elements})
<1>1. current_schedule \in Seq(Placements) /\ scheduled_transmissions \in Seq(Placements)
  BY DEF AllocTypeOK
<1>2. PICK m, n \in Nat : current_schedule \in [1..m -> Placements]
                          /\ scheduled_transmissions \in [1..n -> Placements]
  BY <1>1
<1> DEFINE C == {current_schedule[i] : i \in 1..m}
           S == {scheduled_transmissions[i] : i \in 1..n}
           R == {e.rx : e \in Elements}
           f == [e \in Elements |-> e.rx]
<1>3. Elements = C \cup S
  BY <1>2 DEF Elements
<1>4. /\ \A e : e \in C <=> \E i \in 1..m : e = current_schedule[i]
      /\ \A e : e \in S <=> \E i \in 1..n : e = scheduled_transmissions[i]
      /\ \A r : r \in R <=> \E e \in Elements : r = f[e]
  OBVIOUS
<1>5. DOMAIN f = Elements /\ f = [e \in Elements |-> f[e]]
  OBVIOUS
<1>6. IsFiniteSet(1..m) /\ IsFiniteSet(1..n)
  BY <1>2, FS_Interval
<1> HIDE DEF C, S, R, f
<1>7. IsFiniteSet(C) /\ IsFiniteSet(S)
  BY <1>2, <1>4, <1>6, ImageFinite
<1>8. IsFiniteSet(Elements)
  BY <1>3, <1>7, FS_Union
<1>9. IsFiniteSet(R)
  BY <1>4, <1>5, <1>8, ImageFinite
<1> QED
  BY <1>9 DEF R

\* A copy that loses no reception in a slot is after it where it should be.
LEMMA OnItsWayNext ==
    ASSUME NEW id \in Ids, NEW failed, Undisturbed(id, failed), tx'[id].txPacket # NoPacket,
           NEW b \in BlocksOf(net, id), OnItsWay(id, b), b \notin Hit(id, failed)
    PROVE  OnItsWay(id, b)'
<1>1. /\ ScheduleInv /\ Expanded /\ slot \in 0..(ScheduleSlots - 1) /\ BuffersTyped
      /\ Complete(id) /\ Separate(id) /\ CountersAgree(id) /\ OnePacket(id) /\ out = {} /\ Execute(failed)
      /\ NextSlot /\ net' = net /\ allocVars' = allocVars
  BY DEF Undisturbed, Intact, Execute
<1>2. /\ \A e \in Hops(id) : Uses(e, slot) <=> e.offset = Phase(id)
      /\ \A e \in Hops(id) : (e.offset < Phase(id)) => Begun(id)
      /\ (\E e \in LastHops(id) : Uses(e, slot)) =>
            (NextCount(rx[id].rxCount, Count(id)) = 0 => ~Pending(id)')
      /\ Pending(id)' => Pending(id) \/ \E d \in FirstHops(id) : Uses(d, slot) /\ ~Begun(id)
      /\ \A e \in Hops(id) : (e.offset < Phase(id)') => (e.offset < Phase(id) \/ Uses(e, slot))
      /\ \A e, f \in Hops(id) : (e.offset < Phase(id)' /\ (f.offset < Phase(id) \/ Uses(f, slot)))
                                        => f.offset < Phase(id)'
  BY <1>1, PeriodFacts
<1>3. Begun(id) => tx'[id].txPacket = tx[id].txPacket
  BY <1>1, PacketTaken
<1>4. \A e \in PlacedOf(b) : e \in Hops(id) /\ e.rx \in net.nodes /\ e.tx # e.rx /\ e.blk = b
  BY <1>1, PlacedHop, HopParts
<1>5. ASSUME NEW e \in PlacedOf(b), Uses(e, slot)
      PROVE  Heard(e.rx, failed) = [stream |-> id, packet |-> tx'[id].txPacket]
  BY <1>5, CopyHeard DEF Hit
<1>6. ASSUME NEW e \in PlacedOf(b), e.offset < Phase(id)', e.rx = e.dst, Pending(id)'
      PROVE  rx'[id].rxPacket = tx'[id].txPacket
  <2>1. e \in LastHops(id) /\ e.rx = StreamOf(id).dst
    BY <1>1, <1>4, <1>6, HopParts DEF LastHops
  <2>2. /\ (~\E l \in LastHops(id) : Uses(l, slot)) => rx'[id] = rx[id]
        /\ (\E l \in LastHops(id) : Uses(l, slot)) =>
                /\ rx'[id].rxPacket \in {rx[id].rxPacket, tx'[id].txPacket}
                /\ Received(StreamOf(id).dst, failed) # NoPacket => rx'[id].rxPacket = tx'[id].txPacket
    BY <1>1, <1>2, <1>6, PacketReceived
  <2>3. CASE Uses(e, slot)
    <3>1. Entry(e.rx).stream = id
      BY <1>1, <1>4, <2>3, EntryOf, HopParts
    <3>2. Received(e.rx, failed) = tx'[id].txPacket
      BY <1>1, <1>5, <2>3, <3>1 DEF Received, CheckStreamId
    <3> QED
      BY <2>1, <2>2, <2>3, <3>2
  <2>4. CASE e.offset < Phase(id)
    <3>1. Begun(id) /\ Pending(id)
      BY <1>2, <1>4, <1>6, <2>4
    <3>2. rx[id].rxPacket = tx[id].txPacket
      BY <1>6, <2>4, <3>1 DEF OnItsWay
    <3> QED
      BY <1>3, <2>2, <3>1, <3>2
  <2> QED
    BY <1>2, <1>4, <1>6, <2>3, <2>4
<1>7. ASSUME NEW e \in PlacedOf(b), e.offset < Phase(id)', e.rx # e.dst,
             NEW f \in PlacedOf(b), f.tx = e.rx, ~(f.offset < Phase(id)')
      PROVE  buffer'[e.rx][id] = [stream |-> id, packet |-> tx'[id].txPacket]
  <2> DEFINE n == e.rx
  <2>1. buffer'[n][id] = BufferAfter(n, id, failed)
    BY <1>1, <1>4 DEF Execute
  <2>2. CASE Uses(e, slot)
    <3>1. Entry(n).action = Role(n, e) /\ Entry(n).stream = id
      BY <1>1, <1>4, <2>2, EntryOf, HopParts
    <3>2. Entry(n).action = "RECVBUFFER"
      BY <1>4, <1>7, <3>1, Roles
    <3>3. n \in Does("RECVBUFFER")
      BY <1>1, <1>4, <3>2 DEF Does
    <3> QED
      BY <1>5, <2>1, <2>2, <3>1, <3>3 DEF BufferAfter
  <2>3. CASE e.offset < Phase(id)
    <3>1. Begun(id) /\ ~(f.offset < Phase(id)) /\ ~Uses(f, slot)
      BY <1>2, <1>4, <1>7, <2>3
    <3>2. buffer[n][id] = [stream |-> id, packet |-> tx[id].txPacket]
      BY <1>7, <2>3, <3>1 DEF OnItsWay
    <3>3. /\ e.offset \in Nat /\ f.offset \in Nat /\ Phase(id) \in Nat
          /\ e.offset < Phase(id) /\ Phase(id) < f.offset
      <4>1. e.offset \in Nat /\ f.offset \in Nat
        BY <1>1, <1>4, HopParts
      <4>2. f.offset # Phase(id)
        BY <1>2, <1>4, <3>1
      <4>3. Phase(id) \in Nat
        <5>1. \E P \in Nat \ {0} : Phase(id) \in 0..(P - 1)
          BY <1>1, <1>4, PhaseNext
        <5> QED
          BY <5>1
      <4> QED
        BY <2>3, <3>1, <4>1, <4>2, <4>3
    <3>4. ASSUME Entry(n).stream = id, Entry(n).action \in {"RECVBUFFER", "SENDBUFFER"}
          PROVE  FALSE
      <4>1. PICK g \in Elements : /\ Uses(g, slot) /\ g.stream = id
                                  /\ Entry(n).action = Role(n, g)
        BY <1>1, <1>4, <3>4, EntryOf
      <4>2. g \in Hops(id)
        BY <4>1 DEF Hops
      <4>3. g.offset = Phase(id) /\ g.tx # g.rx /\ g.src = StreamOf(id).src
        BY <1>1, <1>2, <4>1, <4>2, HopParts
      <4>4. g.rx # n /\ (g.tx # StreamOf(id).src => g.tx # n)
        BY <1>1, <1>7, <3>3, <4>2, <4>3, RelayWaits
      <4>5. g.rx = n \/ (g.tx = n /\ g.src # n)
        BY <3>4, <4>1, <4>3, Roles
      <4> QED
        BY <4>3, <4>4, <4>5
    <3>5. BufferAfter(n, id, failed) = buffer[n][id]
      BY <3>4 DEF BufferAfter, Does
    <3> QED
      BY <1>3, <2>1, <3>1, <3>2, <3>5
  <2> QED
    BY <1>2, <1>4, <1>7, <2>2, <2>3
<1>8. PlacedOf(b)' = PlacedOf(b)
  BY <1>1, Unmoved DEF PlacedOf
<1> QED
  BY <1>6, <1>7, <1>8 DEF OnItsWay

\* Those whose reception fails receive something, each a transmission of its own.
LEMMA FailedFinite ==
    ASSUME ScheduleInv, Expanded, slot \in 0..(ScheduleSlots - 1), NEW id, NEW failed, failed \subseteq Audible
    PROVE  LET R == {r \in failed : Entry(r).stream = id}
           IN  IsFiniteSet(R) /\ Cardinality(R) \in Nat
<1> DEFINE R == {r \in failed : Entry(r).stream = id}
<1>1. ASSUME NEW r \in Audible PROVE \E e \in Elements : r = e.rx
  <2>1. r \in net.nodes /\ Entry(r).action \in {"RECVSTREAM", "RECVBUFFER"}
    BY <1>1 DEF Audible, Does
  <2>2. PICK e \in Elements : Entry(r).action = Role(r, e)
    BY <2>1, EntryOf
  <2>3. e.tx # e.rx
    BY ElementParts
  <2> QED
    BY <2>1, <2>2, <2>3, Roles
<1>2. R \subseteq {e.rx : e \in Elements}
  BY <1>1
<1>3. IsFiniteSet({e.rx : e \in Elements})
  BY ReceiversFinite DEF ScheduleInv, AllocInv
<1> QED
  BY <1>2, <1>3, FS_Subset, FS_CardinalityType

\* A copy is lost only with a reception of its own.
LEMMA HitCounted ==
    ASSUME NEW id \in Ids, NEW failed, Undisturbed(id, failed)
    PROVE  LET R == {r \in failed : Entry(r).stream = id}
           IN  /\ IsFiniteSet(Hit(id, failed)) /\ Cardinality(R) \in Nat
               /\ Cardinality(Hit(id, failed)) <= Cardinality(R)
<1>1. /\ ScheduleInv /\ Expanded /\ slot \in 0..(ScheduleSlots - 1) /\ Execute(failed)
  BY DEF Undisturbed
<1> DEFINE H == Hit(id, failed)
           R == {r \in failed : Entry(r).stream = id}
           Lost(b) == CHOOSE e \in PlacedOf(b) : Uses(e, slot) /\ e.rx \in failed
           f == [b \in H |-> Lost(b).rx]
<1>2. IsFiniteSet(R) /\ Cardinality(R) \in Nat
  BY <1>1, FailedFinite DEF Execute
<1>3. ASSUME NEW b \in H
      PROVE  /\ Lost(b) \in PlacedOf(b) /\ Uses(Lost(b), slot) /\ Lost(b).rx \in failed
             /\ Lost(b) \in Elements /\ Lost(b).blk = b /\ Lost(b).stream = id
             /\ Lost(b).rx \in net.nodes
  <2>1. b \in BlocksOf(net, id) /\ \E e \in PlacedOf(b) : Uses(e, slot) /\ e.rx \in failed
    BY DEF Hit
  <2>2. Lost(b) \in PlacedOf(b) /\ Uses(Lost(b), slot) /\ Lost(b).rx \in failed
    BY <2>1
  <2> HIDE DEF Lost
  <2> QED
    BY <1>1, <2>1, <2>2, PlacedHop, HopParts
<1> HIDE DEF Lost
<1>4. f \in [H -> R]
  <2>1. ASSUME NEW b \in H PROVE Lost(b).rx \in R
    BY <1>1, <1>3, EntryOf
  <2> QED
    BY <2>1
<1>5. ASSUME NEW b \in H, NEW c \in H, f[b] = f[c] PROVE b = c
  <2>1. Lost(b).rx = Lost(c).rx
    BY <1>5
  <2>2. slot \in Nat
    <3>1. newSize * net.slotsPerTile \in Nat
      BY <1>1, NetworkParts DEF ScheduleInv, AllocInv, AllocTypeOK
    <3> QED
      BY <1>1, <3>1 DEF ScheduleSlots
  <2>3. Lost(b) = Lost(c)
    BY <1>1, <1>3, <2>1, <2>2, SameSlotApart DEF ScheduleInv
  <2> QED
    BY <1>3, <2>3
<1> HIDE DEF f, H, R
<1>6. f \in Injection(H, R)
  BY <1>4, <1>5 DEF Injection, IsInjective
<1>7. IsFiniteSet(H) /\ Cardinality(H) <= Cardinality(R)
  BY <1>2, <1>6, FS_Injection
<1> QED
  BY <1>2, <1>7 DEF H, R

\* Not more copies are lost than receptions have failed.
LEMMA LossBound ==
    ASSUME NEW id \in Ids, NEW failed, Undisturbed(id, failed), tx'[id].txPacket # NoPacket,
           LossInv, Playing, interrupted = {}
    PROVE  LET gone == LostCopies(id) \cup Hit(id, failed)
           IN  /\ gone \subseteq BlocksOf(net, id) /\ IsFiniteSet(gone)
               /\ Cardinality(gone) <= lost'[id] /\ lost'[id] \in Nat
<1>1. /\ ScheduleInv /\ Expanded /\ slot \in 0..(ScheduleSlots - 1) /\ BuffersTyped
      /\ Intact(id) /\ Complete(id) /\ Separate(id) /\ CountersAgree(id) /\ Execute(failed)
      /\ NextSlot /\ net' = net /\ allocVars' = allocVars
  BY DEF Undisturbed, Intact, Execute
<1> DEFINE L == LostCopies(id)
           H == Hit(id, failed)
           R == Cardinality({r \in failed : Entry(r).stream = id})
<1>2. L \subseteq BlocksOf(net, id) /\ H \subseteq BlocksOf(net, id)
  BY DEF LostCopies, Hit
<1>3. IsFiniteSet(L)
  <2>1. IsFiniteSet(BlocksOf(net, id))
    BY <1>1, BlocksOfFinite DEF ScheduleInv, AllocInv
  <2> QED
    BY <1>2, <2>1, FS_Subset
<1>4. IsFiniteSet(H) /\ R \in Nat /\ Cardinality(H) <= R
  BY HitCounted
<1>5. lost[id] \in Nat
  BY DEF LossInv
<1>6. lost'[id] = (IF Sending(id) /\ tx[id].txCount = 0 THEN 0 ELSE lost[id]) + R
  BY <1>1 DEF Execute
<1> HIDE DEF L, H, R
<1>7. Cardinality(L) \in Nat /\ Cardinality(H) \in Nat
  BY <1>3, <1>4, FS_CardinalityType
<1>8. IsFiniteSet(L \cup H) /\ Cardinality(L \cup H) \in Nat
      /\ Cardinality(L \cup H) <= Cardinality(L) + Cardinality(H)
  <2>1. IsFiniteSet(L \cup H) /\ IsFiniteSet(L \cap H)
        /\ Cardinality(L \cup H) = Cardinality(L) + Cardinality(H) - Cardinality(L \cap H)
    BY <1>3, <1>4, FS_Union, FS_Intersection
  <2>2. Cardinality(L \cup H) \in Nat /\ Cardinality(L \cap H) \in Nat
    BY <2>1, FS_CardinalityType
  <2> QED
    BY <1>7, <2>1, <2>2
<1>9. CASE Begun(id)
  <2>1. tx[id].txPacket # NoPacket
    BY <1>1, <1>9, PacketTaken
  <2>2. Cardinality(L) <= lost[id]
    BY <1>1, <1>9, <2>1 DEF LossInv, L
  <2>3. ~(Sending(id) /\ tx[id].txCount = 0)
    BY <1>1, <1>9, EndsAct, PeriodFacts
  <2> QED
    BY <1>2, <1>4, <1>5, <1>6, <1>7, <1>8, <2>2, <2>3 DEF L, H
<1>10. CASE ~Begun(id)
  <2>1. \A e \in Hops(id) : ~(e.offset < Phase(id))
    BY <1>1, <1>10, PeriodFacts
  <2>2. \A b \in BlocksOf(net, id) : OnItsWay(id, b)
    <3>1. \A b \in BlocksOf(net, id) : \A e \in PlacedOf(b) : e \in Hops(id)
      BY <1>1, PlacedHop
    <3> QED
      BY <2>1, <3>1 DEF OnItsWay
  <2>3. L = {}
    BY <2>2 DEF L, LostCopies
  <2>4. Cardinality(L) = 0
    BY <2>3, FS_EmptySet
  <2> QED
    BY <1>2, <1>4, <1>5, <1>6, <1>7, <1>8, <2>4 DEF L, H
<1> QED
  BY <1>9, <1>10

\* When a stream whose copies are all there is played, what PlayInv says of it.
LEMMA Undisturbing ==
    ASSUME ScheduleInv, PlayInv, NEW id \in Ids, Intact(id), Separate(id), interrupted = {},
           NEW failed, Execute(failed)
    PROVE  Undisturbed(id, failed)
  BY DEF PlayInv, Undisturbed, Expanded, Execute, Playing

LEMMA LossExecute ==
    ASSUME ScheduleInv, PlayInv, LossInv, NEW failed, Execute(failed)
    PROVE  LossInv'
<1>1. /\ net' = net /\ allocVars' = allocVars /\ Playing /\ interrupted' = interrupted
      /\ lost' = [id \in Ids |->
                    (IF Sending(id) /\ tx[id].txCount = 0 THEN 0 ELSE lost[id])
                    + Cardinality({r \in failed : Entry(r).stream = id})]
  BY DEF Execute
<1>2. /\ Ids' = Ids /\ \A id : Intact(id)' = Intact(id)
      /\ \A id : Separate(id)' = Separate(id)
  BY <1>1, Unmoved DEF Separate, PlacedOf
<1>3. lost' \in [Ids -> Nat]
  <2>1. lost \in [Ids -> Nat]
    BY DEF LossInv
  <2>2. \A id \in Ids : Cardinality({r \in failed : Entry(r).stream = id}) \in Nat
    BY FailedFinite DEF PlayInv, Expanded, Execute, Playing
  <2> QED
    BY <1>1, <2>1, <2>2
<1>4. ASSUME NEW id \in Ids, Intact(id), Separate(id), interrupted = {}, tx'[id].txPacket # NoPacket
      PROVE  Cardinality(LostCopies(id)') <= lost'[id]
  <2>1. Undisturbed(id, failed)
    BY <1>4, Undisturbing
  <2> DEFINE gone == LostCopies(id) \cup Hit(id, failed)
  <2>2. IsFiniteSet(gone) /\ Cardinality(gone) <= lost'[id] /\ lost'[id] \in Nat
    BY <1>1, <1>4, <2>1, LossBound
  <2>3. LostCopies(id)' \subseteq gone
    <3>1. \A b \in BlocksOf(net, id) : b \notin gone => OnItsWay(id, b)'
      BY <1>4, <2>1, OnItsWayNext DEF LostCopies
    <3>2. BlocksOf(net, id)' = BlocksOf(net, id)
      BY <1>1
    <3> QED
      BY <3>1, <3>2 DEF LostCopies
  <2> HIDE DEF gone
  <2>4. /\ IsFiniteSet(LostCopies(id)')
        /\ Cardinality(LostCopies(id)') <= Cardinality(gone)
    BY <2>2, <2>3, FS_Subset
  <2>5. Cardinality(LostCopies(id)') \in Nat /\ Cardinality(gone) \in Nat
    BY <2>2, <2>4, FS_CardinalityType
  <2> QED
    BY <2>2, <2>4, <2>5
<1> QED
  BY <1>1, <1>2, <1>3, <1>4 DEF LossInv

\* A control slot moves nothing of such a stream.
LEMMA LossAdvance ==
    ASSUME ScheduleInv, PlayInv, LossInv, AdvanceBy
    PROVE  LossInv'
<1>1. /\ NextSlot /\ net' = net /\ allocVars' = allocVars
      /\ Playing /\ ~DataSlot(net, slot) /\ interrupted' = interrupted /\ lost' = lost
      /\ buffer' = buffer /\ tx' = tx /\ rx' = rx
  BY DEF AdvanceBy, airVars
<1>2. slot \in 0..(ScheduleSlots - 1)
  BY DEF PlayInv
<1>3. /\ Ids' = Ids /\ \A id : Intact(id)' = Intact(id)
      /\ \A id : Separate(id)' = Separate(id) /\ \A b : PlacedOf(b)' = PlacedOf(b)
  BY <1>1, Unmoved DEF Separate, PlacedOf
<1>4. ASSUME NEW id \in Ids, Intact(id), Separate(id), interrupted = {}, Begun(id)', tx[id].txPacket # NoPacket
      PROVE  Cardinality(LostCopies(id)') <= lost[id]
  <2>1. Complete(id) /\ InDataSlots(id) /\ CountersAgree(id)
    BY <1>1, <1>4 DEF PlayInv, Intact
  <2>2. \A e \in Hops(id) : ~Uses(e, slot)
    BY <1>1, <1>2, <2>1 DEF InDataSlots, Hops
  <2>3. /\ FirstHops(id) \subseteq Hops(id) /\ FirstHops(id)' = FirstHops(id)
    BY <1>1, Unmoved DEF FirstHops
  <2>4. /\ \A e \in Hops(id) : (e.offset < Phase(id)) => Begun(id)
        /\ Pending(id)' => Pending(id)
        /\ \A e \in Hops(id) : (e.offset < Phase(id)') => (e.offset < Phase(id))
        /\ \A e, f \in Hops(id) : (e.offset < Phase(id)' /\ f.offset < Phase(id)) => f.offset < Phase(id)'
    BY <1>1, <1>2, <2>1, <2>2, <2>3, PeriodFacts
  <2>5. Begun(id)
    BY <1>4, <2>3, <2>4 DEF Begun, Passed
  <2>6. Cardinality(LostCopies(id)) <= lost[id]
    BY <1>1, <1>4, <2>5 DEF LossInv
  <2>7. ASSUME NEW b \in BlocksOf(net, id), OnItsWay(id, b) PROVE OnItsWay(id, b)'
    <3>1. \A e \in PlacedOf(b) : e \in Hops(id)
      BY PlacedHop
    <3> QED
      BY <1>1, <1>3, <2>4, <2>7, <3>1 DEF OnItsWay
  <2>8. LostCopies(id)' \subseteq LostCopies(id)
    <3>1. BlocksOf(net, id)' = BlocksOf(net, id)
      BY <1>1
    <3> QED
      BY <2>7, <3>1 DEF LostCopies
  <2>9. IsFiniteSet(LostCopies(id))
    <3>1. IsFiniteSet(BlocksOf(net, id)) /\ LostCopies(id) \subseteq BlocksOf(net, id)
      BY BlocksOfFinite DEF ScheduleInv, AllocInv, LostCopies
    <3> QED
      BY <3>1, FS_Subset
  <2>10. /\ Cardinality(LostCopies(id)') <= Cardinality(LostCopies(id))
         /\ Cardinality(LostCopies(id)') \in Nat /\ Cardinality(LostCopies(id)) \in Nat
    BY <2>8, <2>9, FS_Subset, FS_CardinalityType
  <2>11. lost[id] \in Nat
    BY DEF LossInv
  <2> QED
    BY <2>6, <2>10, <2>11
<1> QED
  BY <1>1, <1>3, <1>4 DEF LossInv

\* Nor does anything between two slots.
LEMMA LossKept ==
    ASSUME LossInv, net' = net, allocVars' = allocVars, slot' = slot, buffer' = buffer, lost' = lost,
           interrupted \subseteq interrupted',
           Playing' => Playing \/ \A id \in Ids : ~Begun(id),
           \A id \in Ids : tx'[id].txPacket = tx[id].txPacket /\ rx'[id].rxPacket = rx[id].rxPacket
    PROVE  LossInv'
<1>1. /\ Ids' = Ids /\ \A id : Intact(id)' = Intact(id)
      /\ \A id : Separate(id)' = Separate(id) /\ \A b : PlacedOf(b)' = PlacedOf(b)
  BY Unmoved DEF Separate, PlacedOf
<1>2. \A id : Phase(id)' = Phase(id) /\ Begun(id)' = Begun(id) /\ Pending(id)' = Pending(id)
  BY Frozen
<1>3. \A id \in Ids : \A b : OnItsWay(id, b)' = OnItsWay(id, b)
  BY <1>1, <1>2 DEF OnItsWay
<1>4. \A id \in Ids : LostCopies(id)' = LostCopies(id)
  BY <1>3 DEF LostCopies
<1> QED
  BY <1>1, <1>2, <1>4 DEF LossInv

LEMMA LossStep ==
    ASSUME ScheduleInv, ScheduleInv', PlayInv, LossInv, [Next]_vars
    PROVE  LossInv'
<1>1. CASE Schedule
  <2>1. explicit = <<>> /\ net' = net /\ explicit' = explicit /\ lost' = lost
    BY <1>1, NotPlayed DEF Schedule, playVars, airVars
  <2>2. Ids' = Ids
    BY <2>1 DEF Ids, Streams
  <2> QED
    BY <2>1, <2>2 DEF LossInv, Playing
<1>2. CASE ApplySchedule
  <2>1. /\ net' = net /\ allocVars' = allocVars /\ slot' = slot /\ explicit = <<>>
        /\ buffer' = buffer /\ tx' = tx /\ rx' = rx /\ lost' = lost /\ interrupted' = interrupted
    BY <1>2 DEF ApplySchedule, airVars
  <2>2. slot = 0
    BY <2>1 DEF PlayInv
  <2>3. \A id \in Ids : ~Begun(id)
    BY <2>2, PeriodStarts DEF Begun, Passed, FirstHops
  <2> QED
    BY <2>1, <2>3, LossKept
<1>3. ASSUME NEW n \in net.nodes, LoseSync(n) \/ RegainSync(n) PROVE LossInv'
  <2>1. /\ net' = net /\ allocVars' = allocVars /\ slot' = slot /\ explicit' = explicit
        /\ buffer' = buffer /\ tx' = tx /\ rx' = rx /\ lost' = lost /\ interrupted \subseteq interrupted'
    BY <1>3 DEF LoseSync, RegainSync
  <2> QED
    BY <2>1, LossKept DEF Playing
<1>4. CASE AdvanceBy
  BY <1>4, LossAdvance
<1>5. ASSUME NEW i \in Ids, AppWrite(i) PROVE LossInv'
  <2>1. /\ net' = net /\ allocVars' = allocVars /\ slot' = slot /\ explicit' = explicit
        /\ buffer' = buffer /\ rx' = rx /\ lost' = lost /\ interrupted' = interrupted
        /\ tx' = [tx EXCEPT ![i] = Write(@, written'[i])]
    BY <1>5 DEF AppWrite, airVars
  <2>2. tx \in [Ids -> TxTypes]
    BY DEF PlayInv, BuffersTyped
  <2>3. \A id \in Ids : tx'[id].txPacket = tx[id].txPacket
    BY <2>1, <2>2 DEF Write, TxTypes
  <2> QED
    BY <2>1, <2>3, LossKept DEF Playing
<1>6. ASSUME NEW i \in Ids, AppRead(i) PROVE LossInv'
  <2>1. /\ net' = net /\ allocVars' = allocVars /\ slot' = slot /\ explicit' = explicit
        /\ buffer' = buffer /\ tx' = tx /\ lost' = lost /\ interrupted' = interrupted
        /\ rx' = [rx EXCEPT ![i] = Read(@)]
    BY <1>6 DEF AppRead, airVars
  <2>2. rx \in [Ids -> RxTypes]
    BY DEF PlayInv, BuffersTyped
  <2>3. \A id \in Ids : rx'[id].rxPacket = rx[id].rxPacket
    BY <2>1, <2>2 DEF Read, RxTypes
  <2> QED
    BY <2>1, <2>3, LossKept DEF Playing
<1>7. ASSUME NEW failed \in SUBSET net.nodes, Execute(failed) PROVE LossInv'
  BY <1>7, LossExecute
<1>8. CASE UNCHANGED vars
  <2>1. /\ net' = net /\ allocVars' = allocVars /\ slot' = slot /\ explicit' = explicit
        /\ buffer' = buffer /\ tx' = tx /\ rx' = rx /\ lost' = lost /\ interrupted' = interrupted
    BY <1>8 DEF vars, playVars, airVars
  <2> QED
    BY <2>1, LossKept DEF Playing
<1> QED
  BY <1>1, <1>2, <1>3, <1>4, <1>5, <1>6, <1>7, <1>8 DEF Next, Play

\* Why losses are masked: in a period, at most as many copies of a packet are not
\* where they should be as receptions of its stream have failed (data phases,
\* streams whose transmissions are all in the schedule and whose relays keep the
\* copies apart).
THEOREM LossInductive == Spec => []LossInv
<1>1. Init /\ ScheduleInv => LossInv
  BY DEF Init, LossInv, Playing
<1>2. ScheduleInv /\ ScheduleInv' /\ PlayInv /\ LossInv /\ [Next]_vars => LossInv'
  BY LossStep
<1> QED
  BY <1>1, <1>2, PlayInductive, ScheduleInductive, PTL DEF Spec

\* The end of a period, where one copy at least has arrived.
LEMMA MaskedStep ==
    ASSUME ScheduleInv, PlayInv, LossInv, [Next]_vars, NEW id \in Ids,
           PeriodEnds(id), interrupted = {}, Intact(id), Separate(id), lost'[id] < Count(id)
    PROVE  rx'[id].rxPacketShared = tx'[id].txPacket
<1>1. PICK failed \in SUBSET net.nodes : Execute(failed)
  <2>1. slot' # slot /\ DataSlot(net, slot)
    BY DEF PeriodEnds
  <2> QED
    BY <2>1 DEF Next, Play, Schedule, ApplySchedule, LoseSync, RegainSync, AdvanceBy, AppWrite, AppRead,
                vars, playVars
<1>2. /\ ScheduleInv /\ Expanded /\ slot \in 0..(ScheduleSlots - 1) /\ BuffersTyped /\ Playing
      /\ Complete(id) /\ CountersAgree(id) /\ OnePacket(id) /\ Undisturbed(id, failed)
      /\ NextSlot /\ net' = net /\ allocVars' = allocVars
  BY <1>1, Undisturbing DEF Undisturbed, Intact, Execute
<1>3. PICK e \in LastHops(id) : Uses(e, slot)
  BY <1>2, EndsAct DEF PeriodEnds
<1>4. /\ NextCount(rx[id].rxCount, Count(id)) = 0
      /\ rx'[id].rxPacketShared \in {rx[id].rxPacket, tx'[id].txPacket}
      /\ Received(StreamOf(id).dst, failed) # NoPacket => rx'[id].rxPacketShared = tx'[id].txPacket
  <2>1. rx'[id].rxCount = 0
    BY DEF PeriodEnds
  <2> QED
    BY <1>1, <1>2, <1>3, <2>1, PacketReceived
<1>5. /\ rx[id].rxCount # 0 => Begun(id)
      /\ Begun(id) => Pending(id) /\ tx'[id].txPacket = tx[id].txPacket
      /\ \A g \in LastHops(id) : g.offset < Phase(id) \/ Uses(g, slot)
      /\ \A g \in Hops(id) : (g.offset < Phase(id)) => Begun(id)
  BY <1>1, <1>2, <1>3, <1>4, PeriodFacts, PacketTaken
<1>6. CASE tx'[id].txPacket = NoPacket
  <2>1. rx[id].rxPacket \in {NoPacket, tx'[id].txPacket}
    BY <1>2, <1>5 DEF OnePacket
  <2> QED
    BY <1>4, <1>6, <2>1
<1>7. CASE tx'[id].txPacket # NoPacket
  <2> DEFINE gone == LostCopies(id) \cup Hit(id, failed)
  <2>1. /\ gone \subseteq BlocksOf(net, id) /\ IsFiniteSet(gone)
        /\ Cardinality(gone) <= lost'[id] /\ lost'[id] \in Nat
    BY <1>2, <1>7, LossBound
  <2>2. Cardinality(BlocksOf(net, id)) = Count(id) /\ Count(id) \in Nat
    <3>1. e.blk \in BlocksOf(net, id)
      BY <1>2, <1>3, HopParts DEF LastHops
    <3>2. AllocTypeOK
      BY DEF ScheduleInv, AllocInv
    <3>3. IsFiniteSet(BlocksOf(net, id))
      BY <3>2, BlocksOfFinite
    <3>4. Cardinality(BlocksOf(net, id)) # 0
      BY <3>1, <3>3, FS_EmptySet
    <3> QED
      BY <3>2, <3>4, StreamNamed
  <2>3. PICK b \in BlocksOf(net, id) : b \notin LostCopies(id) /\ b \notin Hit(id, failed)
    <3>1. gone # BlocksOf(net, id)
      <4> HIDE DEF gone
      <4>1. Cardinality(gone) \in Nat
        BY <2>1, FS_CardinalityType
      <4> QED
        BY <2>1, <2>2, <4>1
    <3> QED
      BY <2>1, <3>1
  <2>4. OnItsWay(id, b)
    BY <2>3 DEF LostCopies
  <2>5. PICK g \in PlacedOf(b) : g \in LastHops(id)
    BY <1>2, LastPlaced
  <2>6. g \in Hops(id) /\ g.rx = StreamOf(id).dst /\ g.rx = g.dst
    BY <1>2, <2>5, HopParts DEF LastHops
  <2>7. CASE Uses(g, slot)
    <3>1. Heard(g.rx, failed) = [stream |-> id, packet |-> tx'[id].txPacket]
      BY <1>2, <1>7, <2>3, <2>4, <2>7, CopyHeard DEF Hit
    <3>2. Entry(g.rx).stream = id
      BY <1>2, <2>6, <2>7, EntryOf, HopParts
    <3>3. Received(g.rx, failed) = tx'[id].txPacket
      BY <3>1, <3>2 DEF Received, CheckStreamId, Undisturbed, PlayInv
    <3> QED
      BY <1>4, <1>7, <2>6, <3>3
  <2>8. CASE g.offset < Phase(id)
    <3>1. rx[id].rxPacket = tx[id].txPacket
      BY <1>5, <2>4, <2>6, <2>8 DEF OnItsWay
    <3> QED
      BY <1>4, <1>5, <2>6, <2>8, <3>1
  <2> QED
    BY <1>5, <2>5, <2>7, <2>8
<1> QED
  BY <1>6, <1>7

\* At the end of a period the reader of a stream is handed the packet the writer
\* had ready at its beginning, whatever the other receptions, if fewer receptions
\* of the stream failed than the packet has copies (updateRedundancy, sendPacket,
\* receivePacket and missPacket of Stream, DataPhase::execute).
THEOREM Masked == Spec => LossesMasked
<1>1. ScheduleInv /\ PlayInv /\ LossInv /\ [Next]_vars =>
        \A id \in Ids :
            (PeriodEnds(id) /\ interrupted = {} /\ Intact(id) /\ Separate(id)
             /\ lost'[id] < Count(id))
                => rx'[id].rxPacketShared = tx'[id].txPacket
  BY MaskedStep
<1> QED
  BY <1>1, LossInductive, PlayInductive, ScheduleInductive, PTL DEF Spec, LossesMasked
=============================================================================
