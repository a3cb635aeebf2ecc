------------------------ MODULE SlotAllocation_proofs ------------------------
(***************************************************************************)
(* What the allocation of slots promises, for any topology, any routed     *)
(* streams with any periods, and any shape of tile and superframe: no two  *)
(* transmissions of a slot disturb each other, the topology is told the    *)
(* links it depends on, the hops of a packet follow each other, and the    *)
(* control slots stay free.                                                *)
(***************************************************************************)
EXTENDS SlotAllocation, Arithmetic_proofs, FiniteSetTheorems

-----------------------------------------------------------------------------
(***************************************************************************)
(* Division with remainder, and common multiples.                          *)
(***************************************************************************)
\* lcm() returns a common multiple of its arguments that is not zero.
LEMMA LcmIsMultiple ==
    ASSUME NEW a \in Nat \ {0}, NEW b \in Nat \ {0}
    PROVE  /\ Lcm(a, b) \in Nat \ {0}
           /\ \E x \in Nat \ {0} : Lcm(a, b) = a * x
           /\ \E y \in Nat \ {0} : Lcm(a, b) = b * y
<1> DEFINE Common == {m \in 1..(a * b) : Divides(a, m) /\ Divides(b, m)}
<1>1. a * b \in Common
  <2>1. a * b \in 1..(a * b)
    BY Product
  <2>2. Divides(a, a * b) /\ Divides(b, a * b)
    <3>1. b \in 1..(a * b) /\ a \in 1..(a * b) /\ b * a = a * b
      BY Product
    <3> QED
      BY <3>1 DEF Divides
  <2> QED
    BY <2>1, <2>2
<1>2. PICK least \in Common : \A m \in Common : least <= m
  <2>1. Common \subseteq Nat /\ Common # {}
    BY <1>1
  <2> QED
    BY <2>1, LeastNumber
<1>3. \A k \in 1..(least - 1) : ~(Divides(a, k) /\ Divides(b, k))
  <2> SUFFICES ASSUME NEW k \in 1..(least - 1), Divides(a, k), Divides(b, k) PROVE FALSE
    OBVIOUS
  <2>1. least \in 1..(a * b) /\ a * b \in Nat
    BY <1>2, Product
  <2>2. k \in 1..(a * b) /\ k < least
    BY <2>1
  <2> QED
    BY <1>2, <2>2, <2>1
<1>4. /\ Lcm(a, b) \in 1..(a * b)
      /\ Divides(a, Lcm(a, b)) /\ Divides(b, Lcm(a, b))
  <2>1. \E m \in 1..(a * b) :
            /\ Divides(a, m) /\ Divides(b, m)
            /\ \A k \in 1..(m - 1) : ~(Divides(a, k) /\ Divides(b, k))
    BY <1>2, <1>3
  <2> QED
    BY <2>1 DEF Lcm
<1>5. Lcm(a, b) \in Nat \ {0}
  BY <1>4, Product
<1> QED
  BY <1>4, <1>5 DEF Divides

-----------------------------------------------------------------------------
(***************************************************************************)
(* Transmissions that meet.                                                *)
(***************************************************************************)
\* What the network is taken to be.
LEMMA NetworkParts ==
    ASSUME AllocTypeOK
    PROVE  /\ Size(net) \in Nat \ {0}
           /\ net.slotsPerTile \in Nat \ {0}
           /\ net.reservedDownlink \in 0..net.slotsPerTile
           /\ net.reservedUplink \in 0..net.slotsPerTile
           /\ net.channelSpatialReuse \in BOOLEAN /\ net.useWeakTopologies \in BOOLEAN
           /\ Symmetric(net.network_graph) /\ Symmetric(net.weak_graph)
           /\ net.established \in Seq(Seq(Transmissions))
           /\ net.accepted \in Seq(Seq(Transmissions))
           /\ \A i \in DOMAIN net.established : SimplePath(net.established[i])
           /\ \A i \in DOMAIN net.accepted : SimplePath(net.accepted[i])
  BY NetworksAssumption DEF AllocTypeOK

\* The slots of a transmission, by their number.
LEMMA UsesNumber ==
    ASSUME NEW o \in Nat, NEW P \in Nat \ {0}, NEW k \in Nat,
           k >= o, (k - o) % P = 0
    PROVE  \E i \in Nat : k = o + i * P
<1>1. /\ (k - o) \div P \in Nat
      /\ k - o = P * ((k - o) \div P) + ((k - o) % P)
  BY DivMod
<1>2. PICK i \in Nat : k - o = P * i + 0
  BY <1>1
<1> QED
  BY <1>2

IsMultiple(L, P) == \E x \in Nat \ {0} : L = P * x
MeetSomewhere(o, P, p, Q) == \E i, j \in Nat : o + i * P = p + j * Q
MeetBelow(o, P, p, Q, L) ==
    \E r, s \in 0..L :
        /\ o + r * P < L
        /\ p + s * Q < L
        /\ o + r * P = p + s * Q

\* Two series that meet anywhere meet below every common multiple of their
\* periods: that is where checkSlotConflict looks.
LEMMA MeetBelowMultiple ==
    ASSUME NEW P \in Nat \ {0}, NEW Q \in Nat \ {0},
           NEW o \in 0..(P - 1), NEW p \in 0..(Q - 1),
           MeetSomewhere(o, P, p, Q),
           NEW L, IsMultiple(L, P), IsMultiple(L, Q)
    PROVE  MeetBelow(o, P, p, Q, L)
<1> PICK i, j \in Nat : o + i * P = p + j * Q
  BY DEF MeetSomewhere
<1> PICK x \in Nat \ {0} : L = P * x
  BY DEF IsMultiple
<1> PICK y \in Nat \ {0} : L = Q * y
  BY DEF IsMultiple
<1>1. PICK r, m \in Nat : i = x * m + r /\ r < x
  <2>1. PICK r, m : r = i % x /\ m = i \div x
    OBVIOUS
  <2>2. m \in Nat /\ r \in 0..(x - 1) /\ i = x * m + r
    BY <2>1, DivMod
  <2>3. r \in Nat /\ r < x
    BY <2>2
  <2> QED
    BY <2>2, <2>3
<1>2. PICK s, n \in Nat : j = y * n + s /\ s < y
  <2>1. PICK s, n : s = j % y /\ n = j \div y
    OBVIOUS
  <2>2. n \in Nat /\ s \in 0..(y - 1) /\ j = y * n + s
    BY <2>1, DivMod
  <2>3. s \in Nat /\ s < y
    BY <2>2
  <2> QED
    BY <2>2, <2>3
<1>3. PICK u \in Nat : u = o + r * P
  BY <1>1
<1>4. PICK v \in Nat : v = p + s * Q
  BY <1>2
<1>5. u < L /\ r <= L
  <2>1. r * P + P <= x * P
    BY <1>1
  <2>2. x <= L
    BY Product
  <2> QED
    BY <1>1, <1>3, <2>1, <2>2
<1>6. v < L /\ s <= L
  <2>1. s * Q + Q <= y * Q
    BY <1>2
  <2>2. y <= L
    BY Product
  <2> QED
    BY <1>2, <1>4, <2>1, <2>2
<1>7. o + i * P = L * m + u
  <2>1. i * P = (x * m) * P + r * P
    BY <1>1
  <2>2. (x * m) * P = L * m
    BY <1>1
  <2> QED
    BY <1>3, <2>1, <2>2
<1>8. p + j * Q = L * n + v
  <2>1. j * Q = (y * n) * Q + s * Q
    BY <1>2
  <2>2. (y * n) * Q = L * n
    BY <1>2
  <2> QED
    BY <1>4, <2>1, <2>2
<1>9. u = v
  <2>1. L \in Nat \ {0} /\ u \in 0..(L - 1) /\ v \in 0..(L - 1)
    BY <1>5, <1>6
  <2>2. (L * m + u) % L = u
    BY <2>1, <1>1, DivModUnique
  <2>3. (L * n + v) % L = v
    BY <2>1, <1>2, DivModUnique
  <2>4. L * m + u = L * n + v
    BY <1>7, <1>8
  <2> QED
    BY <2>2, <2>3, <2>4
<1>10. r \in 0..L /\ s \in 0..L
  BY <1>1, <1>2, <1>5, <1>6
<1> QED
  <2>1. o + r * P < L /\ p + s * Q < L /\ o + r * P = p + s * Q
    BY <1>3, <1>4, <1>5, <1>6, <1>9
  <2> QED
    BY <1>10, <2>1 DEF MeetBelow
\* Transmissions that use a slot together are found by checkSlotConflict.
LEMMA MeetingIsFound ==
    ASSUME NEW n, n.slotsPerTile \in Nat \ {0},
           NEW t, t.period \in Nat \ {0}, NEW f, f.period \in Nat \ {0},
           NEW o \in 0..(PeriodSlots(n, t) - 1), f.offset \in 0..(PeriodSlots(n, f) - 1),
           MeetSomewhere(o, PeriodSlots(n, t), f.offset, PeriodSlots(n, f))
    PROVE  SlotConflict(n, t, o, f)
<1> DEFINE S == n.slotsPerTile
           m == Lcm(t.period, f.period)
           P == PeriodSlots(n, t)
           Q == PeriodSlots(n, f)
           L == m * S
<1>1. /\ m \in Nat \ {0}
      /\ \E x \in Nat \ {0} : m = t.period * x
      /\ \E y \in Nat \ {0} : m = f.period * y
  BY LcmIsMultiple
<1>2. P = t.period * S /\ Q = f.period * S /\ P \in Nat \ {0} /\ Q \in Nat \ {0}
  BY Product DEF PeriodSlots
<1>3. PICK x \in Nat \ {0} : m = t.period * x
  BY <1>1
<1>4. PICK y \in Nat \ {0} : m = f.period * y
  BY <1>1
<1>5. L \in Nat /\ L = P * x
  <2>1. L = (t.period * x) * S
    BY <1>3
  <2>2. (t.period * x) * S = (t.period * S) * x
    OBVIOUS
  <2> QED
    BY <1>1, <1>2, <2>1, <2>2
<1>6. L = Q * y
  <2>1. L = (f.period * y) * S
    BY <1>4
  <2>2. (f.period * y) * S = (f.period * S) * y
    OBVIOUS
  <2> QED
    BY <1>2, <2>1, <2>2
<1> HIDE DEF P, Q, L
<1>7. /\ o \in 0..(P - 1) /\ f.offset \in 0..(Q - 1)
      /\ MeetSomewhere(o, P, f.offset, Q)
  BY DEF P, Q
<1>8. MeetBelow(o, P, f.offset, Q, L)
  <2>1. IsMultiple(L, P) /\ IsMultiple(L, Q)
    BY <1>5, <1>6 DEF IsMultiple
  <2> QED
    BY <1>2, <1>7, <2>1, MeetBelowMultiple
<1> QED
  BY <1>8 DEF SlotConflict, MeetBelow, P, Q, L

\* What a conflict says, for any offset.
LEMMA ConflictIsMeeting ==
    ASSUME NEW n, n.slotsPerTile \in Nat \ {0},
           NEW t, t.period \in Nat \ {0}, NEW f, f.period \in Nat \ {0},
           NEW o, SlotConflict(n, t, o, f)
    PROVE  MeetSomewhere(o, PeriodSlots(n, t), f.offset, PeriodSlots(n, f))
<1>1. Lcm(t.period, f.period) * n.slotsPerTile \in Nat
  <2>1. PICK m \in Nat \ {0} : m = Lcm(t.period, f.period)
    BY LcmIsMultiple
  <2> QED
    BY <2>1, Product
<1> QED
  BY <1>1 DEF SlotConflict, MeetSomewhere

\* It does not matter which of two transmissions is compared with the other.
LEMMA ConflictSymmetric ==
    ASSUME net.slotsPerTile \in Nat \ {0},
           NEW e \in Placements, e.offset < PeriodSlots(net, e),
           NEW f \in Placements, f.offset < PeriodSlots(net, f),
           SlotConflict(net, e, e.offset, f)
    PROVE  SlotConflict(net, f, f.offset, e)
<1>1. net.slotsPerTile \in Nat \ {0}
  OBVIOUS
<1>3. e.period \in Nat \ {0} /\ f.period \in Nat \ {0} /\ e.offset \in Nat /\ f.offset \in Nat
  BY DEF Placements
<1>4. e.offset < PeriodSlots(net, e) /\ f.offset < PeriodSlots(net, f)
  OBVIOUS
<1>5. PeriodSlots(net, e) \in Nat /\ PeriodSlots(net, f) \in Nat
  BY <1>1, <1>3 DEF PeriodSlots
<1>6. MeetSomewhere(e.offset, PeriodSlots(net, e), f.offset, PeriodSlots(net, f))
  BY <1>1, <1>3, ConflictIsMeeting
<1>7. e.offset \in 0..(PeriodSlots(net, e) - 1) /\ f.offset \in 0..(PeriodSlots(net, f) - 1)
  BY <1>3, <1>4, <1>5
<1>8. MeetSomewhere(f.offset, PeriodSlots(net, f), e.offset, PeriodSlots(net, e))
  BY <1>6 DEF MeetSomewhere
<1> QED
  BY <1>1, <1>3, <1>7, <1>8, MeetingIsFound

AllDifferent(a, b, c, d) == a # b /\ c # d /\ a # c /\ a # d /\ b # c /\ b # d

LEMMA FourNodes ==
    ASSUME NEW a, NEW b, NEW c, NEW d, AllDifferent(a, b, c, d)
    PROVE  Cardinality({a, b, c, d}) = 4
<1>1. IsFiniteSet({}) /\ Cardinality({}) = 0
  BY FS_EmptySet
<1>2. IsFiniteSet({a}) /\ Cardinality({a}) = 1
  BY FS_Singleton
<1>3. IsFiniteSet({a} \cup {b}) /\ Cardinality({a} \cup {b}) = 2
  BY <1>2, FS_AddElement DEF AllDifferent
<1>4. IsFiniteSet({a, b} \cup {c}) /\ Cardinality({a, b} \cup {c}) = 3
  <2>1. {a} \cup {b} = {a, b} /\ c \notin {a, b}
    BY DEF AllDifferent
  <2>2. IsFiniteSet({a, b}) /\ Cardinality({a, b}) = 2
    BY <1>3, <2>1
  <2> QED
    BY <2>1, <2>2, FS_AddElement
<1>5. IsFiniteSet({a, b, c} \cup {d}) /\ Cardinality({a, b, c} \cup {d}) = 4
  <2>1. {a, b} \cup {c} = {a, b, c} /\ d \notin {a, b, c}
    BY DEF AllDifferent
  <2>2. IsFiniteSet({a, b, c}) /\ Cardinality({a, b, c}) = 3
    BY <1>4, <2>1
  <2> QED
    BY <2>1, <2>2, FS_AddElement
<1>6. {a, b, c} \cup {d} = {a, b, c, d}
  OBVIOUS
<1> QED
  BY <1>5, <1>6

LEMMA CompatibleSymmetric ==
    ASSUME NEW e, NEW f, Compatible(e, f)
    PROVE  Compatible(f, e)
<1>1. {e.tx, e.rx, f.tx, f.rx} = {f.tx, f.rx, e.tx, e.rx}
  OBVIOUS
<1> QED
  BY <1>1 DEF Compatible
-----------------------------------------------------------------------------
(***************************************************************************)
(* What a free slot is free of.                                            *)
(***************************************************************************)
LEMMA ElementsTyped ==
    ASSUME AllocTypeOK
    PROVE  Elements \subseteq Placements
  BY DEF AllocTypeOK, Elements

LEMMA OrderLinkSymmetric ==
    ASSUME NEW a \in Nat, NEW b \in Nat
    PROVE  OrderLink(a, b) = OrderLink(b, a)
  BY DEF OrderLink

\* The list checkAllConflicts looks at has no conflict with the transmission:
\* what meets it is compatible, and the links between are told.
LEMMA NoConflict ==
    ASSUME AllocTypeOK, NEW t, t.tx # t.rx, NEW o,
           NEW sched, ~AllConflicts(net, sched, t, o),
           NEW e, \E i \in DOMAIN sched : e = sched[i], e.tx # e.rx,
           SlotConflict(net, t, o, e)
    PROVE  /\ Compatible(t, e)
           /\ OrderLink(t.tx, e.rx) \in LinksBetween(net, sched, t, o)
           /\ OrderLink(t.rx, e.tx) \in LinksBetween(net, sched, t, o)
<1>1. e \in Meeting(net, sched, t, o)
  BY DEF Meeting
<1>2. /\ net.channelSpatialReuse
      /\ ~UnicityConflict(t, e)
      /\ ~InterferenceConflict(net, t, e)
  BY <1>1 DEF AllConflicts
<1>3. Cardinality({t.tx, t.rx, e.tx, e.rx}) = 4
  <2>1. t.tx # e.tx /\ t.tx # e.rx /\ t.rx # e.tx /\ t.rx # e.rx
    BY <1>2 DEF UnicityConflict
  <2>2. AllDifferent(t.tx, t.rx, e.tx, e.rx)
    BY <2>1 DEF AllDifferent
  <2> QED
    BY <2>2, FourNodes
<1>4. Compatible(t, e)
  <2> DEFINE g == IF net.useWeakTopologies THEN net.weak_graph ELSE net.network_graph
  <2>1. <<t.tx, e.rx>> \notin g /\ <<t.rx, e.tx>> \notin g
    BY <1>2 DEF InterferenceConflict, HasEdge
  <2>2. Symmetric(g)
    BY NetworkParts
  <2>3. <<e.tx, t.rx>> \notin g
    <3> HIDE DEF g
    <3> SUFFICES ASSUME <<e.tx, t.rx>> \in g PROVE FALSE
      OBVIOUS
    <3>1. << <<e.tx, t.rx>>[2], <<e.tx, t.rx>>[1]>> \in g
      BY <2>2 DEF Symmetric
    <3> QED
      BY <3>1, <2>1
  <2> QED
    BY <1>2, <1>3, <2>1, <2>3 DEF Compatible
<1>5. /\ OrderLink(t.tx, e.rx) \in LinksBetween(net, sched, t, o)
      /\ OrderLink(t.rx, e.tx) \in LinksBetween(net, sched, t, o)
  BY <1>1 DEF LinksBetween
<1> QED
  BY <1>4, <1>5

LEMMA FreeSlot ==
    ASSUME AllocTypeOK, OffsetsInPeriod, NEW t, t.tx # t.rx,
           NEW o \in Free(t), NEW S, o \in S,
           NEW e \in Elements, SlotConflict(net, t, o, e)
    PROVE  /\ Compatible(t, e)
           /\ OrderLink(t.tx, e.rx) \in LinksTold(t, S)
           /\ OrderLink(t.rx, e.tx) \in LinksTold(t, S)
<1>1. e.tx # e.rx
  BY DEF OffsetsInPeriod
<1>2. /\ LinksBetween(net, current_schedule, t, o) \subseteq LinksTold(t, S)
      /\ LinksBetween(net, scheduled_transmissions, t, o) \subseteq LinksTold(t, S)
  BY DEF LinksTold
<1>3. /\ ~AllConflicts(net, current_schedule, t, o)
      /\ ~AllConflicts(net, scheduled_transmissions, t, o)
  BY DEF Free
<1>4. CASE \E i \in DOMAIN current_schedule : e = current_schedule[i]
  BY <1>4, <1>1, <1>2, <1>3, NoConflict
<1>5. CASE \E i \in DOMAIN scheduled_transmissions : e = scheduled_transmissions[i]
  BY <1>5, <1>1, <1>2, <1>3, NoConflict
<1> QED
  BY <1>4, <1>5 DEF Elements

-----------------------------------------------------------------------------
(***************************************************************************)
(* The steps.                                                              *)
(***************************************************************************)
LEMMA InitInv ==
    ASSUME AllocInit
    PROVE  AllocInv
<1>1. AllocTypeOK
  <2>1. /\ Size(net) \in Nat \ {0}
        /\ net.established \in Seq(Seq(Transmissions))
    BY NetworksAssumption DEF AllocInit
  <2>2. <<>> \in Seq(Transmissions) /\ <<>> \in Seq(Placements)
    OBVIOUS
  <2> QED
    BY <2>1, <2>2 DEF AllocInit, AllocTypeOK
<1>2. BlocksRouted
  BY <1>1, NetworkParts DEF AllocInit, BlocksRouted, SimplePath
<1>3. Elements = {}
  BY DEF AllocInit, Elements
<1> QED
  BY <1>1, <1>2, <1>3
     DEF AllocInit, AllocInv, OffsetsInPeriod, MeetingCompatible, MeetingTold, BlockInOrder,
         HopsFollow

\* A step that places nothing, and forgets no link, keeps what is said of the
\* elements.
LEMMA FewerElements ==
    ASSUME OffsetsInPeriod, MeetingCompatible, MeetingTold, HopsFollow,
           Elements' \subseteq Elements, net' = net,
           linksCausingInterference \subseteq linksCausingInterference'
    PROVE  OffsetsInPeriod' /\ MeetingCompatible' /\ MeetingTold' /\ HopsFollow'
<1>1. OffsetsInPeriod'
  BY DEF OffsetsInPeriod, PeriodSlots, DataSlot, ControlSlots
<1>2. \A e, f : /\ SlotConflict(net', e, e.offset, f) = SlotConflict(net, e, e.offset, f)
                /\ Compatible(e, f)' = Compatible(e, f)
  BY DEF Compatible
<1>3. MeetingCompatible'
  BY <1>2 DEF MeetingCompatible
<1>4. MeetingTold'
  BY <1>2 DEF MeetingTold
<1>5. HopsFollow'
  BY DEF HopsFollow, PeriodSlots
<1> QED
  BY <1>1, <1>3, <1>4, <1>5
LEMMA SimpleTail ==
    ASSUME NEW b \in Seq(Transmissions), b # <<>>, SimplePath(b)
    PROVE  /\ Tail(b) \in Seq(Transmissions)
           /\ SimplePath(Tail(b))
           /\ Head(b) = b[1] /\ Head(b) \in Transmissions
           /\ \A i \in DOMAIN Tail(b) : Tail(b)[i].rx # Head(b).tx
           /\ Head(b).rx # Head(b).tx
<1>1. /\ Len(b) \in Nat \ {0}
      /\ DOMAIN b = 1..Len(b)
      /\ Tail(b) \in Seq(Transmissions)
      /\ DOMAIN Tail(b) = 1..(Len(b) - 1)
      /\ \A i \in 1..(Len(b) - 1) : Tail(b)[i] = b[i + 1]
      /\ Head(b) = b[1] /\ Head(b) \in Transmissions
  OBVIOUS
<1>2. \A i, j \in 1..Len(b) : b[i].rx = b[j].tx => i < j
  BY <1>1 DEF SimplePath
<1>3. SimplePath(Tail(b))
  <2> SUFFICES ASSUME NEW i \in 1..(Len(b) - 1), NEW j \in 1..(Len(b) - 1),
                      b[i + 1].rx = b[j + 1].tx
               PROVE  i < j
    BY <1>1 DEF SimplePath
  <2>1. i + 1 \in 1..Len(b) /\ j + 1 \in 1..Len(b)
    BY <1>1
  <2>2. i + 1 < j + 1
    BY <1>2, <2>1
  <2> QED
    BY <2>2
<1>4. \A i \in 1..Len(b) : b[i].rx # b[1].tx
  <2> SUFFICES ASSUME NEW i \in 1..Len(b), b[i].rx = b[1].tx PROVE FALSE
    OBVIOUS
  <2>1. 1 \in 1..Len(b)
    BY <1>1
  <2>2. i < 1
    BY <1>2, <2>1
  <2> QED
    BY <2>2
<1>5. \A i \in 1..(Len(b) - 1) : i + 1 \in 1..Len(b) /\ 1 \in 1..Len(b)
  BY <1>1
<1>6. \A i \in DOMAIN Tail(b) : Tail(b)[i].rx # Head(b).tx
  BY <1>1, <1>4, <1>5
<1>7. 1 \in 1..Len(b)
  BY <1>1
<1>8. Head(b).rx # Head(b).tx
  BY <1>1, <1>4, <1>7
<1> QED
  BY <1>1, <1>3, <1>6, <1>8

LEMMA HeadAndTail ==
    ASSUME NEW E, NEW q \in Seq(E), q # <<>>
    PROVE  /\ Head(q) \in E /\ Tail(q) \in Seq(E)
           /\ Head(q) = q[1] /\ 1 \in DOMAIN q
           /\ \A i \in DOMAIN Tail(q) : i + 1 \in DOMAIN q /\ Tail(q)[i] = q[i + 1]
  OBVIOUS

LEMMA NextBlockInv ==
    ASSUME AllocInv, NextBlock
    PROVE  AllocInv'
<1>1. AllocTypeOK /\ BlocksRouted /\ BlockInOrder
  BY DEF AllocInv
<1>2. /\ blocks \in Seq(Seq(Transmissions)) /\ blocks # <<>>
      /\ todo' = Head(blocks) /\ blocks' = Tail(blocks)
      /\ \A i \in DOMAIN blocks : SimplePath(blocks[i])
  BY <1>1 DEF NextBlock, AllocTypeOK, BlocksRouted
<1>3. /\ Head(blocks) \in Seq(Transmissions) /\ Tail(blocks) \in Seq(Seq(Transmissions))
      /\ Head(blocks) = blocks[1] /\ 1 \in DOMAIN blocks
      /\ \A i \in DOMAIN Tail(blocks) : i + 1 \in DOMAIN blocks /\ Tail(blocks)[i] = blocks[i + 1]
  BY <1>2, HeadAndTail
<1>4. AllocTypeOK'
  <2>1. blk + 1 \in Nat /\ 0 \in Nat /\ newSize \in Nat \ {0}
    BY <1>1 DEF AllocTypeOK
  <2>2. todo' \in Seq(Transmissions) /\ blocks' \in Seq(Seq(Transmissions))
    BY <1>2, <1>3
  <2> QED
    BY <1>1, <2>1, <2>2 DEF NextBlock, AllocTypeOK
<1>5. BlocksRouted'
  BY <1>2, <1>3 DEF BlocksRouted
<1>6. Elements' = Elements
  BY DEF NextBlock, Elements
<1>7. BlockInOrder'
  <2>1. blk \in Nat /\ blk' = blk + 1 /\ block_size' = 0
    BY <1>1 DEF NextBlock, AllocTypeOK
  <2>2. \A e \in Elements : e.blk \in Nat /\ e.blk <= blk
    BY <1>1, ElementsTyped DEF BlockInOrder, Placements
  <2>3. Len(scheduled_transmissions') \in Nat
    BY <1>4 DEF AllocTypeOK
  <2>4. \A e \in Elements : e.blk <= blk' /\ e.blk # blk'
    BY <2>1, <2>2
  <2> QED
    BY <1>6, <2>1, <2>3, <2>4 DEF BlockInOrder
<1> QED
  BY <1>4, <1>5, <1>6, <1>7, FewerElements DEF NextBlock, AllocInv

LEMMA SkipTransmissionInv ==
    ASSUME AllocInv, SkipTransmission
    PROVE  AllocInv'
<1>1. AllocTypeOK /\ BlocksRouted /\ BlockInOrder
  BY DEF AllocInv
<1>2. /\ todo \in Seq(Transmissions) /\ todo # <<>> /\ todo' = Tail(todo)
      /\ SimplePath(todo)
      /\ last_offset \in Nat /\ last_offset' = last_offset + 1
  BY <1>1 DEF SkipTransmission, AllocTypeOK, BlocksRouted
<1>3. Tail(todo) \in Seq(Transmissions) /\ SimplePath(Tail(todo))
  BY <1>2, SimpleTail
<1>4. AllocTypeOK'
  BY <1>1, <1>2, <1>3 DEF SkipTransmission, AllocTypeOK
<1>5. BlocksRouted'
  BY <1>1, <1>2, <1>3 DEF SkipTransmission, BlocksRouted
<1>6. Elements' = Elements
  BY DEF SkipTransmission, Elements
<1>7. BlockInOrder'
  <2>1. \A i \in DOMAIN Tail(todo) : i + 1 \in DOMAIN todo /\ Tail(todo)[i] = todo[i + 1]
    BY <1>2
  <2>2. \A e \in Elements : e.offset \in Nat
    BY <1>1, ElementsTyped DEF Placements
  <2>3. \A e \in Elements : e.offset < last_offset => e.offset < last_offset'
    BY <2>2, <1>2
  <2> QED
    BY <1>1, <1>2, <1>6, <2>1, <2>3 DEF SkipTransmission, BlockInOrder
<1>8. linksCausingInterference \subseteq linksCausingInterference'
  BY DEF SkipTransmission
<1> QED
  BY <1>4, <1>5, <1>6, <1>7, <1>8, FewerElements DEF SkipTransmission, AllocInv

\* What UndoBlock leaves, and what NextStage hands over, was there before.
LEMMA UndoneElements ==
    ASSUME AllocTypeOK, BlockInOrder, UndoBlock
    PROVE  Elements' \subseteq Elements /\ scheduled_transmissions' \in Seq(Placements)
<1>1. /\ scheduled_transmissions \in Seq(Placements)
      /\ block_size \in Nat /\ block_size <= Len(scheduled_transmissions)
  BY DEF UndoBlock, AllocTypeOK, BlockInOrder
<1> DEFINE kept == Len(scheduled_transmissions) - block_size
<1>2. kept \in 0..Len(scheduled_transmissions)
  BY <1>1
<1>3. /\ SubSeq(scheduled_transmissions, 1, kept) \in Seq(Placements)
      /\ DOMAIN SubSeq(scheduled_transmissions, 1, kept) \subseteq DOMAIN scheduled_transmissions
      /\ \A i \in DOMAIN SubSeq(scheduled_transmissions, 1, kept) :
            SubSeq(scheduled_transmissions, 1, kept)[i] = scheduled_transmissions[i]
  <2> HIDE DEF kept
  <2> QED
    BY <1>1, <1>2
<1>4. scheduled_transmissions' = SubSeq(scheduled_transmissions, 1, kept)
  BY DEF UndoBlock
<1> QED
  BY <1>3, <1>4 DEF UndoBlock, Elements

LEMMA StagedElements ==
    ASSUME AllocTypeOK, NextStage
    PROVE  Elements' \subseteq Elements /\ current_schedule' \in Seq(Placements)
<1> DEFINE c == current_schedule
           s == scheduled_transmissions
<1>1. /\ c \in Seq(Placements) /\ s \in Seq(Placements)
      /\ current_schedule' = c \o s /\ scheduled_transmissions' = <<>>
  BY DEF NextStage, AllocTypeOK
<1>2. /\ c \o s \in Seq(Placements)
      /\ \A i \in DOMAIN (c \o s) :
            \/ i \in DOMAIN c /\ (c \o s)[i] = c[i]
            \/ i - Len(c) \in DOMAIN s /\ (c \o s)[i] = s[i - Len(c)]
  BY <1>1
<1>3. Elements' = {(c \o s)[i] : i \in DOMAIN (c \o s)}
  BY <1>1 DEF Elements
<1>4. Elements' \subseteq Elements
  BY <1>2, <1>3 DEF Elements
<1> QED
  BY <1>1, <1>2, <1>4

LEMMA UndoBlockInv ==
    ASSUME AllocInv, UndoBlock
    PROVE  AllocInv'
<1>1. AllocTypeOK /\ BlocksRouted /\ BlockInOrder
  BY DEF AllocInv
<1>2. Elements' \subseteq Elements /\ scheduled_transmissions' \in Seq(Placements)
  BY <1>1, UndoneElements
<1>3. AllocTypeOK'
  <2>1. <<>> \in Seq(Transmissions)
    OBVIOUS
  <2> QED
    BY <1>1, <1>2, <2>1 DEF UndoBlock, AllocTypeOK
<1>4. BlocksRouted'
  BY <1>1 DEF UndoBlock, BlocksRouted, SimplePath
<1>5. BlockInOrder'
  BY <1>1, <1>2 DEF UndoBlock, BlockInOrder
<1> QED
  BY <1>2, <1>3, <1>4, <1>5, FewerElements DEF UndoBlock, AllocInv

LEMMA NextStageInv ==
    ASSUME AllocInv, NextStage
    PROVE  AllocInv'
<1>1. AllocTypeOK /\ BlocksRouted /\ BlockInOrder
  BY DEF AllocInv
<1>2. Elements' \subseteq Elements /\ current_schedule' \in Seq(Placements)
  BY <1>1, StagedElements
<1>3. AllocTypeOK'
  <2>1. <<>> \in Seq(Seq(Transmissions)) /\ <<>> \in Seq(Placements)
    OBVIOUS
  <2> QED
    BY <1>1, <1>2, <2>1, NetworkParts DEF NextStage, AllocTypeOK
<1>4. BlocksRouted'
  BY <1>1, NetworkParts DEF NextStage, BlocksRouted, SimplePath
<1>5. BlockInOrder'
  BY <1>1, <1>2 DEF NextStage, BlockInOrder
<1> QED
  BY <1>2, <1>3, <1>4, <1>5, FewerElements DEF NextStage, AllocInv

LEMMA AppendElements ==
    ASSUME NEW E, NEW q \in Seq(E), NEW e
    PROVE  \A x : (\E i \in DOMAIN Append(q, e) : x = Append(q, e)[i])
                    <=> (x = e \/ \E i \in DOMAIN q : x = q[i])
<1>1. /\ Len(q) \in Nat /\ DOMAIN q = 1..Len(q)
      /\ DOMAIN Append(q, e) = 1..(Len(q) + 1)
      /\ \A i \in 1..Len(q) : Append(q, e)[i] = q[i]
      /\ Append(q, e)[Len(q) + 1] = e
  OBVIOUS
<1> QED
  BY <1>1

LEMMA AppendedElement ==
    ASSUME NEW e, scheduled_transmissions \in Seq(Placements),
           scheduled_transmissions' = Append(scheduled_transmissions, e),
           current_schedule' = current_schedule
    PROVE  Elements' = Elements \cup {e}
<1>1. \A x : (\E i \in DOMAIN scheduled_transmissions' : x = scheduled_transmissions'[i])
               <=> (x = e \/ \E i \in DOMAIN scheduled_transmissions : x = scheduled_transmissions[i])
  BY AppendElements
<1>2. \A x : x \in Elements' <=> x \in Elements \cup {e}
  BY <1>1 DEF Elements
<1> QED
  BY <1>2

LEMMA PlaceTransmissionInv ==
    ASSUME AllocInv, PlaceTransmission
    PROVE  AllocInv'
<1>1. /\ AllocTypeOK /\ BlocksRouted /\ OffsetsInPeriod /\ MeetingCompatible /\ MeetingTold
      /\ BlockInOrder /\ HopsFollow
  BY DEF AllocInv
<1> DEFINE t == Head(todo)
<1>2. PICK o \in Free(t) :
          /\ scheduled_transmissions' = Append(scheduled_transmissions, Placed(t, o))
          /\ last_offset' = o + 1
          /\ linksCausingInterference' =
                linksCausingInterference \cup LinksTold(t, {p \in Candidates(t) : p <= o})
  BY DEF PlaceTransmission
<1> DEFINE new == Placed(t, o)
           told == LinksTold(t, {p \in Candidates(t) : p <= o})
<1>3. /\ todo \in Seq(Transmissions) /\ todo # <<>> /\ todo' = Tail(todo)
      /\ SimplePath(todo)
      /\ last_offset \in Nat /\ blk \in Nat /\ newSize \in Nat \ {0} /\ block_size \in Nat
      /\ scheduled_transmissions \in Seq(Placements)
      /\ net' = net /\ blk' = blk /\ blocks' = blocks /\ current_schedule' = current_schedule
      /\ newSize' = Lcm(newSize, t.period) /\ block_size' = block_size + 1
      /\ stream_err' \in BOOLEAN
  BY <1>1 DEF PlaceTransmission, AllocTypeOK, BlocksRouted
<1>4. /\ Tail(todo) \in Seq(Transmissions) /\ SimplePath(Tail(todo))
      /\ t = todo[1] /\ t \in Transmissions
      /\ \A i \in DOMAIN Tail(todo) : Tail(todo)[i].rx # t.tx
      /\ t.rx # t.tx
  BY <1>3, SimpleTail
<1>5. /\ net.slotsPerTile \in Nat \ {0}
      /\ t.period \in Nat \ {0} /\ t.tx \in Nat /\ t.rx \in Nat
      /\ t.stream \in Nat /\ t.src \in Nat /\ t.dst \in Nat
  BY <1>1, <1>4, NetworkParts DEF Transmissions
<1>6. /\ o \in Nat /\ last_offset <= o
      /\ o < PeriodSlots(net, t)
      /\ DataSlot(net, o)
      /\ o \in {p \in Candidates(t) : p <= o}
  <2>1. PeriodSlots(net, t) \in Nat
    BY <1>5 DEF PeriodSlots
  <2>2. o \in last_offset..(MaxOffset(net, t) - 1) /\ DataSlot(net, o) /\ o \in Candidates(t)
    BY <1>2 DEF Free, Candidates
  <2> QED
    BY <1>3, <2>1, <2>2 DEF MaxOffset
<1>7. /\ new \in Placements
      /\ new.tx = t.tx /\ new.rx = t.rx /\ new.period = t.period
      /\ new.offset = o /\ new.blk = blk
  BY <1>3, <1>5, <1>6 DEF Placed, Placements
<1>8. PeriodSlots(net, new) = PeriodSlots(net, t)
  BY <1>7 DEF PeriodSlots
<1> HIDE DEF t, new, told
<1>9. Elements' = Elements \cup {new}
  BY <1>2, <1>3, AppendedElement DEF new, t
<1>10. Elements \subseteq Placements
  BY <1>1, ElementsTyped
<1>11. AllocTypeOK'
  <2>1. Append(scheduled_transmissions, new) \in Seq(Placements)
    BY <1>3, <1>7
  <2>2. Lcm(newSize, t.period) \in Nat \ {0}
    BY <1>3, <1>5, LcmIsMultiple
  <2> QED
    BY <1>1, <1>2, <1>3, <1>4, <1>6, <2>1, <2>2 DEF PlaceTransmission, AllocTypeOK, new, t
<1>12. BlocksRouted'
  BY <1>1, <1>3, <1>4 DEF BlocksRouted
<1>13. OffsetsInPeriod'
  <2>1. \A e \in Elements' :
            e.offset < PeriodSlots(net, e) /\ DataSlot(net, e.offset) /\ e.tx # e.rx
    BY <1>1, <1>4, <1>6, <1>7, <1>8, <1>9 DEF OffsetsInPeriod
  <2> QED
    BY <1>3, <2>1 DEF OffsetsInPeriod, PeriodSlots, DataSlot, ControlSlots
<1>14. \A f \in Elements : SlotConflict(net, new, o, f) =>
            /\ Compatible(new, f)
            /\ OrderLink(new.tx, f.rx) \in told /\ OrderLink(new.rx, f.tx) \in told
  <2> SUFFICES ASSUME NEW f \in Elements, SlotConflict(net, new, o, f)
               PROVE  /\ Compatible(new, f)
                      /\ OrderLink(new.tx, f.rx) \in told /\ OrderLink(new.rx, f.tx) \in told
    OBVIOUS
  <2>1. SlotConflict(net, t, o, f)
    BY <1>7 DEF SlotConflict, PeriodSlots
  <2>2. /\ Compatible(t, f)
        /\ OrderLink(t.tx, f.rx) \in told /\ OrderLink(t.rx, f.tx) \in told
    BY <1>1, <1>2, <1>4, <1>6, <2>1, FreeSlot DEF told, t
  <2> QED
    BY <1>7, <2>2 DEF Compatible
<1>15. \A e \in Elements : SlotConflict(net, e, e.offset, new) => SlotConflict(net, new, o, e)
  <2> SUFFICES ASSUME NEW e \in Elements, SlotConflict(net, e, e.offset, new)
               PROVE  SlotConflict(net, new, o, e)
    OBVIOUS
  <2>1. e \in Placements /\ e.offset < PeriodSlots(net, e)
    BY <1>1, <1>10 DEF OffsetsInPeriod
  <2>2. new.offset < PeriodSlots(net, new)
    BY <1>6, <1>7, <1>8
  <2>3. SlotConflict(net, new, new.offset, e)
    BY <1>5, <1>7, <2>1, <2>2, ConflictSymmetric
  <2> QED
    BY <1>7, <2>3
<1>16. MeetingCompatible'
  <2> SUFFICES ASSUME NEW e \in Elements', NEW f \in Elements' \ {e},
                      SlotConflict(net, e, e.offset, f)
               PROVE  Compatible(e, f)'
    BY <1>3 DEF MeetingCompatible
  <2>1. CASE e \in Elements /\ f \in Elements
    BY <1>1, <2>1, <1>3 DEF MeetingCompatible, Compatible
  <2>2. CASE e = new /\ f \in Elements
    BY <1>3, <1>7, <1>14, <2>2 DEF Compatible
  <2>3. CASE e \in Elements /\ f = new
    <3>1. Compatible(new, e)
      BY <1>14, <1>15, <2>3
    <3>2. Compatible(e, new)
      BY <3>1, CompatibleSymmetric
    <3> QED
      BY <1>3, <2>3, <3>2 DEF Compatible
  <2> QED
    BY <1>9, <2>1, <2>2, <2>3
<1>17. MeetingTold'
  <2> SUFFICES ASSUME NEW e \in Elements', NEW f \in Elements' \ {e},
                      SlotConflict(net, e, e.offset, f)
               PROVE  /\ OrderLink(e.tx, f.rx) \in linksCausingInterference'
                      /\ OrderLink(e.rx, f.tx) \in linksCausingInterference'
    BY <1>3 DEF MeetingTold
  <2>1. linksCausingInterference' = linksCausingInterference \cup told
    BY <1>2 DEF told, t
  <2>2. CASE e \in Elements /\ f \in Elements
    BY <1>1, <2>1, <2>2 DEF MeetingTold
  <2>3. CASE e = new /\ f \in Elements
    BY <1>7, <1>14, <2>1, <2>3
  <2>4. CASE e \in Elements /\ f = new
    <3>1. OrderLink(new.tx, e.rx) \in told /\ OrderLink(new.rx, e.tx) \in told
      BY <1>14, <1>15, <2>4
    <3>2. /\ OrderLink(e.tx, new.rx) = OrderLink(new.rx, e.tx)
          /\ OrderLink(e.rx, new.tx) = OrderLink(new.tx, e.rx)
      <4>1. e.tx \in Nat /\ e.rx \in Nat /\ new.tx \in Nat /\ new.rx \in Nat
        BY <1>7, <1>10, <2>4 DEF Placements
      <4> QED
        BY <4>1, OrderLinkSymmetric
    <3> QED
      BY <2>1, <2>4, <3>1, <3>2
  <2> QED
    BY <1>9, <2>2, <2>3, <2>4
<1>18. \A e \in Elements : e.blk = blk =>
            e.offset < last_offset /\ t.rx # e.tx /\ \A i \in DOMAIN Tail(todo) : Tail(todo)[i].rx # e.tx
  <2>1. /\ 1 \in DOMAIN todo
        /\ \A i \in DOMAIN Tail(todo) : i + 1 \in DOMAIN todo /\ Tail(todo)[i] = todo[i + 1]
    BY <1>3, HeadAndTail
  <2> QED
    BY <1>1, <1>3, <1>4, <2>1 DEF BlockInOrder
<1>19. BlockInOrder'
  <2>1. \A e \in Elements' : e.blk <= blk'
    BY <1>1, <1>3, <1>7, <1>9 DEF BlockInOrder
  <2>2. block_size' <= Len(scheduled_transmissions')
    <3>1. block_size <= Len(scheduled_transmissions)
      BY <1>1, <1>3 DEF BlockInOrder
    <3>2. Len(Append(scheduled_transmissions, new)) = Len(scheduled_transmissions) + 1
      BY <1>3
    <3> QED
      BY <1>2, <1>3, <3>1, <3>2 DEF new, t
  <2>3. \A e \in Elements' : e.blk = blk' =>
            e.offset < last_offset' /\ \A i \in DOMAIN todo' : todo'[i].rx # e.tx
    <3> SUFFICES ASSUME NEW e \in Elements', e.blk = blk
                 PROVE  e.offset < last_offset' /\ \A i \in DOMAIN todo' : todo'[i].rx # e.tx
      BY <1>3
    <3>1. CASE e = new
      BY <1>2, <1>3, <1>4, <1>6, <1>7, <3>1
    <3>2. CASE e \in Elements
      <4>1. e.offset \in Nat
        BY <1>10, <3>2 DEF Placements
      <4> QED
        BY <1>2, <1>3, <1>6, <1>18, <3>2, <4>1
    <3> QED
      BY <1>9, <3>1, <3>2
  <2> QED
    BY <2>1, <2>2, <2>3 DEF BlockInOrder
<1>20. HopsFollow'
  <2>1. \A e \in Elements' : e.offset < PeriodSlots(net', e)
    BY <1>13 DEF OffsetsInPeriod
  <2>2. \A e, f \in Elements' : e.blk = f.blk /\ e.rx = f.tx => e.offset < f.offset
    <3> SUFFICES ASSUME NEW e \in Elements', NEW f \in Elements', e.blk = f.blk, e.rx = f.tx
                 PROVE  e.offset < f.offset
      OBVIOUS
    <3>1. CASE e \in Elements /\ f \in Elements
      BY <1>1, <3>1 DEF HopsFollow
    <3>2. CASE e = new
      BY <1>4, <1>7, <1>9, <1>18, <3>2
    <3>3. CASE e \in Elements /\ f = new
      <4>1. e.offset \in Nat /\ e.offset < last_offset
        BY <1>7, <1>10, <1>18, <3>3 DEF Placements
      <4> QED
        BY <1>3, <1>6, <1>7, <3>3, <4>1
    <3> QED
      BY <1>9, <3>1, <3>2, <3>3
  <2> QED
    BY <2>1, <2>2 DEF HopsFollow
<1> QED
  BY <1>11, <1>12, <1>13, <1>16, <1>17, <1>19, <1>20 DEF AllocInv
LEMMA StepInv ==
    ASSUME AllocInv, [AllocNext]_<<net, allocVars>>
    PROVE  AllocInv'
<1>1. CASE NextBlock
  BY <1>1, NextBlockInv
<1>2. CASE PlaceTransmission
  BY <1>2, PlaceTransmissionInv
<1>3. CASE SkipTransmission
  BY <1>3, SkipTransmissionInv
<1>4. CASE UndoBlock
  BY <1>4, UndoBlockInv
<1>5. CASE NextStage
  BY <1>5, NextStageInv
<1>6. CASE UNCHANGED <<net, allocVars>>
  <2>1. AllocTypeOK' /\ BlocksRouted' /\ BlockInOrder'
    BY <1>6 DEF allocVars, AllocInv, AllocTypeOK, BlocksRouted, BlockInOrder, Elements
  <2>2. Elements' = Elements
    BY <1>6 DEF allocVars, Elements
  <2> QED
    BY <1>6, <2>1, <2>2, FewerElements DEF allocVars, AllocInv
<1> QED
  BY <1>1, <1>2, <1>3, <1>4, <1>5, <1>6 DEF AllocNext

\* The inductive invariant of scheduleStreams: types, where a block stands, and
\* that all transmissions placed so far were compared with each other.
THEOREM AllocInductive == AllocSpec => []AllocInv
  BY InitInv, StepInv, PTL DEF AllocSpec

-----------------------------------------------------------------------------
(***************************************************************************)
(* The properties.                                                         *)
(***************************************************************************)
\* The slots of an element, by their number.
LEMMA UsesSeries ==
    ASSUME NEW e, e.offset \in Nat, PeriodSlots(net, e) \in Nat \ {0},
           NEW k \in Nat, Uses(e, k)
    PROVE  \E i \in Nat : k = e.offset + i * PeriodSlots(net, e)
<1>1. PICK P \in Nat \ {0} : P = PeriodSlots(net, e)
  OBVIOUS
<1>2. PICK o \in Nat : o = e.offset
  OBVIOUS
<1>3. k >= o /\ (k - o) % P = 0
  BY <1>1, <1>2 DEF Uses
<1>4. \E i \in Nat : k = o + i * P
  BY <1>3, UsesNumber
<1> QED
  BY <1>1, <1>2, <1>4

\* Transmissions that both use some slot of the schedule, however often it is
\* played, are ones that checkSlotConflict finds.
LEMMA UsersConflict ==
    ASSUME AllocInv, NEW e \in Elements, NEW f \in Elements,
           NEW k \in Nat, Uses(e, k), Uses(f, k)
    PROVE  SlotConflict(net, e, e.offset, f)
<1>1. AllocTypeOK /\ OffsetsInPeriod
  BY DEF AllocInv
<1>2. net.slotsPerTile \in Nat \ {0}
  BY <1>1, NetworkParts
<1>3. /\ e.period \in Nat \ {0} /\ f.period \in Nat \ {0}
      /\ e.offset \in Nat /\ f.offset \in Nat
  BY <1>1, ElementsTyped DEF Placements
<1>4. e.offset < PeriodSlots(net, e) /\ f.offset < PeriodSlots(net, f)
  BY <1>1 DEF OffsetsInPeriod
<1>5. PeriodSlots(net, e) \in Nat \ {0} /\ PeriodSlots(net, f) \in Nat \ {0}
  BY <1>2, <1>3, Product DEF PeriodSlots
<1>6. \E i \in Nat : k = e.offset + i * PeriodSlots(net, e)
  BY <1>3, <1>5, UsesSeries
<1>7. \E j \in Nat : k = f.offset + j * PeriodSlots(net, f)
  BY <1>3, <1>5, UsesSeries
<1>8. MeetSomewhere(e.offset, PeriodSlots(net, e), f.offset, PeriodSlots(net, f))
  BY <1>6, <1>7 DEF MeetSomewhere
<1>9. e.offset \in 0..(PeriodSlots(net, e) - 1) /\ f.offset \in 0..(PeriodSlots(net, f) - 1)
  BY <1>3, <1>4, <1>5
<1> QED
  BY <1>2, <1>3, <1>8, <1>9, MeetingIsFound

\* The slots of the schedule played once are numbers.
LEMMA SlotNumbers ==
    ASSUME AllocInv, NEW e
    PROVE  SlotsOf(e) \subseteq Nat /\ \A k \in SlotsOf(e) : Uses(e, k)
<1>1. newSize \in Nat /\ net.slotsPerTile \in Nat
  BY NetworkParts DEF AllocInv, AllocTypeOK
<1>2. newSize * net.slotsPerTile \in Nat
  BY <1>1
<1> QED
  BY <1>2 DEF SlotsOf

\* checkAllConflicts: no slot is given to transmissions that disturb each other,
\* for any topology, any streams, any periods and any number of rounds of the
\* superframe.
THEOREM SlotsDisjointTheorem == AllocSpec => []SlotsDisjoint
<1>1. AllocInv => SlotsDisjoint
  <2> SUFFICES ASSUME AllocInv, NEW e \in Elements, NEW k \in SlotsOf(e),
                      NEW f \in Elements \ {e}, Uses(f, k)
               PROVE  Compatible(e, f)
    BY DEF SlotsDisjoint
  <2>1. k \in Nat /\ Uses(e, k)
    BY SlotNumbers
  <2>2. SlotConflict(net, e, e.offset, f)
    BY <2>1, UsersConflict
  <2> QED
    BY <2>2 DEF AllocInv, MeetingCompatible
<1> QED
  BY <1>1, AllocInductive, PTL

\* linksCausingInterference: the topology is told every link that would make two
\* transmissions of one slot disturb each other.
THEOREM LinksToldTheorem == AllocSpec => []InterferenceLinksTold
<1>1. AllocInv => InterferenceLinksTold
  <2> SUFFICES ASSUME AllocInv, NEW e \in Elements, NEW k \in SlotsOf(e),
                      NEW f \in Elements \ {e}, Uses(f, k)
               PROVE  /\ OrderLink(e.tx, f.rx) \in linksCausingInterference
                      /\ OrderLink(e.rx, f.tx) \in linksCausingInterference
    BY DEF InterferenceLinksTold
  <2>1. k \in Nat /\ Uses(e, k)
    BY SlotNumbers
  <2>2. SlotConflict(net, e, e.offset, f)
    BY <2>1, UsersConflict
  <2> QED
    BY <2>2 DEF AllocInv, MeetingTold
<1> QED
  BY <1>1, AllocInductive, PTL

\* last_offset: a packet makes all hops of its block within the period, in
\* order, whatever was skipped on the way.
THEOREM HopsFollowTheorem == AllocSpec => []HopsFollow
<1>1. AllocInv => HopsFollow
  BY DEF AllocInv
<1> QED
  BY <1>1, AllocInductive, PTL

\* The slots of a transmission whose period is a multiple of the superframe are
\* at the same place of the superframe, where checkDataSlot found the first one.
LEMMA SamePlace ==
    ASSUME NEW S \in Nat \ {0}, NEW M \in Nat \ {0}, NEW p \in Nat \ {0}, p % M = 0,
           NEW o \in Nat, NEW i \in Nat, NEW k \in Nat, k = o + i * (p * S)
    PROVE  /\ k % S = o % S
           /\ (k \div S) % M = (o \div S) % M
<1>1. PICK q, r : q = o \div S /\ r = o % S
  OBVIOUS
<1>2. q \in Nat /\ r \in 0..(S - 1) /\ o = S * q + r
  BY <1>1, DivMod
<1>3. PICK z \in Nat : p = M * z
  <2>1. PICK d : d = p \div M
    OBVIOUS
  <2>2. d \in Nat /\ p = M * d + 0
    BY <2>1, DivMod
  <2> QED
    BY <2>2
<1>4. PICK t \in Nat : t = q + i * p
  <2>1. q + i * p \in Nat
    BY <1>2
  <2> QED
    BY <2>1
<1>5. k = S * t + r
  <2>1. i * (p * S) = S * (i * p)
    OBVIOUS
  <2>2. S * (q + i * p) = S * q + S * (i * p)
    BY <1>2
  <2> QED
    BY <1>2, <1>4, <2>1, <2>2
<1>6. k % S = r /\ k \div S = t
  <2>1. (S * t + r) % S = r /\ (S * t + r) \div S = t
    BY <1>2, <1>4, DivModUnique
  <2> QED
    BY <1>5, <2>1
<1>7. PICK a, b : a = q \div M /\ b = q % M
  OBVIOUS
<1>8. a \in Nat /\ b \in 0..(M - 1) /\ q = M * a + b
  BY <1>2, <1>7, DivMod
<1>9. PICK c \in Nat : c = a + i * z
  <2>1. a + i * z \in Nat
    BY <1>3, <1>8
  <2> QED
    BY <2>1
<1>10. t = M * c + b
  <2>1. PICK y \in Nat : y = i * z
    BY <1>3
  <2>2. i * p = M * y
    BY <1>3, <2>1
  <2>3. M * (a + y) = M * a + M * y
    BY <1>8
  <2> QED
    BY <1>4, <1>8, <1>9, <2>1, <2>2, <2>3
<1>11. t % M = b
  BY <1>8, <1>9, <1>10, DivModUnique
<1> QED
  BY <1>1, <1>2, <1>6, <1>7, <1>11

\* A slot is in the control phase of its own tile only.
LEMMA TileOfSlot ==
    ASSUME NEW S \in Nat \ {0}, NEW k \in Nat, NEW tile \in Nat,
           NEW c \in 0..S, tile * S <= k, k < tile * S + c
    PROVE  k \div S = tile /\ k % S < c
<1>1. PICK r \in Nat : r = k - tile * S
  BY Product
<1>2. k = S * tile + r /\ r < c /\ r \in 0..(S - 1)
  BY <1>1
<1> QED
  BY <1>2, DivModUnique

\* checkDataSlot: a stream whose period is a multiple of the control superframe
\* has no transmission in a control slot.
THEOREM ControlSlotsTheorem == AllocSpec => []ControlSlotsFree
<1>1. AllocInv => ControlSlotsFree
  <2> SUFFICES ASSUME AllocInv, NEW e \in Elements, NEW k \in SlotsOf(e),
                      e.period % Size(net) = 0, NEW tile \in 0..newSize,
                      tile * net.slotsPerTile <= k,
                      k < tile * net.slotsPerTile + ControlSlots(net, tile)
               PROVE  FALSE
    BY DEF ControlSlotsFree, InControlPhase, ControlSlots
  <2> DEFINE S == net.slotsPerTile
             M == Size(net)
             o == e.offset
             c == ControlSlots(net, tile)
  <2>1. AllocTypeOK /\ OffsetsInPeriod
    BY DEF AllocInv
  <2>2. /\ S \in Nat \ {0} /\ M \in Nat \ {0}
        /\ c \in 0..S
    BY <2>1, NetworkParts DEF ControlSlots
  <2>3. e.period \in Nat \ {0} /\ o \in Nat /\ tile \in Nat
    BY <2>1, ElementsTyped DEF Placements, AllocTypeOK
  <2>4. k \in Nat /\ Uses(e, k)
    BY SlotNumbers
  <2>5. PICK i \in Nat : k = o + i * (e.period * S)
    <3>1. e.period * S \in Nat \ {0}
      BY <2>2, <2>3, Product
    <3> QED
      BY <2>3, <2>4, <3>1, UsesNumber DEF Uses, PeriodSlots
  <2>6. k \div S = tile /\ k % S < c
    <3> HIDE DEF S, c
    <3>1. tile * S <= k /\ k < tile * S + c
      BY DEF S, c
    <3> QED
      BY <2>2, <2>3, <2>4, <3>1, TileOfSlot
  <2>7. k % S = o % S /\ (k \div S) % M = (o \div S) % M
    <3> HIDE DEF S, M, o
    <3>1. e.period % M = 0
      BY DEF M
    <3> QED
      BY <2>2, <2>3, <2>4, <2>5, <3>1, SamePlace
  <2>8. o % S >= ControlSlots(net, o \div S)
    BY <2>1 DEF OffsetsInPeriod, DataSlot
  <2>9. ControlSlots(net, o \div S) = c
    BY <2>6, <2>7 DEF ControlSlots, DownlinkTile
  <2>10. o % S \in Nat
    <3> HIDE DEF S, o
    <3>1. o % S \in 0..(S - 1)
      BY <2>2, <2>3, DivMod
    <3> QED
      BY <2>2, <3>1
  <2> QED
    BY <2>2, <2>6, <2>7, <2>8, <2>9, <2>10
<1> QED
  BY <1>1, AllocInductive, PTL
=============================================================================
