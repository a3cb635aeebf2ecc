------------------------ MODULE StreamManager_proofs ------------------------
(***************************************************************************)
(* What one node's streams and servers keep, whatever the application, the *)
(* MAC thread and the network do in whatever order: the queue of SMEs, and *)
(* the theorems.                                                           *)
(***************************************************************************)
EXTENDS StreamManagerSteps_proofs

-----------------------------------------------------------------------------
(***************************************************************************)
(* The SME queue.                                                          *)
(***************************************************************************)
\* What is queued for an SME.
Queued(sme) == [key |-> GetKey(sme), val |-> sme]

\* Enqueue puts the new element in and takes only one of the same key away
\* (UpdatableQueue::enqueue).
LEMMA EnqueueOne ==
    ASSUME NEW E, NEW q \in Seq(E), NEW k, NEW v, UniqueKeys(q)
    PROVE  /\ Enqueue(q, k, v) \in Seq(E \cup {[key |-> k, val |-> v]})
           /\ UniqueKeys(Enqueue(q, k, v))
           /\ \A i \in 1..Len(Enqueue(q, k, v)) :
                 \/ Enqueue(q, k, v)[i] = [key |-> k, val |-> v]
                 \/ /\ i \in 1..Len(q)
                    /\ Enqueue(q, k, v)[i] = q[i]
                    /\ q[i].key # k
<1> DEFINE F == E \cup {[key |-> k, val |-> v]}
<1>1. CASE HasKey(q, k)
  <2>1. Enqueue(q, k, v) = ReplaceVal(q, k, v)
    BY <1>1 DEF Enqueue
  <2>2. PICK r : r = ReplaceVal(q, k, v)
    OBVIOUS
  <2>3. /\ r \in Seq(F)
        /\ Len(r) = Len(q)
        /\ \A i \in 1..Len(q) : r[i] = IF q[i].key = k THEN [key |-> k, val |-> v] ELSE q[i]
    BY <2>2 DEF ReplaceVal
  <2>4. \A i \in 1..Len(q) : r[i].key = q[i].key
    BY <2>3
  <2>5. UniqueKeys(r)
    BY <2>3, <2>4 DEF UniqueKeys
  <2> QED
    BY <2>1, <2>2, <2>3, <2>5
<1>2. CASE ~HasKey(q, k)
  <2>1. Enqueue(q, k, v) = Append(q, [key |-> k, val |-> v])
    BY <1>2 DEF Enqueue
  <2>2. \A i \in 1..Len(q) : q[i].key # k
    BY <1>2 DEF HasKey
  <2>3. /\ Append(q, [key |-> k, val |-> v]) \in Seq(F)
        /\ Len(Append(q, [key |-> k, val |-> v])) = Len(q) + 1
        /\ \A i \in 1..Len(q) : Append(q, [key |-> k, val |-> v])[i] = q[i]
        /\ Append(q, [key |-> k, val |-> v])[Len(q) + 1] = [key |-> k, val |-> v]
    <3>1. q \in Seq(F)
      OBVIOUS
    <3> QED
      BY <3>1
  <2> QED
    BY <2>1, <2>2, <2>3 DEF UniqueKeys
<1> QED
  BY <1>1, <1>2

\* f is the sequence of queues while the first n of smes are enqueued.
QueueSteps(q, smes, n, f) ==
    f = [i \in 0..n |-> IF i = 0 THEN q ELSE EnqueueSME(f[i - 1], smes[i])]

LEMMA EnqueueSteps ==
    ASSUME NEW q, NEW smes, NEW N \in Nat
    PROVE  \E f : QueueSteps(q, smes, N, f)
<1> USE DEF QueueSteps
<1> DEFINE Steps(f, n) == QueueSteps(q, smes, n, f)
           Missing == {n \in Nat : ~ \E f : Steps(f, n)}
<1>1. SUFFICES ASSUME Missing # {} PROVE FALSE
  OBVIOUS
<1>2. PICK n \in Missing : \A m \in Missing : n <= m
  <2> HIDE DEF Missing
  <2>1. Missing \subseteq Nat
    BY DEF Missing
  <2> QED
    BY <1>1, <2>1, LeastNumber
<1>3. CASE n = 0
  <2>1. Steps([i \in 0..0 |-> q], 0)
    OBVIOUS
  <2> QED
    BY <1>3, <2>1
<1>4. CASE n # 0
  <2>1. PICK f : Steps(f, n - 1)
    <3>1. n - 1 \in Nat /\ ~ (n <= n - 1)
      BY <1>2, <1>4
    <3>2. n - 1 \notin Missing
      BY <1>2, <3>1
    <3> QED
      BY <3>1, <3>2
  <2> DEFINE g == [i \in 0..n |-> IF i = n THEN EnqueueSME(f[n - 1], smes[n]) ELSE f[i]]
  <2>2. \A i \in 0..(n - 1) : f[i] = IF i = 0 THEN q ELSE EnqueueSME(f[i - 1], smes[i])
    BY <2>1
  <2>3. \A i \in 0..n : g[i] = IF i = 0 THEN q ELSE EnqueueSME(g[i - 1], smes[i])
    <3> SUFFICES ASSUME NEW i \in 0..n
                 PROVE  g[i] = IF i = 0 THEN q ELSE EnqueueSME(g[i - 1], smes[i])
      OBVIOUS
    <3>1. CASE i = n
      <4>1. g[i - 1] = f[n - 1] /\ g[i] = EnqueueSME(f[n - 1], smes[n])
        BY <1>2, <1>4, <3>1
      <4> QED
        BY <1>4, <3>1, <4>1
    <3>2. CASE i # n
      <4>1. /\ i \in 0..(n - 1) /\ g[i] = f[i]
            /\ i # 0 => g[i - 1] = f[i - 1]
        BY <1>2, <3>2
      <4> QED
        BY <2>2, <4>1
    <3> QED
      BY <3>1, <3>2
  <2>4. Steps(g, n)
    <3> DEFINE h == [i \in 0..n |-> IF i = 0 THEN q ELSE EnqueueSME(g[i - 1], smes[i])]
    <3>1. g = h
      BY <2>3
    <3> QED
      BY <3>1
  <2> QED
    BY <1>2, <2>4
<1> QED
  BY <1>3, <1>4

\* Enqueueing SMEs one after the other leaves one element per key, each an
\* element of the queue before or one of the SMEs under its key.
LEMMA EnqueueOfAll ==
    ASSUME NEW E, NEW q \in Seq(E), UniqueKeys(q), NEW smes, Len(smes) \in Nat
    PROVE  /\ EnqueueSMEs(q, smes) \in
                 Seq(E \cup {Queued(smes[i]) : i \in 1..Len(smes)})
           /\ UniqueKeys(EnqueueSMEs(q, smes))
<1>0. PICK N : N \in Nat /\ N = Len(smes)
  OBVIOUS
<1> DEFINE F == E \cup {Queued(smes[i]) : i \in 1..Len(smes)}
           after == CHOOSE f : f = [n \in 0..Len(smes) |->
                       IF n = 0 THEN q ELSE EnqueueSME(f[n - 1], smes[n])]
           Good(n) == after[n] \in Seq(F) /\ UniqueKeys(after[n])
           Bad == {n \in 0..Len(smes) : ~Good(n)}
<1>1. after = [n \in 0..Len(smes) |->
                 IF n = 0 THEN q ELSE EnqueueSME(after[n - 1], smes[n])]
  <2>1. PICK f : QueueSteps(q, smes, N, f)
    BY <1>0, EnqueueSteps
  <2>2. f = [n \in 0..Len(smes) |-> IF n = 0 THEN q ELSE EnqueueSME(f[n - 1], smes[n])]
    BY <1>0, <2>1 DEF QueueSteps
  <2> QED
    BY <2>2
<1>2. EnqueueSMEs(q, smes) = after[Len(smes)]
  BY DEF EnqueueSMEs
<1>3. \A n \in 0..Len(smes) :
        after[n] = IF n = 0 THEN q ELSE EnqueueSME(after[n - 1], smes[n])
  <2> HIDE DEF after
  <2> QED
    BY <1>1
<1> HIDE DEF after
<1>4. SUFFICES ASSUME Bad # {} PROVE FALSE
  BY <1>2
<1>5. PICK n \in Bad : \A m \in Bad : n <= m
  <2> HIDE DEF Bad
  <2>1. Bad \subseteq Nat
    BY DEF Bad
  <2> QED
    BY <1>4, <2>1, LeastNumber
<1>6. CASE n = 0
  BY <1>3, <1>5, <1>6
<1>7. CASE n # 0
  <2>1. n - 1 \in 0..Len(smes) /\ Good(n - 1) /\ n \in 1..Len(smes)
    BY <1>5, <1>7
  <2>2. after[n] = Enqueue(after[n - 1], GetKey(smes[n]), smes[n])
    BY <1>3, <1>7, <2>1 DEF EnqueueSME
  <2>3. F \cup {[key |-> GetKey(smes[n]), val |-> smes[n]]} = F
    BY <2>1 DEF Queued
  <2>4. Good(n)
    <3>1. PICK a, k, v, G : a = after[n - 1] /\ k = GetKey(smes[n]) /\ v = smes[n] /\ G = F
      OBVIOUS
    <3>2. a \in Seq(G) /\ UniqueKeys(a)
      BY <2>1, <3>1
    <3>3. Enqueue(a, k, v) \in Seq(G \cup {[key |-> k, val |-> v]}) /\ UniqueKeys(Enqueue(a, k, v))
      BY <3>2, EnqueueOne
    <3>4. after[n] = Enqueue(a, k, v) /\ G \cup {[key |-> k, val |-> v]} = G
      BY <2>2, <2>3, <3>1
    <3>5. after[n] \in Seq(G) /\ UniqueKeys(after[n])
      BY <3>3, <3>4
    <3> QED
      BY <3>1, <3>5
  <2> QED
    BY <1>5, <2>4
<1> QED
  BY <1>6, <1>7

-----------------------------------------------------------------------------
(***************************************************************************)
(* The SMEs that a step sends.                                             *)
(***************************************************************************)
\* A finite set as a sequence.
LEMMA SetInSeq ==
    ASSUME NEW S, IsFiniteSet(S)
    PROVE  SetToSeq(S) \in Seq(S)
<1>1. PICK n \in Nat : n = Cardinality(S)
  BY FS_CardinalityType
<1>2. \E f \in [1..n -> S] : IsInjective(f)
  <2>1. PICK f \in Bijection(1..n, S) : TRUE
    BY <1>1, FS_CardinalityType DEF ExistsBijection
  <2>2. f \in [1..n -> S] /\ \A a, b \in 1..n : f[a] = f[b] => a = b
    BY <2>1 DEF Bijection, Injection, IsInjective
  <2> QED
    BY <2>2 DEF IsInjective
<1>3. SetToSeq(S) \in [1..n -> S]
  BY <1>1, <1>2 DEF SetToSeq
<1> QED
  BY <1>1, <1>3

\* The SMEs of the streams pending on a server that is closed.
LEMMA ConcatSteps ==
    ASSUME NEW N \in Nat, NEW tail
    PROVE  \E sent : sent = [n \in 0..N |-> IF n = 0 THEN << >> ELSE sent[n - 1] \o tail[n]]
<1> DEFINE Steps(f, n) == f = [i \in 0..n |-> IF i = 0 THEN << >> ELSE f[i - 1] \o tail[i]]
           Missing == {n \in Nat : ~ \E f : Steps(f, n)}
<1>1. SUFFICES ASSUME Missing # {} PROVE FALSE
  OBVIOUS
<1>2. PICK n \in Missing : \A m \in Missing : n <= m
  <2> HIDE DEF Missing
  <2>1. Missing \subseteq Nat
    BY DEF Missing
  <2> QED
    BY <1>1, <2>1, LeastNumber
<1>3. CASE n = 0
  <2>1. Steps([i \in 0..0 |-> << >>], 0)
    OBVIOUS
  <2> QED
    BY <1>3, <2>1
<1>4. CASE n # 0
  <2>1. PICK f : Steps(f, n - 1)
    <3> HIDE DEF Steps
    <3>1. n - 1 \in Nat /\ n - 1 < n
      BY <1>2, <1>4
    <3> QED
      BY <1>2, <3>1
  <2> DEFINE g == [i \in 0..n |-> IF i = n THEN f[n - 1] \o tail[n] ELSE f[i]]
  <2>2. \A i \in 0..(n - 1) : f[i] = IF i = 0 THEN << >> ELSE f[i - 1] \o tail[i]
    BY <2>1
  <2>3. \A i \in 0..n : g[i] = IF i = 0 THEN << >> ELSE g[i - 1] \o tail[i]
    <3> SUFFICES ASSUME NEW i \in 0..n
                 PROVE  g[i] = IF i = 0 THEN << >> ELSE g[i - 1] \o tail[i]
      OBVIOUS
    <3>1. CASE i = n
      <4>1. g[i - 1] = f[n - 1] /\ g[i] = f[n - 1] \o tail[n]
        BY <1>2, <1>4, <3>1
      <4> QED
        BY <1>4, <3>1, <4>1
    <3>2. CASE i # n
      <4>1. /\ i \in 0..(n - 1) /\ g[i] = f[i]
            /\ i # 0 => g[i - 1] = f[i - 1]
        BY <1>2, <3>2
      <4> QED
        BY <2>2, <4>1
    <3> QED
      BY <3>1, <3>2
  <2>4. Steps(g, n)
    <3> DEFINE h == [i \in 0..n |-> IF i = 0 THEN << >> ELSE g[i - 1] \o tail[i]]
    <3>1. g = h
      BY <2>3
    <3> QED
      BY <3>1
  <2> QED
    BY <1>2, <2>4
<1> QED
  BY <1>3, <1>4

LEMMA PendingSMEsType ==
    ASSUME NEW fd, NEW S, endpoints[fd].pendingAccept \in Seq(S)
    PROVE  PendingSMEs(fd) \in
              Seq({Sme(endpoints[f].id, "CLOSED") : f \in Range(endpoints[fd].pendingAccept)})
<1>0. PICK pending, Words :
        /\ pending = endpoints[fd].pendingAccept
        /\ Words = {Sme(endpoints[f].id, "CLOSED") : f \in Range(pending)}
  OBVIOUS
<1>1. PICK N \in Nat : N = Len(pending) /\ DOMAIN pending = 1..N
  BY <1>0
<1>2. PICK tail : tail = [n \in 1..N |-> ClosedServerSMEs(endpoints[pending[n]])]
  OBVIOUS
<1>3. \A n \in 1..N : tail[n] \in Seq(Words)
  <2> SUFFICES ASSUME NEW n \in 1..N PROVE tail[n] \in Seq(Words)
    OBVIOUS
  <2>1. PICK w : w = Sme(endpoints[pending[n]].id, "CLOSED")
    OBVIOUS
  <2>2. pending[n] \in Range(pending)
    BY <1>1 DEF Range
  <2>3. w \in Words
    BY <1>0, <2>1, <2>2
  <2>4. tail[n] = << >> \/ tail[n] = <<w>>
    BY <1>2, <2>1 DEF ClosedServerSMEs
  <2>5. << >> \in Seq(Words) /\ <<w>> \in Seq(Words)
    BY <2>3
  <2> QED
    BY <2>4, <2>5
<1> DEFINE sent == CHOOSE s : s = [n \in 0..N |->
                      IF n = 0 THEN << >>
                      ELSE s[n - 1] \o ClosedServerSMEs(endpoints[pending[n]])]
           Bad == {n \in 0..N : sent[n] \notin Seq(Words)}
<1>4. sent = [n \in 0..N |-> IF n = 0 THEN << >>
                             ELSE sent[n - 1] \o ClosedServerSMEs(endpoints[pending[n]])]
  <2>1. PICK s : s = [n \in 0..N |-> IF n = 0 THEN << >> ELSE s[n - 1] \o tail[n]]
    BY ConcatSteps
  <2>2. \A n \in 0..N : n # 0 => tail[n] = ClosedServerSMEs(endpoints[pending[n]])
    BY <1>2
  <2>3. s = [n \in 0..N |-> IF n = 0 THEN << >>
                            ELSE s[n - 1] \o ClosedServerSMEs(endpoints[pending[n]])]
    BY <2>1, <2>2
  <2> QED
    BY <2>3
<1>5. PendingSMEs(fd) = sent[N]
  BY <1>0, <1>1 DEF PendingSMEs
<1>6. sent[0] = << >> /\ \A n \in 1..N : sent[n] = sent[n - 1] \o tail[n]
  <2> HIDE DEF sent
  <2>1. 0 \in 0..N /\ \A n \in 1..N : n \in 0..N /\ n # 0
    BY <1>1
  <2>2. \A n \in 1..N : ClosedServerSMEs(endpoints[pending[n]]) = tail[n]
    BY <1>2
  <2>3. \A n \in 0..N : sent[n] = IF n = 0 THEN << >>
                                  ELSE sent[n - 1] \o ClosedServerSMEs(endpoints[pending[n]])
    BY <1>4
  <2> QED
    BY <2>1, <2>2, <2>3
<1> HIDE DEF sent
<1>7. SUFFICES ASSUME Bad # {} PROVE FALSE
  <2>1. ASSUME Bad = {} PROVE PendingSMEs(fd) \in Seq(Words)
    BY <1>1, <1>5, <2>1
  <2> QED
    BY <1>0, <2>1
<1>8. PICK n \in Bad : \A m \in Bad : n <= m
  <2>1. Bad \subseteq Nat
    BY <1>1
  <2> HIDE DEF Bad
  <2> QED
    BY <1>7, <2>1, LeastNumber
<1>9. CASE n = 0
  <2>1. << >> \in Seq(Words)
    OBVIOUS
  <2> QED
    BY <1>6, <1>8, <1>9, <2>1
<1>10. CASE n # 0
  <2>1. n - 1 \in 0..N /\ n - 1 \notin Bad /\ n \in 1..N
    BY <1>1, <1>8, <1>10
  <2>2. sent[n - 1] \in Seq(Words) /\ sent[n] = sent[n - 1] \o tail[n] /\ tail[n] \in Seq(Words)
    BY <1>3, <1>6, <2>1
  <2>3. sent[n] \in Seq(Words)
    BY <2>2
  <2> QED
    BY <1>8, <2>3
<1> QED
  BY <1>9, <1>10

\* SMEs are typed, and so are their keys.
LEMMA QueuedElement ==
    ASSUME NEW sme \in SMEs
    PROVE  Queued(sme) \in Elements
  BY DEF SMEs, Queued, Elements, GetKey, SMEKey, SMETypeToClass

\* What is in the queue after a step was there before or is sent by the step.
LEMMA SentAll ==
    ASSUME QueueOK, NEW smes \in Seq(SMEs), smeQueue' = EnqueueSMEs(smeQueue, smes)
    PROVE  /\ QueueOK'
           /\ \A id : IsQueued(id, "CLOSED")' =>
                 \/ IsQueued(id, "CLOSED")
                 \/ \E i \in 1..Len(smes) : smes[i] = Sme(id, "CLOSED")
<1>1. PICK q, r, E : /\ q = smeQueue /\ r = EnqueueSMEs(smeQueue, smes)
                     /\ E = {smeQueue[i] : i \in 1..Len(smeQueue)}
  OBVIOUS
<1>2. q \in Seq(E) /\ UniqueKeys(q) /\ E \subseteq Elements
  <2>1. q \in Seq(Elements) /\ \A i \in 1..Len(q) : q[i] \in E
    BY <1>1 DEF QueueOK
  <2>2. \A i \in 1..Len(q) : q[i] \in Elements
    BY <2>1
  <2> QED
    BY <1>1, <2>1, <2>2, SequenceIn DEF QueueOK
<1>3. PICK F : F = E \cup {Queued(smes[i]) : i \in 1..Len(smes)}
  OBVIOUS
<1>4. r \in Seq(F) /\ UniqueKeys(r)
  <2>1. Len(smes) \in Nat
    OBVIOUS
  <2> QED
    <3>1. /\ EnqueueSMEs(q, smes) \in Seq(E \cup {Queued(smes[i]) : i \in 1..Len(smes)})
          /\ UniqueKeys(EnqueueSMEs(q, smes))
      BY <1>2, <2>1, EnqueueOfAll
    <3>2. r = EnqueueSMEs(q, smes)
      BY <1>1
    <3> QED
      BY <1>3, <3>1, <3>2
<1>5. F \subseteq Elements
  <2>1. \A i \in 1..Len(smes) : smes[i] \in SMEs
    OBVIOUS
  <2>2. \A i \in 1..Len(smes) : Queued(smes[i]) \in Elements
    BY <2>1, QueuedElement
  <2> QED
    BY <1>2, <1>3, <2>2
<1>6. \A i \in 1..Len(r) : r[i] \in F
  BY <1>4
<1>7. QueueOK'
  <2>1. r \in Seq(Elements)
    BY <1>4, <1>5, <1>6, SequenceIn
  <2> QED
    BY <1>1, <1>4, <2>1 DEF QueueOK
<1>8. ASSUME NEW id, IsQueued(id, "CLOSED")'
      PROVE  \/ IsQueued(id, "CLOSED")
             \/ \E i \in 1..Len(smes) : smes[i] = Sme(id, "CLOSED")
  <2>1. PICK i \in 1..Len(r) : r[i].val = Sme(id, "CLOSED")
    BY <1>1, <1>8 DEF IsQueued, QueuedVals
  <2>2. CASE r[i] \in E
    BY <1>1, <2>1, <2>2 DEF IsQueued, QueuedVals
  <2>3. CASE \E j \in 1..Len(smes) : r[i] = Queued(smes[j])
    BY <2>1, <2>3 DEF Queued
  <2> QED
    BY <1>3, <1>6, <2>2, <2>3
<1> QED
  BY <1>7, <1>8

\* A new SME takes the place of the one of the same id and class.
LEMMA SentOne ==
    ASSUME QueueOK, NEW sme \in SMEs, smeQueue' = EnqueueSME(smeQueue, sme)
    PROVE  /\ QueueOK'
           /\ \A id : IsQueued(id, "CLOSED")' =>
                 \/ IsQueued(id, "CLOSED") /\ GetKey(Sme(id, "CLOSED")) # GetKey(sme)
                 \/ sme = Sme(id, "CLOSED")
<1>1. PICK q, r : q = smeQueue /\ r = Enqueue(smeQueue, GetKey(sme), sme)
  OBVIOUS
<1>2. q \in Seq(Elements) /\ UniqueKeys(q)
  BY <1>1 DEF QueueOK
<1>3. Elements \cup {[key |-> GetKey(sme), val |-> sme]} = Elements
  BY QueuedElement DEF Queued
<1>4. /\ r \in Seq(Elements \cup {[key |-> GetKey(sme), val |-> sme]})
      /\ UniqueKeys(r)
      /\ \A i \in 1..Len(r) :
            \/ r[i] = [key |-> GetKey(sme), val |-> sme]
            \/ i \in 1..Len(q) /\ r[i] = q[i] /\ q[i].key # GetKey(sme)
  <2>1. PICK k : k = GetKey(sme)
    OBVIOUS
  <2>2. r = Enqueue(q, k, sme)
    BY <1>1, <2>1
  <2>0. PICK E : E = Elements
    OBVIOUS
  <2>3. /\ Enqueue(q, k, sme) \in Seq(E \cup {[key |-> k, val |-> sme]})
        /\ UniqueKeys(Enqueue(q, k, sme))
        /\ \A i \in 1..Len(Enqueue(q, k, sme)) :
              \/ Enqueue(q, k, sme)[i] = [key |-> k, val |-> sme]
              \/ /\ i \in 1..Len(q)
                 /\ Enqueue(q, k, sme)[i] = q[i]
                 /\ q[i].key # k
    <3>1. q \in Seq(E) /\ UniqueKeys(q)
      BY <1>2, <2>0
    <3> QED
      BY <3>1, EnqueueOne, SMTT(30)
  <2> QED
    BY <2>0, <2>1, <2>2, <2>3
<1>5. QueueOK'
  BY <1>1, <1>3, <1>4 DEF QueueOK, EnqueueSME
<1>6. ASSUME NEW id, IsQueued(id, "CLOSED")'
      PROVE  \/ IsQueued(id, "CLOSED") /\ GetKey(Sme(id, "CLOSED")) # GetKey(sme)
             \/ sme = Sme(id, "CLOSED")
  <2>1. PICK i \in 1..Len(r) : r[i].val = Sme(id, "CLOSED")
    BY <1>1, <1>6 DEF IsQueued, QueuedVals, EnqueueSME
  <2>2. CASE r[i] = [key |-> GetKey(sme), val |-> sme]
    BY <2>1, <2>2
  <2>3. CASE i \in 1..Len(q) /\ r[i] = q[i] /\ q[i].key # GetKey(sme)
    <3>1. q[i] \in Elements
      BY <1>2, <2>3
    <3>2. q[i].key = GetKey(Sme(id, "CLOSED"))
      BY <2>1, <2>3, <3>1 DEF Elements
    <3>3. IsQueued(id, "CLOSED")
      BY <1>1, <2>1, <2>3 DEF IsQueued, QueuedVals
    <3> QED
      BY <2>3, <3>2, <3>3
  <2> QED
    BY <1>4, <2>2, <2>3
<1> QED
  BY <1>5, <1>6

\* The two ways in which the queue does not grow.
LEMMA SentNone ==
    ASSUME QueueOK, smeQueue' = smeQueue \/ smeQueue' = EmptyQueue
    PROVE  QueueOK' /\ \A id : IsQueued(id, "CLOSED")' => IsQueued(id, "CLOSED")
<1>1. CASE smeQueue' = smeQueue
  BY <1>1 DEF QueueOK, IsQueued
<1>2. CASE smeQueue' = EmptyQueue
  <2>1. EmptyQueue \in Seq(Elements) /\ Len(EmptyQueue) = 0
    BY DEF EmptyQueue
  <2>2. UniqueKeys(EmptyQueue) /\ QueuedVals(EmptyQueue) = {}
    BY <2>1 DEF UniqueKeys, QueuedVals
  <2> QED
    BY <1>2, <2>1, <2>2 DEF QueueOK, IsQueued
<1> QED
  BY <1>1, <1>2

\* What a tile sends, and for whom.
LEMMA UpdateWords ==
    ASSUME IInv, NEW smes,
           smes = [i \in DOMAIN UpdateOrder |-> UpdateSME(endpoints[UpdateOrder[i]])]
    PROVE  /\ smes \in Seq(SMEs)
           /\ \A i \in 1..Len(smes) : \E fd \in Mapped : smes[i] = UpdateSME(endpoints[fd])
<1>1. TypeOK /\ MapsSound
  BY DEF IInv
<1>2. PICK S, T :
        /\ S = {streams[x] : x \in {x \in DOMAIN streams : Sends(endpoints[streams[x]])}}
        /\ T = {servers[x] : x \in {x \in DOMAIN servers : Sends(endpoints[servers[x]])}}
  OBVIOUS
<1>3. UpdateOrder = SetToSeq(S) \o SetToSeq(T)
  BY <1>2 DEF UpdateOrder
<1>4. S \subseteq Mapped /\ T \subseteq Mapped /\ Mapped \subseteq Fds
  BY <1>1, <1>2, MappedKind DEF Mapped
<1>5. IsFiniteSet(S) /\ IsFiniteSet(T)
  <2>1. IsFiniteSet(Fds)
    BY <1>1, EndpointIn, FS_Interval
  <2>2. S \in SUBSET Fds /\ T \in SUBSET Fds
    BY <1>4
  <2> QED
    BY <2>1, <2>2, FS_Subset
<1>6. PICK order : order = UpdateOrder /\ order \in Seq(Mapped)
  <2>1. PICK M : M = Mapped
    OBVIOUS
  <2>2. PICK a, b : a = SetToSeq(S) /\ b = SetToSeq(T)
    OBVIOUS
  <2>3. a \in Seq(S) /\ b \in Seq(T)
    BY <1>5, <2>2, SetInSeq
  <2>4. /\ Len(a) \in Nat /\ Len(b) \in Nat
        /\ a \o b \in Seq(S \cup T)
    BY <2>3
  <2>5. \A i \in 1..Len(a \o b) : (a \o b)[i] \in M
    BY <1>4, <2>1, <2>4
  <2>6. a \o b \in Seq(M)
    BY <2>4, <2>5, SequenceIn
  <2> QED
    BY <1>3, <2>1, <2>2, <2>6
<1>7. ASSUME NEW fd \in Mapped PROVE UpdateSME(endpoints[fd]) \in SMEs
  <2>1. endpoints[fd].id \in StreamId
    BY <1>1, <1>4, EndpointIn
  <2>2. PICK e : e = endpoints[fd]
    OBVIOUS
  <2>3. Opening(e) => RequestOf[e.status] \in {"CONNECT", "LISTEN"}
    BY DEF Opening, RequestOf, GivenUp
  <2> QED
    BY <2>1, <2>2, <2>3 DEF UpdateSME, Sme, SMEs
<1>8. DOMAIN order = 1..Len(order) /\ Len(order) \in Nat /\ \A i \in 1..Len(order) : order[i] \in Mapped
  BY <1>6
<1>9. smes = [i \in 1..Len(order) |-> UpdateSME(endpoints[order[i]])]
  BY <1>6, <1>8
<1>10. \A i \in 1..Len(order) : UpdateSME(endpoints[order[i]]) \in SMEs
  BY <1>7, <1>8
<1>11. smes \in Seq(SMEs) /\ Len(smes) = Len(order)
  BY <1>8, <1>9, <1>10
<1> QED
  BY <1>8, <1>9, <1>11

-----------------------------------------------------------------------------
(***************************************************************************)
(* The last word on a stream that connect waits for.                       *)
(***************************************************************************)
\* Endpoints stay, and never become CONNECTING or leave CLOSE_WAIT.
OnwardOne(e, f) ==
    /\ f.id = e.id
    /\ e.status = "CLOSE_WAIT" =>
          f.status = "CLOSE_WAIT" /\ Range(e.pendingAccept) \subseteq Range(f.pendingAccept)
    /\ f.status = "CONNECTING" => e.status = "CONNECTING"

Onward ==
    /\ Fds \subseteq Fds'
    /\ \A fd \in Fds : OnwardOne(endpoints[fd], endpoints'[fd])

ConnectSleeps == {"connectWait", "connectCheck"}

\* No other thread begins to wait for its connect.
StillWaiting(t) ==
    thread'[t].pc \in ConnectSleeps =>
        thread'[t].fd = thread[t].fd /\ thread[t].pc \in ConnectSleeps

\* Or it begins to, and no CLOSED is queued.
WaitsFresh(t) ==
    /\ thread'[t].fd = thread[t].fd /\ thread[t].fd \in Fds
    /\ Sme(Object(t).id, "CLOSED") \notin QueuedVals(smeQueue')

\* Nobody waits for the connect of this id any more.
NoConnect(id) ==
    \A t \in Threads : thread[t].pc \in ConnectSleeps /\ Object(t).id = id =>
        endpoints'[thread[t].fd].status # "CONNECTING"

LEMMA LeftStays ==
    ASSUME IInv, Onward, NEW id, LeftOnClosedServer(id)
    PROVE  LeftOnClosedServer(id)'
<1>1. PICK s \in Fds : /\ endpoints[s].status = "CLOSE_WAIT"
                       /\ \E f \in Range(endpoints[s].pendingAccept) : endpoints[f].id = id
  BY DEF LeftOnClosedServer
<1>2. PICK f \in Range(endpoints[s].pendingAccept) : endpoints[f].id = id
  BY <1>1
<1>3. f \in Fds
  BY <1>1, <1>2 DEF IInv, EndpointsSound, StreamFd
<1>4. /\ s \in Fds' /\ endpoints'[s].status = "CLOSE_WAIT"
      /\ f \in Range(endpoints'[s].pendingAccept) /\ endpoints'[f].id = id
  BY <1>1, <1>2, <1>3 DEF Onward, OnwardOne
<1> QED
  BY <1>4 DEF LeftOnClosedServer

LEMMA LastWordFrame ==
    ASSUME IInv, Onward, \A t \in Threads : StillWaiting(t) \/ WaitsFresh(t),
           \A id : IsQueued(id, "CLOSED")' =>
               IsQueued(id, "CLOSED") \/ LeftOnClosedServer(id)' \/ NoConnect(id)
    PROVE  LastWordIsConnect'
<1> DEFINE queued(id) == Sme(id, "CLOSED") \in QueuedVals(smeQueue')
           left(id) == \E s \in Fds' :
                          /\ endpoints'[s].status = "CLOSE_WAIT"
                          /\ \E f \in Range(endpoints'[s].pendingAccept) :
                                endpoints'[f].id = id
<1>1. \A id : /\ queued(id) => IsQueued(id, "CLOSED") \/ left(id) \/ NoConnect(id)
              /\ LeftOnClosedServer(id)' => left(id)
  BY DEF IsQueued, LeftOnClosedServer
<1>2. ASSUME \A t \in Threads :
                /\ thread'[t].pc \in ConnectSleeps
                /\ endpoints'[thread'[t].fd].status = "CONNECTING"
                /\ queued(endpoints'[thread'[t].fd].id)
                => left(endpoints'[thread'[t].fd].id)
      PROVE  LastWordIsConnect'
  BY <1>2 DEF LastWordIsConnect, Object, ConnectSleeps, IsQueued, LeftOnClosedServer
<1>4. \A t \in Threads : WaitsFresh(t) => thread'[t].fd \in Fds
                             /\ ~queued(endpoints[thread'[t].fd].id)
  BY DEF WaitsFresh, Object
<1> HIDE DEF queued, left
<1>3. ASSUME NEW t \in Threads,
             thread'[t].pc \in ConnectSleeps,
             endpoints'[thread'[t].fd].status = "CONNECTING",
             queued(endpoints'[thread'[t].fd].id)
      PROVE  left(endpoints'[thread'[t].fd].id)
  <2>1. PICK fd, id : fd = thread[t].fd /\ id = endpoints[thread[t].fd].id
    OBVIOUS
  <2>0. StillWaiting(t)
    <3>1. CASE WaitsFresh(t)
      BY <1>3, <1>4, <3>1 DEF Onward, OnwardOne
    <3> QED
      BY <3>1
  <2>2. thread'[t].fd = fd /\ thread[t].pc \in ConnectSleeps
    BY <1>3, <2>0, <2>1 DEF StillWaiting
  <2>3. fd \in Fds
    BY <2>1, <2>2 DEF IInv, ThreadsSound, ConnectSound, ConnectSleeps, ConnectPcs, StreamFd
  <2>4. endpoints'[fd].id = id /\ endpoints[fd].status = "CONNECTING"
    BY <1>3, <2>1, <2>2, <2>3 DEF Onward, OnwardOne
  <2>5. queued(id)
    BY <1>3, <2>2, <2>4
  <2>6. ~NoConnect(id)
    BY <1>3, <2>1, <2>2 DEF NoConnect, Object
  <2>7. CASE IsQueued(id, "CLOSED")
    <3>1. LeftOnClosedServer(id)
      BY <2>1, <2>2, <2>4, <2>7 DEF IInv, LastWordIsConnect, Object, ConnectSleeps
    <3>2. LeftOnClosedServer(id)'
      BY <3>1, LeftStays
    <3> QED
      BY <1>1, <2>2, <2>4, <3>2
  <2> QED
    BY <1>1, <2>2, <2>4, <2>5, <2>6, <2>7
<1> QED
  BY <1>2, <1>3

\* A status that moves as the MAC thread moves it goes onward.
LEMMA MovesOnward ==
    ASSUME NEW e, NEW f, Moves(e, f)
    PROVE  OnwardOne(e, f)
  BY DEF Moves, StatusMoves, OnwardOne

\* The ways in which steps change the endpoints.
LEMMA OnwardSame ==
    ASSUME endpoints' = endpoints
    PROVE  Onward
<1>1. Fds' = Fds
  BY DEF Fds
<1> QED
  BY <1>1 DEF Onward, OnwardOne

LEMMA OnwardFun ==
    ASSUME TypeOK, endpoints' = [fd \in DOMAIN endpoints |-> endpoints'[fd]],
           \A fd \in Fds : OnwardOne(endpoints[fd], endpoints'[fd])
    PROVE  Onward
<1>1. PICK n \in Nat : n = Len(endpoints)
  BY EndpointIn
<1>2. DOMAIN endpoints = 1..n /\ Fds = 1..n
  BY <1>1, EndpointIn
<1>3. PICK S : S = {endpoints'[fd] : fd \in 1..n}
  OBVIOUS
<1>4. endpoints' \in Seq(S) /\ Len(endpoints') = n
  <2>1. endpoints' = [fd \in 1..n |-> endpoints'[fd]]
    BY <1>2
  <2>2. \A fd \in 1..n : endpoints'[fd] \in S
    BY <1>3
  <2> QED
    BY <2>1, <2>2
<1>5. Fds' = Fds
  BY <1>2, <1>4 DEF Fds
<1> QED
  BY <1>5 DEF Onward

LEMMA OnwardExcept ==
    ASSUME TypeOK, NEW fd \in Fds, NEW e, endpoints' = [endpoints EXCEPT ![fd] = e],
           OnwardOne(endpoints[fd], e)
    PROVE  Onward
<1>1. DOMAIN endpoints = Fds
  BY EndpointIn
<1>2. endpoints' = [f \in DOMAIN endpoints |-> endpoints'[f]]
  OBVIOUS
<1>3. \A f \in Fds : OnwardOne(endpoints[f], endpoints[f])
  BY DEF OnwardOne
<1>4. \A f \in Fds : OnwardOne(endpoints[f], endpoints'[f])
  BY <1>1, <1>3
<1> QED
  BY <1>2, <1>4, OnwardFun

LEMMA OnwardMore ==
    ASSUME TypeOK,
           \/ \E id \in StreamId, status \in StreamStatus :
                 endpoints' = Append(endpoints, Endpoint(id, status))
           \/ \E x, y \in StreamId :
                 endpoints' = endpoints \o <<Endpoint(x, "CLOSE_WAIT"),
                                             Endpoint(y, "CLOSE_WAIT")>>
    PROVE  Onward
<1>1. \A fd \in Fds : OnwardOne(endpoints[fd], endpoints[fd])
  BY DEF OnwardOne
<1>2. ASSUME NEW id \in StreamId, NEW status \in StreamStatus,
             endpoints' = Append(endpoints, Endpoint(id, status))
      PROVE  Onward
  <2>1. Fds \subseteq Fds' /\ \A fd \in Fds : endpoints'[fd] = endpoints[fd]
    BY <1>2, OneMore
  <2> QED
    BY <1>1, <2>1 DEF Onward
<1>3. ASSUME NEW x \in StreamId, NEW y \in StreamId,
             endpoints' = endpoints \o <<Endpoint(x, "CLOSE_WAIT"), Endpoint(y, "CLOSE_WAIT")>>
      PROVE  Onward
  <2>1. Fds \subseteq Fds' /\ \A fd \in Fds : endpoints'[fd] = endpoints[fd]
    BY <1>3, TwoMore
  <2> QED
    BY <1>1, <2>1 DEF Onward
<1> QED
  BY <1>2, <1>3

\* The ways in which steps change the threads.
LEMMA SameStill ==
    ASSUME thread' = thread
    PROVE  \A t \in Threads : StillWaiting(t)
  BY DEF StillWaiting

LEMMA NotifiedSleeps ==
    ASSUME thread \in [Threads -> CallRecords], NEW fd, NEW T \in Notified(thread, fd)
    PROVE  /\ T \in [Threads -> CallRecords]
           /\ \A u \in Threads : T[u].pc \in ConnectSleeps =>
                 T[u].fd = thread[u].fd /\ thread[u].pc \in ConnectSleeps
<1>1. CASE T = thread
  BY <1>1
<1>2. CASE T # thread
  <2>1. PICK w \in Sleepers(thread, fd) : T = Goto(thread, w, Awake(thread[w].pc))
    BY <1>2 DEF Notified
  <2>2. w \in Threads /\ thread[w].pc \in Waiting
    BY <2>1 DEF Sleepers
  <2>3. PICK pc : pc = Awake(thread[w].pc)
    OBVIOUS
  <2>4. /\ pc \in {"idle"} \cup Waiting \cup Running
        /\ pc \in ConnectSleeps => thread[w].pc \in ConnectSleeps
    BY <2>2, <2>3 DEF Awake, Waiting, Running, ConnectSleeps
  <2>5. PICK q : q = [pc |-> pc, fd |-> thread[w].fd]
    OBVIOUS
  <2>6. T = [thread EXCEPT ![w] = q] /\ q \in CallRecords
    BY <2>1, <2>2, <2>3, <2>4, <2>5, GotoRecord
  <2>7. T[w] = q /\ \A u \in Threads \ {w} : T[u] = thread[u]
    BY <2>2, <2>6
  <2> QED
    BY <2>4, <2>5, <2>6, <2>7
<1> QED
  BY <1>1, <1>2

LEMMA NotifiedStill ==
    ASSUME thread \in [Threads -> CallRecords], NEW fd, thread' \in Notified(thread, fd)
    PROVE  \A t \in Threads : StillWaiting(t)
<1>1. PICK T \in Notified(thread, fd) : T = thread'
  OBVIOUS
<1> QED
  BY <1>1, NotifiedSleeps DEF StillWaiting

LEMMA AllNotifiedStill ==
    ASSUME thread \in [Threads -> CallRecords], NEW fds, thread' = AllNotified(thread, fds)
    PROVE  \A t \in Threads : StillWaiting(t)
<1>1. \A t \in Threads :
        thread[t].pc \in Waiting /\ Awake(thread[t].pc) \in ConnectSleeps =>
            thread[t].pc \in ConnectSleeps
  BY DEF Awake, Waiting, ConnectSleeps
<1>2. \A t \in Threads :
        thread'[t] = IF thread[t].fd \in fds /\ thread[t].pc \in Waiting
                     THEN [pc |-> Awake(thread[t].pc), fd |-> thread[t].fd] ELSE thread[t]
  BY DEF AllNotified, CallRecords
<1>3. ASSUME NEW t \in Threads, thread'[t].pc \in ConnectSleeps
      PROVE  thread'[t].fd = thread[t].fd /\ thread[t].pc \in ConnectSleeps
  <2>1. CASE thread[t].fd \in fds /\ thread[t].pc \in Waiting
    <3>1. thread'[t] = [pc |-> Awake(thread[t].pc), fd |-> thread[t].fd]
      BY <1>2, <2>1
    <3> QED
      BY <1>1, <1>3, <2>1, <3>1
  <2>2. CASE ~(thread[t].fd \in fds /\ thread[t].pc \in Waiting)
    BY <1>2, <1>3, <2>2
  <2> QED
    BY <2>1, <2>2
<1> QED
  BY <1>3 DEF StillWaiting

LEMMA OneStill ==
    ASSUME thread \in [Threads -> CallRecords], NEW t \in Threads, NEW r,
           thread' = [thread EXCEPT ![t] = r],
           r.pc \in ConnectSleeps => r.fd = thread[t].fd /\ thread[t].pc \in ConnectSleeps
    PROVE  \A u \in Threads : StillWaiting(u)
  BY DEF StillWaiting

LEMMA GotoStill ==
    ASSUME thread \in [Threads -> CallRecords], NEW t \in Threads,
           NEW pc \in {"idle"} \cup Waiting \cup Running,
           pc \in ConnectSleeps => thread[t].pc \in ConnectSleeps,
           thread' = Goto(thread, t, pc) \/ thread' = Done(thread, t)
    PROVE  \A u \in Threads : StillWaiting(u)
<1>1. PICK r : thread' = [thread EXCEPT ![t] = r]
               /\ (r = [pc |-> pc, fd |-> thread[t].fd] \/ r = Idle)
  BY GotoRecord
<1>2. r.pc \in ConnectSleeps => r.fd = thread[t].fd /\ thread[t].pc \in ConnectSleeps
  BY <1>1 DEF Idle, ConnectSleeps
<1> QED
  BY <1>1, <1>2, OneStill

\* Steps that queue no SME.
LEMMA QuietWords ==
    ASSUME IInv, Onward, \A t \in Threads : StillWaiting(t),
           smeQueue' = smeQueue \/ smeQueue' = EmptyQueue
    PROVE  QueueOK' /\ LastWordIsConnect'
<1>1. QueueOK
  BY IInvParts
<1>2. QueueOK' /\ \A id : IsQueued(id, "CLOSED")' => IsQueued(id, "CLOSED")
  BY <1>1, SentNone
<1> QED
  BY <1>2, LastWordFrame

-----------------------------------------------------------------------------
(***************************************************************************)
(* The queue and the last word, step by step.                              *)
(***************************************************************************)
\* A call that starts, or goes on without sending anything.
LEMMA CallWords ==
    ASSUME IInv, NEW t \in Threads, Call(t)
    PROVE  QueueOK' /\ LastWordIsConnect'
<1>1. TypeOK /\ thread \in [Threads -> CallRecords]
  BY IInvParts DEF IInv, Core
<1>2. \A pc, fd : [pc |-> pc, fd |-> fd].pc = pc
  OBVIOUS
<1>3. smeQueue' = smeQueue
  BY DEF Call, Connect, Listen, Accept, Close
<1>4. Onward
  <2>1. ASSUME NEW target \in Targets, Connect(t, target) PROVE Onward
    <3>1. PICK port \in Ports :
            endpoints' = Append(endpoints, Endpoint(ClientId(target, port), "CONNECTING"))
      BY <2>1 DEF Connect, AddStream
    <3>2. ClientId(target, port) \in StreamId /\ "CONNECTING" \in StreamStatus
      <4>1. ClientId(target, port) \in StreamIdsHere
        BY DEF StreamIdsHere
      <4> QED
        BY <4>1, IdsHere DEF StreamStatus
    <3> QED
      BY <1>1, <3>1, <3>2, OnwardMore
  <2>2. ASSUME NEW port \in ListenPorts, Listen(t, port) PROVE Onward
    <3>1. endpoints' = Append(endpoints, Endpoint(ServerId(port), "LISTEN_WAIT"))
      BY <2>2 DEF Listen, AddServer
    <3>2. ServerId(port) \in StreamId /\ "LISTEN_WAIT" \in StreamStatus
      BY IdsHere DEF StreamStatus
    <3> QED
      BY <1>1, <3>1, <3>2, OnwardMore
  <2>3. ASSUME NEW handle \in handles, Accept(t, handle.fd) \/ Close(t, handle)
        PROVE  Onward
    <3>1. endpoints' = endpoints
      BY <2>3 DEF Accept, Close
    <3> QED
      BY <3>1, OnwardSame
  <2> QED
    BY <2>1, <2>2, <2>3 DEF Call
<1>5. \A u \in Threads : StillWaiting(u)
  <2>1. CASE thread' = thread
    BY <2>1, SameStill
  <2>2. CASE thread' # thread
    <3>1. PICK pc, fd : /\ thread' = [thread EXCEPT ![t] = [pc |-> pc, fd |-> fd]]
                        /\ pc \in {"connectSend", "listenSend", "acceptCheck", "closeEndpoint"}
      BY <2>2 DEF Call, Connect, Listen, Accept, Close
    <3>2. PICK r : r = [pc |-> pc, fd |-> fd]
      OBVIOUS
    <3>3. r.pc \notin ConnectSleeps
      BY <3>1, <3>2 DEF ConnectSleeps
    <3> QED
      BY <1>1, <3>1, <3>2, <3>3, OneStill
  <2> QED
    BY <2>1, <2>2
<1> QED
  BY <1>3, <1>4, <1>5, QuietWords

LEMMA ThreadQuietWords ==
    ASSUME IInv, NEW t \in Threads,
           \/ ConnectCheck(t) \/ Unconnect(t) \/ ListenCheck(t) \/ Unlisten(t)
           \/ AcceptCheck(t) \/ AcceptLookup(t) \/ AcceptFinish(t) \/ CloseRemove(t)
    PROVE  QueueOK' /\ LastWordIsConnect'
<1>1. TypeOK /\ thread \in [Threads -> CallRecords]
  BY IInvParts DEF IInv, Core
<1>2. smeQueue' = smeQueue
  BY DEF ConnectCheck, Unconnect, ListenCheck, Unlisten, AcceptCheck, AcceptLookup,
         AcceptFinish, CloseRemove
<1>3. /\ "idle" \in {"idle"} \cup Waiting \cup Running
      /\ {"connectWait", "unconnect", "listenWait", "unlisten", "acceptWait",
          "acceptFinish"} \subseteq {"idle"} \cup Waiting \cup Running
  BY DEF Waiting, Running
<1>4. \A u \in Threads : StillWaiting(u)
  <2>1. CASE ConnectCheck(t)
    <3>1. thread[t].pc \in ConnectSleeps
      BY <2>1 DEF ConnectCheck, At, ConnectSleeps
    <3>2. \E pc \in {"connectWait", "unconnect"} :
             thread' = Goto(thread, t, pc) \/ thread' = Done(thread, t)
      BY <2>1 DEF ConnectCheck, ConnectOutcome
    <3> QED
      BY <1>1, <1>3, <3>1, <3>2, GotoStill
  <2>2. CASE Unconnect(t) \/ Unlisten(t) \/ AcceptFinish(t) \/ CloseRemove(t)
    <3>1. thread' = Done(thread, t) /\ "idle" \notin ConnectSleeps
      BY <2>2 DEF Unconnect, Unlisten, AcceptFinish, CloseRemove, ConnectSleeps
    <3> QED
      BY <1>1, <1>3, <3>1, GotoStill
  <2>3. CASE ListenCheck(t) \/ AcceptLookup(t)
    <3>1. \E pc \in {"listenWait", "unlisten", "acceptFinish"} :
             /\ thread' = Goto(thread, t, pc) \/ thread' = Done(thread, t)
             /\ pc \notin ConnectSleeps
      BY <2>3 DEF ListenCheck, ListenOutcome, AcceptLookup, ConnectSleeps
    <3> QED
      BY <1>1, <1>3, <3>1, GotoStill
  <2>4. CASE AcceptCheck(t)
    <3>1. CASE thread' = Done(thread, t) \/ thread' = Goto(thread, t, "acceptWait")
      <4>1. "acceptWait" \notin ConnectSleeps
        BY DEF ConnectSleeps
      <4> QED
        BY <1>1, <1>3, <3>1, <4>1, GotoStill
    <3>2. CASE \E fd : thread' = [thread EXCEPT ![t] = [pc |-> "acceptLookup", fd |-> fd]]
      <4>1. PICK fd : thread' = [thread EXCEPT ![t] = [pc |-> "acceptLookup", fd |-> fd]]
        BY <3>2
      <4>2. PICK r : r = [pc |-> "acceptLookup", fd |-> fd]
        OBVIOUS
      <4>3. r.pc \notin ConnectSleeps
        BY <4>2 DEF ConnectSleeps
      <4> QED
        BY <1>1, <4>1, <4>2, <4>3, OneStill
    <3> QED
      BY <2>4, <3>1, <3>2 DEF AcceptCheck
  <2> QED
    BY <2>1, <2>2, <2>3, <2>4
<1>5. Onward
  <2>1. CASE endpoints' = endpoints
    BY <2>1, OnwardSame
  <2>2. CASE AcceptFinish(t) /\ endpoints' # endpoints
    <3>1. PICK fd : fd = thread[t].fd
      OBVIOUS
    <3>2. /\ endpoints[fd].status = "ACCEPT_WAIT" /\ fd \in Fds
          /\ endpoints' = [endpoints EXCEPT ![fd] = SetStatus(endpoints[fd], "ESTABLISHED")]
      BY <2>2, <3>1 DEF AcceptFinish, At, Object, IInv, ThreadsSound, AcceptSound, HandOverPcs,
                        StreamFd
    <3>3. endpoints[fd] \in EndpointOf(Len(endpoints)) /\ "ESTABLISHED" \in StreamStatus
      BY <1>1, <3>2, EndpointIn DEF StreamStatus
    <3>4. OnwardOne(endpoints[fd], SetStatus(endpoints[fd], "ESTABLISHED"))
      BY <3>2, <3>3, SetStatusType DEF OnwardOne
    <3> QED
      BY <1>1, <3>2, <3>4, OnwardExcept
  <2>3. CASE AcceptCheck(t) /\ endpoints' # endpoints
    <3>1. PICK fd, list : fd = thread[t].fd /\ list = Tail(endpoints[fd].pendingAccept)
      OBVIOUS
    <3>2. /\ fd \in Fds /\ endpoints[fd].status = "LISTEN"
          /\ endpoints' = [endpoints EXCEPT ![fd] = [endpoints[fd] EXCEPT !.pendingAccept = list]]
      BY <2>3, <3>1 DEF AcceptCheck, At, Object, IInv, ThreadsSound, AcceptSound, AcceptPcs,
                        ServerFd
    <3>3. endpoints[fd] \in EndpointOf(Len(endpoints))
      BY <1>1, <3>2, EndpointIn
    <3>4. OnwardOne(endpoints[fd], [endpoints[fd] EXCEPT !.pendingAccept = list])
      BY <3>2, <3>3 DEF OnwardOne, EndpointOf
    <3> QED
      BY <1>1, <3>2, <3>4, OnwardExcept
  <2>4. \/ endpoints' = endpoints \/ AcceptFinish(t) \/ AcceptCheck(t)
    BY DEF ConnectCheck, Unconnect, ListenCheck, Unlisten, AcceptLookup, CloseRemove
  <2> QED
    BY <2>1, <2>2, <2>3, <2>4
<1> QED
  BY <1>2, <1>4, <1>5, QuietWords

\* The steps of the MAC thread that send nothing.
LEMMA MacQuietWords ==
    ASSUME IInv,
           \/ \E schedule \in SUBSET StreamIdsHere : BeginSchedule(schedule)
           \/ \E id \in StreamIdsHere : RemovedMissingStream(id)
           \/ EndSchedule \/ DesyncClear \/ DequeueSMEs
           \/ UNCHANGED vars
    PROVE  QueueOK' /\ LastWordIsConnect'
<1>1. endpoints' = endpoints /\ thread' = thread
  BY DEF BeginSchedule, RemovedMissingStream, EndSchedule, DesyncClear, DequeueSMEs, vars
<1>2. smeQueue' = smeQueue \/ smeQueue' = EmptyQueue
  BY DEF BeginSchedule, RemovedMissingStream, EndSchedule, DesyncClear, DequeueSMEs, vars
<1> QED
  BY <1>1, <1>2, OnwardSame, SameStill, QuietWords

\* One endpoint moves, and a thread that sleeps on it may wake.
LEMMA MoveWords ==
    ASSUME IInv, NEW fd \in Fds, NEW e, OnwardOne(endpoints[fd], e),
           endpoints' = [endpoints EXCEPT ![fd] = e],
           thread' = thread \/ thread' \in Notified(thread, fd),
           smeQueue' = smeQueue
    PROVE  QueueOK' /\ LastWordIsConnect'
<1>1. TypeOK /\ thread \in [Threads -> CallRecords]
  BY IInvParts DEF IInv, Core
<1>2. Onward
  BY <1>1, OnwardExcept
<1>3. \A t \in Threads : StillWaiting(t)
  BY <1>1, SameStill, NotifiedStill
<1> QED
  BY <1>2, <1>3, QuietWords

LEMMA ScheduleWords ==
    ASSUME IInv,
           \/ \E id \in StreamIdsHere : AddedStream(id) \/ RemovedStream(id) \/ IncomingStream(id)
           \/ AddPendingStream
    PROVE  QueueOK' /\ LastWordIsConnect'
<1>1. TypeOK /\ MapsSound /\ ArrivalSound
  BY DEF IInv
<1>2. ASSUME NEW id \in StreamIdsHere, AddedStream(id) \/ RemovedStream(id)
      PROVE  QueueOK' /\ LastWordIsConnect'
  <2>1. PICK fd : fd = streams[id]
    OBVIOUS
  <2>2. fd \in Fds /\ endpoints[fd] \in EndpointOf(Len(endpoints))
    BY <1>1, <1>2, <2>1, MappedKind, EndpointIn DEF AddedStream, RemovedStream
  <2>3. \E e \in {Added(endpoints[fd]), Removed(endpoints[fd])} :
           endpoints' = [endpoints EXCEPT ![fd] = e]
    BY <1>2, <2>1 DEF AddedStream, RemovedStream
  <2>4. PICK e \in {Added(endpoints[fd]), Removed(endpoints[fd])} :
           endpoints' = [endpoints EXCEPT ![fd] = e]
    BY <2>3
  <2>5. OnwardOne(endpoints[fd], e)
    BY <2>2, <2>4, MacMoves, MovesOnward
  <2>6. /\ thread' = thread \/ thread' \in Notified(thread, fd)
        /\ smeQueue' = smeQueue
    BY <1>2, <2>1 DEF AddedStream, RemovedStream
  <2> QED
    BY <2>2, <2>4, <2>5, <2>6, MoveWords
<1>3. ASSUME NEW id \in StreamIdsHere, IncomingStream(id)
      PROVE  QueueOK' /\ LastWordIsConnect'
  <2>1. /\ endpoints' = Append(endpoints, Endpoint(id, "ACCEPT_WAIT"))
        /\ thread' = thread /\ smeQueue' = smeQueue
    BY <1>3 DEF IncomingStream, AddStream
  <2>2. id \in StreamId /\ "ACCEPT_WAIT" \in StreamStatus
    BY IdsHere DEF StreamStatus
  <2>3. Onward
    BY <1>1, <2>1, <2>2, OnwardMore
  <2> QED
    BY <2>1, <2>3, SameStill, QuietWords
<1>4. CASE AddPendingStream
  <2>1. PICK fd, f : fd = arrival.server /\ f = arrival.stream
    OBVIOUS
  <2>2. PICK list : list = Append(endpoints[fd].pendingAccept, f)
    OBVIOUS
  <2>3. /\ fd \in Fds /\ f \in Fds
        /\ endpoints' = [endpoints EXCEPT ![fd] = [endpoints[fd] EXCEPT !.pendingAccept = list]]
        /\ thread' \in Notified(thread, fd) /\ smeQueue' = smeQueue
    BY <1>1, <1>4, <2>1, <2>2 DEF AddPendingStream, ArrivalSound, ServerFd, StreamFd
  <2>4. endpoints[fd] \in EndpointOf(Len(endpoints)) /\ endpoints[fd].pendingAccept \in Seq(Fds)
    BY <1>1, <2>3, EndpointIn
  <2>5. Range(list) = Range(endpoints[fd].pendingAccept) \cup {f}
    <3>1. PICK s, S : s = endpoints[fd].pendingAccept /\ S = Fds
      OBVIOUS
    <3>2. s \in Seq(S) /\ f \in S
      BY <2>3, <2>4, <3>1
    <3>3. Range(Append(s, f)) = Range(s) \cup {f}
      BY <3>2, PutLast
    <3> QED
      BY <2>2, <3>1, <3>3
  <2>6. OnwardOne(endpoints[fd], [endpoints[fd] EXCEPT !.pendingAccept = list])
    BY <2>4, <2>5 DEF OnwardOne, EndpointOf
  <2> QED
    BY <2>3, <2>6, MoveWords
<1> QED
  BY <1>2, <1>3, <1>4

LEMMA InfoElementWords ==
    ASSUME IInv,
           \/ \E port \in ListenPorts :
                 (ServerOpened(port) /\ port \in DOMAIN servers) \/ ServerClosed(port)
           \/ \E id \in StreamIdsHere : StreamReject(id)
    PROVE  QueueOK' /\ LastWordIsConnect'
<1>1. TypeOK /\ MapsSound
  BY DEF IInv
<1> DEFINE failed(e) == IF e.status = "LISTEN_WAIT" THEN SetStatus(e, "LISTEN_FAILED") ELSE e
<1>2. PICK fd : /\ fd \in Fds
                /\ thread' \in Notified(thread, fd) /\ smeQueue' = smeQueue
                /\ \E e \in {AcceptedServer(endpoints[fd]), RejectedStream(endpoints[fd]),
                             failed(endpoints[fd])} :
                      endpoints' = [endpoints EXCEPT ![fd] = e]
  <2>1. CASE \E port \in ListenPorts : ServerOpened(port) /\ port \in DOMAIN servers
    BY <1>1, <2>1, MappedKind DEF ServerOpened
  <2>2. CASE \E port \in ListenPorts : ServerClosed(port)
    BY <1>1, <2>2, MappedKind DEF ServerClosed
  <2>3. CASE \E id \in StreamIdsHere : StreamReject(id)
    BY <1>1, <2>3, MappedKind DEF StreamReject
  <2> QED
    BY <2>1, <2>2, <2>3
<1>3. PICK e \in {AcceptedServer(endpoints[fd]), RejectedStream(endpoints[fd]),
                  failed(endpoints[fd])} :
         endpoints' = [endpoints EXCEPT ![fd] = e]
  BY <1>2
<1>4. endpoints[fd] \in EndpointOf(Len(endpoints))
  BY <1>1, <1>2, EndpointIn
<1>5. OnwardOne(endpoints[fd], e)
  <2>1. Moves(endpoints[fd], e)
    BY <1>3, <1>4, MacMoves
  <2> QED
    BY <2>1, MovesOnward
<1> QED
  BY <1>2, <1>3, <1>5, MoveWords

LEMMA DesyncWords ==
    ASSUME IInv, Desync
    PROVE  QueueOK' /\ LastWordIsConnect'
<1>1. TypeOK /\ thread \in [Threads -> CallRecords]
  BY IInvParts DEF IInv, Core
<1>2. PICK fds : /\ endpoints' = [fd \in DOMAIN endpoints |->
                        IF fd \in fds THEN Desynced(endpoints[fd]) ELSE endpoints[fd]]
                 /\ thread' = AllNotified(thread, fds)
                 /\ smeQueue' = smeQueue
  BY DEF Desync
<1>3. DOMAIN endpoints = Fds /\ \A fd \in Fds : endpoints[fd] \in EndpointOf(Len(endpoints))
  BY <1>1, EndpointIn
<1>4. \A fd \in Fds : /\ OnwardOne(endpoints[fd], Desynced(endpoints[fd]))
                      /\ OnwardOne(endpoints[fd], endpoints[fd])
  BY <1>3, MacMoves, MovesOnward DEF OnwardOne
<1>5. /\ endpoints' = [fd \in DOMAIN endpoints |-> endpoints'[fd]]
      /\ \A fd \in Fds : OnwardOne(endpoints[fd], endpoints'[fd])
  BY <1>2, <1>3, <1>4
<1>6. Onward
  BY <1>1, <1>5, OnwardFun
<1> QED
  BY <1>1, <1>2, <1>6, AllNotifiedStill, QuietWords

\* connect waits for streams of the map, and for no server.
LEMMA WaitsMapped ==
    ASSUME IInv, NEW t \in Threads, thread[t].pc \in ConnectSleeps
    PROVE  /\ StreamFd(thread[t].fd) /\ IsMapped(thread[t].fd)
           /\ Object(t).id \in DOMAIN streams /\ IsStream(Object(t).id)
  BY DEF IInv, ThreadsSound, ConnectSound, ConnectSleeps, ConnectPcs, IsMapped, StreamFd, Object

LEMMA NoConnectElsewhere ==
    ASSUME IInv, NEW id, id \notin DOMAIN streams \/ IsServer(id)
    PROVE  NoConnect(id)
  BY WaitsMapped DEF NoConnect, IsStream

LEMMA ConnectSendWords ==
    ASSUME IInv, NEW t \in Threads, ConnectSend(t)
    PROVE  QueueOK' /\ LastWordIsConnect'
<1>1. /\ TypeOK /\ thread \in [Threads -> CallRecords] /\ QueueOK
      /\ thread[t].pc = "connectSend" /\ thread[t].fd \in Fds
  BY IInvParts DEF IInv, Core, ConnectSend, At, ThreadsSound, ConnectSound, ConnectPcs, StreamFd
<1>2. PICK id : id = Object(t).id
  OBVIOUS
<1>3. id \in StreamId
  BY <1>1, <1>2, EndpointIn DEF Object
<1>4. PICK sme \in SMEs : sme = Sme(id, "CONNECT")
  BY <1>3 DEF SMEs, Sme
<1>5. smeQueue' = EnqueueSME(smeQueue, sme) /\ endpoints' = endpoints
  BY <1>2, <1>4 DEF ConnectSend
<1>6. sme # Sme(id, "CLOSED") /\ \A x : sme # Sme(x, "CLOSED")
  BY <1>4 DEF Sme
<1>7. QueueOK' /\ \A x : IsQueued(x, "CLOSED")' =>
                     IsQueued(x, "CLOSED") /\ GetKey(Sme(x, "CLOSED")) # GetKey(sme)
  BY <1>1, <1>5, <1>6, SentOne
<1>8. WaitsFresh(t) \/ StillWaiting(t)
  <2>1. CASE thread'[t].fd = thread[t].fd
    <3>1. GetKey(Sme(id, "CLOSED")) = GetKey(sme)
      BY <1>4 DEF GetKey, Sme, SMEKey, SMETypeToClass
    <3>2. Sme(id, "CLOSED") \notin QueuedVals(smeQueue')
      BY <1>7, <3>1 DEF IsQueued
    <3> QED
      BY <1>1, <1>2, <2>1, <3>2 DEF WaitsFresh
  <2>2. CASE thread' = Done(thread, t)
    <3>1. thread'[t] = Idle
      BY <1>1, <2>2 DEF Done
    <3> QED
      BY <3>1 DEF StillWaiting, Idle, ConnectSleeps
  <2>3. CASE \E pc : thread' = Goto(thread, t, pc)
    <3>1. thread[t] \in CallRecords
      BY <1>1
    <3> QED
      BY <1>1, <2>1, <2>3, <3>1 DEF Goto, CallRecords
  <2> QED
    BY <2>2, <2>3 DEF ConnectSend, ConnectOutcome
<1>9. \A u \in Threads \ {t} : StillWaiting(u)
  <2>1. \A u \in Threads \ {t} : thread'[u] = thread[u]
    BY <1>1 DEF ConnectSend, ConnectOutcome, Goto, Done
  <2> QED
    BY <2>1 DEF StillWaiting
<1>10. Onward
  BY <1>5, OnwardSame
<1> QED
  BY <1>7, <1>8, <1>9, <1>10, LastWordFrame

LEMMA ListenSendWords ==
    ASSUME IInv, NEW t \in Threads, ListenSend(t)
    PROVE  QueueOK' /\ LastWordIsConnect'
<1>1. /\ TypeOK /\ thread \in [Threads -> CallRecords] /\ QueueOK
      /\ thread[t].pc = "listenSend" /\ thread[t].fd \in Fds
  BY IInvParts DEF IInv, Core, ListenSend, At, ThreadsSound, ListenSound, ListenPcs, ServerFd
<1>2. PICK id : id = Object(t).id
  OBVIOUS
<1>3. id \in StreamId
  BY <1>1, <1>2, EndpointIn DEF Object
<1>4. PICK sme \in SMEs : sme = Sme(id, "LISTEN")
  BY <1>3 DEF SMEs, Sme
<1>5. smeQueue' = EnqueueSME(smeQueue, sme) /\ endpoints' = endpoints
  BY <1>2, <1>4 DEF ListenSend
<1>6. \A x : sme # Sme(x, "CLOSED")
  BY <1>4 DEF Sme
<1>7. QueueOK' /\ \A x : IsQueued(x, "CLOSED")' => IsQueued(x, "CLOSED")
  BY <1>1, <1>5, <1>6, SentOne
<1>8. \A u \in Threads : StillWaiting(u)
  <2>1. {"listenWait", "unlisten"} \subseteq ({"idle"} \cup Waiting \cup Running) \ ConnectSleeps
    BY DEF Waiting, Running, ConnectSleeps
  <2>2. \E pc \in {"listenWait", "unlisten"} :
           thread' = Goto(thread, t, pc) \/ thread' = Done(thread, t)
    BY DEF ListenSend, ListenOutcome
  <2> QED
    BY <1>1, <2>1, <2>2, GotoStill
<1>9. Onward
  BY <1>5, OnwardSame
<1> QED
  BY <1>7, <1>8, <1>9, LastWordFrame

\* A server that is not there is reported CLOSED.
LEMMA ServerOpenedWords ==
    ASSUME IInv, NEW port \in ListenPorts, ServerOpened(port), port \notin DOMAIN servers
    PROVE  QueueOK' /\ LastWordIsConnect'
<1>1. TypeOK /\ QueueOK
  BY IInvParts DEF IInv
<1>2. PICK id : id = ServerId(port) /\ id \in StreamId /\ IsServer(id)
  BY IdsHere
<1>3. PICK sme \in SMEs : sme = Sme(id, "CLOSED")
  BY <1>2 DEF SMEs, Sme
<1>4. /\ smeQueue' = EnqueueSME(smeQueue, sme) /\ thread' = thread
      /\ endpoints' = Append(endpoints, Endpoint(id, "CLOSE_WAIT"))
  BY <1>2, <1>3 DEF ServerOpened, AddServer
<1>5. \A x : sme = Sme(x, "CLOSED") => x = id
  BY <1>3 DEF Sme
<1>6. QueueOK' /\ \A x : IsQueued(x, "CLOSED")' => IsQueued(x, "CLOSED") \/ x = id
  BY <1>1, <1>4, <1>5, SentOne
<1>7. NoConnect(id)
  BY <1>2, NoConnectElsewhere
<1>8. Onward
  <2>1. "CLOSE_WAIT" \in StreamStatus
    BY DEF StreamStatus
  <2> QED
    BY <1>1, <1>2, <1>4, <2>1, OnwardMore
<1> QED
  BY <1>4, <1>6, <1>7, <1>8, SameStill, LastWordFrame

\* A stream for a server that is not there: both are reported CLOSED.
LEMMA RefusedStreamWords ==
    ASSUME IInv, NEW id \in StreamIdsHere, RefusedStream(id)
    PROVE  QueueOK' /\ LastWordIsConnect'
<1>1. TypeOK /\ QueueOK
  BY IInvParts DEF IInv
<1>2. PICK server : /\ server = GetServerId(id) /\ server \in StreamId /\ IsServer(server)
                    /\ id \in StreamId
  BY IdsHere
<1>3. PICK x \in SMEs, y \in SMEs : x = Sme(id, "CLOSED") /\ y = Sme(server, "CLOSED")
  BY <1>2 DEF SMEs, Sme
<1>4. PICK smes : smes = <<x, y>> /\ smes \in Seq(SMEs)
  <2>1. PICK S : S = SMEs
    OBVIOUS
  <2>2. x \in S /\ y \in S
    BY <2>1
  <2>3. <<x, y>> \in Seq(S)
    BY <2>2
  <2> QED
    BY <2>1, <2>3
<1>5. /\ smeQueue' = EnqueueSMEs(smeQueue, smes) /\ thread' = thread
      /\ endpoints' = endpoints \o <<Endpoint(id, "CLOSE_WAIT"), Endpoint(server, "CLOSE_WAIT")>>
      /\ id \notin DOMAIN streams
  BY <1>2, <1>3, <1>4 DEF RefusedStream
<1>6. \A z : (\E i \in 1..Len(smes) : smes[i] = Sme(z, "CLOSED")) => z \in {id, server}
  <2>1. \A i \in 1..Len(smes) : smes[i] \in {x, y}
    BY <1>4
  <2> QED
    BY <1>3, <2>1 DEF Sme
<1>7. QueueOK' /\ \A z : IsQueued(z, "CLOSED")' => IsQueued(z, "CLOSED") \/ z \in {id, server}
  <2>1. smes \in Seq(SMEs) /\ smeQueue' = EnqueueSMEs(smeQueue, smes)
    BY <1>4, <1>5
  <2>2. QueueOK' /\ \A z : IsQueued(z, "CLOSED")' =>
           IsQueued(z, "CLOSED") \/ \E i \in 1..Len(smes) : smes[i] = Sme(z, "CLOSED")
    BY <1>1, <2>1, SentAll
  <2> QED
    BY <1>6, <2>2
<1>8. NoConnect(id) /\ NoConnect(server)
  BY <1>2, <1>5, NoConnectElsewhere
<1>9. Onward
  BY <1>1, <1>2, <1>5, OnwardMore
<1> QED
  BY <1>5, <1>7, <1>8, <1>9, SameStill, LastWordFrame

\* A tile reports a stream CLOSED only when connect has given it up.
LEMMA PeriodicUpdateWords ==
    ASSUME IInv, PeriodicUpdate
    PROVE  QueueOK' /\ LastWordIsConnect'
<1>1. TypeOK /\ MapsSound /\ QueueOK /\ thread \in [Threads -> CallRecords]
  BY IInvParts DEF IInv, Core
<1>2. PICK smes :
        /\ smes = [i \in DOMAIN UpdateOrder |-> UpdateSME(endpoints[UpdateOrder[i]])]
        /\ smeQueue' = EnqueueSMEs(smeQueue, smes)
  BY DEF PeriodicUpdate
<1>3. smes \in Seq(SMEs) /\ \A i \in 1..Len(smes) : \E fd \in Mapped : smes[i] = UpdateSME(endpoints[fd])
  BY <1>2, UpdateWords
<1>4. PICK fds : /\ endpoints' = [fd \in DOMAIN endpoints |->
                        IF fd \in Mapped THEN Updated(endpoints[fd]) ELSE endpoints[fd]]
                 /\ thread' = AllNotified(thread, fds)
  BY DEF PeriodicUpdate
<1>5. DOMAIN endpoints = Fds /\ \A fd \in Fds : endpoints[fd] \in EndpointOf(Len(endpoints))
  BY <1>1, EndpointIn
<1>6. \A fd \in Fds : /\ OnwardOne(endpoints[fd], Updated(endpoints[fd]))
                      /\ OnwardOne(endpoints[fd], endpoints[fd])
  BY <1>5, MacMoves, MovesOnward DEF OnwardOne
<1>7. Onward
  <2>1. /\ endpoints' = [fd \in DOMAIN endpoints |-> endpoints'[fd]]
        /\ \A fd \in Fds : OnwardOne(endpoints[fd], endpoints'[fd])
    BY <1>4, <1>5, <1>6
  <2> QED
    BY <1>1, <2>1, OnwardFun
<1>8. QueueOK' /\ \A id : IsQueued(id, "CLOSED")' =>
         IsQueued(id, "CLOSED") \/ \E i \in 1..Len(smes) : smes[i] = Sme(id, "CLOSED")
  BY <1>1, <1>2, <1>3, SentAll
<1>9. ASSUME NEW id, NEW i \in 1..Len(smes), smes[i] = Sme(id, "CLOSED")
      PROVE  NoConnect(id)
  <2>1. PICK fd \in Mapped : Sme(id, "CLOSED") = UpdateSME(endpoints[fd])
    BY <1>3, <1>9
  <2>2. PICK e : e = endpoints[fd]
    OBVIOUS
  <2>3. e.id = id /\ (Opening(e) => Fails(e))
    <3>1. Opening(e) => RequestOf[e.status] \in {"CONNECT", "LISTEN"}
      BY DEF Opening, RequestOf, GivenUp
    <3> QED
      BY <2>1, <2>2, <3>1 DEF UpdateSME, Sme
  <2>4. ASSUME NEW t \in Threads, thread[t].pc \in ConnectSleeps, Object(t).id = id
        PROVE  endpoints'[thread[t].fd].status # "CONNECTING"
    <3>1. /\ IsStream(id) /\ thread[t].fd = streams[id]
          /\ thread[t].fd \in Fds /\ id \in DOMAIN streams
      BY <2>4, WaitsMapped DEF StreamFd, IsMapped, Object
    <3>2. fd = thread[t].fd
      <4>1. CASE \E x \in DOMAIN streams : fd = streams[x]
        BY <1>1, <2>2, <2>3, <3>1, <4>1, MappedKind
      <4>2. CASE \E p \in DOMAIN servers : fd = servers[p]
        BY <1>1, <2>2, <2>3, <3>1, <4>2, MappedKind DEF ServerFd, IsStream
      <4> QED
        BY <4>1, <4>2 DEF Mapped
    <3>3. endpoints'[fd] = Updated(e) /\ OnwardOne(e, Updated(e))
      BY <1>4, <1>5, <1>6, <2>2, <3>1, <3>2
    <3>4. CASE e.status = "CONNECTING"
      <4>1. Opening(e) /\ GivenUp[e.status] = "CONNECT_FAILED"
        BY <3>4 DEF Opening, GivenUp
      <4>2. ~Closing(e)
        BY <3>4 DEF Closing
      <4>3. Updated(e) = SetStatus(e, "CONNECT_FAILED")
        BY <2>3, <4>1, <4>2 DEF Updated
      <4>4. Updated(e).status = "CONNECT_FAILED"
        <5>1. e \in EndpointOf(Len(endpoints)) /\ "CONNECT_FAILED" \in StreamStatus
          BY <1>5, <2>2, <3>1, <3>2 DEF StreamStatus
        <5> QED
          BY <4>3, <5>1, SetStatusType
      <4> QED
        BY <3>2, <3>3, <4>4
    <3>5. CASE e.status # "CONNECTING"
      BY <3>2, <3>3, <3>5 DEF OnwardOne
    <3> QED
      BY <3>4, <3>5
  <2> QED
    BY <2>4 DEF NoConnect
<1> QED
  BY <1>1, <1>4, <1>7, <1>8, <1>9, AllNotifiedStill, LastWordFrame

\* close reports its own stream or server, which no connect waits for, and the
\* streams that are left on the closed server.
LEMMA CloseEndpointWords ==
    ASSUME IInv, NEW t \in Threads, CloseEndpoint(t)
    PROVE  QueueOK' /\ LastWordIsConnect'
<1>1. TypeOK /\ MapsSound /\ QueueOK /\ thread \in [Threads -> CallRecords]
  BY IInvParts DEF IInv, Core
<1>2. PICK fd : fd = thread[t].fd
  OBVIOUS
<1>3. /\ thread[t].pc = "closeEndpoint" /\ fd \in Fds
      /\ \/ ServerFd(fd) /\ endpoints[fd].status = "LISTEN"
         \/ StreamFd(fd) /\ IsMapped(fd) /\ endpoints[fd].status \in OpenedStatus
      /\ \A f \in Range(endpoints[fd].pendingAccept) :
            ServerFd(fd) /\ endpoints[fd].status = "LISTEN" /\ f \in Fds
      /\ Fds' = Fds
      /\ \A f \in Fds :
            /\ endpoints'[f].id = endpoints[f].id
            /\ endpoints'[f].pendingAccept = endpoints[f].pendingAccept
            /\ endpoints'[f].status =
                  IF \/ f = fd /\ endpoints[f].status # "REMOTELY_CLOSED"
                     \/ f \in Range(endpoints[fd].pendingAccept)
                  THEN "CLOSE_WAIT" ELSE endpoints[f].status
  BY <1>2, CloseFacts
<1>4. Onward
  BY <1>3 DEF Onward, OnwardOne
<1>5. PICK own, left :
        /\ own = CloseSMEs(endpoints[fd]) /\ left = PendingSMEs(fd)
        /\ smeQueue' = EnqueueSMEs(smeQueue, own \o left)
  BY <1>2 DEF CloseEndpoint, Object
<1>6. PICK Own, Left :
        /\ Own = {Sme(endpoints[fd].id, "CLOSED")}
        /\ Left = {Sme(endpoints[f].id, "CLOSED") : f \in Range(endpoints[fd].pendingAccept)}
  OBVIOUS
<1>7. own \in Seq(Own)
  <2>1. PICK e, x : e = endpoints[fd] /\ x = Sme(e.id, "CLOSED") /\ Own = {x}
    BY <1>6
  <2>2. own = <<x>> \/ own = << >>
    BY <1>5, <2>1 DEF CloseSMEs
  <2>3. <<x>> \in Seq(Own) /\ << >> \in Seq(Own)
    BY <2>1
  <2> QED
    BY <2>2, <2>3
<1>8. left \in Seq(Left)
  <2>1. endpoints[fd].pendingAccept \in Seq(Fds)
    BY <1>1, <1>3, EndpointIn
  <2> QED
    BY <1>5, <1>6, <2>1, PendingSMEsType
<1>9. PICK smes : /\ smes = own \o left /\ smes \in Seq(SMEs)
                  /\ \A i \in 1..Len(smes) : smes[i] \in Own \cup Left
  <2>1. own \o left \in Seq(Own \cup Left)
    BY <1>7, <1>8
  <2>2. \A i \in 1..Len(own \o left) : (own \o left)[i] \in Own \cup Left
    BY <2>1
  <2>3. Own \cup Left \subseteq SMEs
    <3>1. \A f \in Fds : endpoints[f].id \in StreamId
      BY <1>1, EndpointIn
    <3>2. \A id \in StreamId : Sme(id, "CLOSED") \in SMEs
      BY DEF Sme, SMEs
    <3> QED
      BY <1>3, <1>6, <3>1, <3>2
  <2>4. own \o left \in Seq(SMEs)
    <3>1. PICK S : S = SMEs
      OBVIOUS
    <3>2. \A i \in 1..Len(own \o left) : (own \o left)[i] \in S
      BY <2>2, <2>3, <3>1
    <3> QED
      BY <2>1, <3>1, <3>2, SequenceIn
  <2> QED
    BY <2>2, <2>4
<1>10. QueueOK' /\ \A id : IsQueued(id, "CLOSED")' =>
          IsQueued(id, "CLOSED") \/ \E i \in 1..Len(smes) : smes[i] = Sme(id, "CLOSED")
  BY <1>1, <1>5, <1>9, SentAll
<1>11. ASSUME NEW id, NEW i \in 1..Len(smes), smes[i] = Sme(id, "CLOSED")
       PROVE  NoConnect(id) \/ LeftOnClosedServer(id)'
  <2>1. CASE smes[i] \in Own
    <3>1. id = endpoints[fd].id
      BY <1>6, <1>11, <2>1 DEF Sme
    <3>2. CASE ServerFd(fd)
      BY <3>1, <3>2, NoConnectElsewhere DEF ServerFd
    <3>3. CASE IsMapped(fd) /\ endpoints[fd].status \in OpenedStatus
      <4>1. ASSUME NEW u \in Threads, thread[u].pc \in ConnectSleeps, Object(u).id = id
            PROVE  endpoints'[thread[u].fd].status # "CONNECTING"
        <5>1. thread[u].fd = fd
          BY <3>1, <3>3, <4>1, WaitsMapped DEF IsMapped, Object
        <5> QED
          BY <1>3, <3>3, <5>1 DEF OpenedStatus
      <4> QED
        BY <4>1 DEF NoConnect
    <3> QED
      BY <1>3, <3>2, <3>3
  <2>2. CASE smes[i] \in Left
    <3>1. PICK f \in Range(endpoints[fd].pendingAccept) : id = endpoints[f].id
      <4>1. PICK f \in Range(endpoints[fd].pendingAccept) :
              smes[i] = Sme(endpoints[f].id, "CLOSED")
        BY <1>6, <2>2
      <4> QED
        BY <1>11, <4>1 DEF Sme
    <3>2. /\ fd \in Fds' /\ endpoints'[fd].status = "CLOSE_WAIT"
          /\ f \in Range(endpoints'[fd].pendingAccept) /\ endpoints'[f].id = id
      BY <1>3, <3>1
    <3> QED
      BY <3>2 DEF LeftOnClosedServer
  <2> QED
    BY <1>9, <2>1, <2>2
<1>12. \A u \in Threads : StillWaiting(u)
  <2>1. PICK T \in Notified(thread, fd) :
          thread' = Goto(T, t, "closeRemove") \/ thread' = Done(T, t)
    BY <1>2 DEF CloseEndpoint
  <2>2. T \in [Threads -> CallRecords]
    BY <1>1, <2>1, NotifiedSleeps
  <2>3. PICK r : thread' = [T EXCEPT ![t] = r] /\ r.pc \notin ConnectSleeps
    <3>1. T[t] \in CallRecords
      BY <2>2
    <3>2. [T[t] EXCEPT !.pc = "closeRemove"].pc = "closeRemove"
      BY <3>1 DEF CallRecords
    <3>3. Idle.pc \notin ConnectSleeps /\ "closeRemove" \notin ConnectSleeps
      BY DEF Idle, ConnectSleeps
    <3> QED
      BY <2>1, <3>2, <3>3 DEF Goto, Done
  <2>4. \A u \in Threads :
          T[u].pc \in ConnectSleeps => T[u].fd = thread[u].fd /\ thread[u].pc \in ConnectSleeps
    BY <1>1, <2>1, NotifiedSleeps
  <2>5. /\ thread'[t] = r
        /\ \A u \in Threads \ {t} : thread'[u] = T[u]
    BY <2>2, <2>3
  <2> QED
    BY <2>3, <2>4, <2>5 DEF StillWaiting
<1> QED
  BY <1>4, <1>10, <1>11, <1>12, LastWordFrame

\* No step takes the queue out of shape, or puts a CLOSED over the CONNECT that
\* a call waits for.
LEMMA NextWords ==
    ASSUME IInv, [Next]_vars
    PROVE  QueueOK' /\ LastWordIsConnect'
<1>1. ASSUME NEW t \in Threads, ThreadStep(t) PROVE QueueOK' /\ LastWordIsConnect'
  BY <1>1, ConnectSendWords, ListenSendWords, CloseEndpointWords, ThreadQuietWords DEF ThreadStep
<1>2. ASSUME NEW t \in Threads, Call(t) PROVE QueueOK' /\ LastWordIsConnect'
  BY <1>2, CallWords
<1>3. CASE ScheduleStep
  BY <1>3, ScheduleWords, RefusedStreamWords, MacQuietWords DEF ScheduleStep
<1>4. CASE MacCall
  BY <1>4, MacQuietWords, ServerOpenedWords, InfoElementWords, PeriodicUpdateWords, DesyncWords
     DEF MacCall
<1>5. CASE DesyncClear \/ UNCHANGED vars
  BY <1>5, MacQuietWords
<1> QED
  BY <1>1, <1>2, <1>3, <1>4, <1>5 DEF Next

-----------------------------------------------------------------------------
(***************************************************************************)
(* The theorems.                                                           *)
(***************************************************************************)
LEMMA InitInv == Init => IInv
<1> SUFFICES ASSUME Init PROVE IInv
  OBVIOUS
<1>1. /\ endpoints = << >> /\ fdt = {} /\ streams = << >> /\ servers = << >>
      /\ clientPorts = {} /\ smeQueue = << >> /\ thread = [t \in Threads |-> Idle]
      /\ handles = {} /\ macPc = "idle" /\ todo = {} /\ removedStreams = {}
      /\ arrival = NoArrival /\ announced = {}
  BY DEF Init, EmptyQueue
<1>2. Len(endpoints) = 0 /\ Fds = {} /\ DOMAIN streams = {} /\ DOMAIN servers = {}
  <2>1. Len(<< >>) = 0 /\ 1..0 = {} /\ DOMAIN << >> = {}
    OBVIOUS
  <2> QED
    BY <1>1, <2>1 DEF Fds
<1>3. EndpointsType
  <2>1. PICK S : S = EndpointOf(Len(endpoints))
    OBVIOUS
  <2>2. << >> \in Seq(S)
    OBVIOUS
  <2> QED
    BY <1>1, <2>1, <2>2 DEF EndpointsType
<1>4. Tables
  BY <1>1, <1>2 DEF Tables, MapsSound, TablesAgree, PortNotLeaked
<1>5. thread \in [Threads -> CallRecords]
  <2>1. Idle \in CallRecords
    BY DEF Idle, CallRecords
  <2> QED
    BY <1>1, <2>1
<1>6. DescriptorsType /\ MacType
  BY <1>1 DEF DescriptorsType, MacType, NoArrival
<1>7. \A t \in Threads : thread[t].pc = "idle" /\ thread[t].fd = NoObject
  BY <1>1 DEF Idle
<1>8. CallParts
  <2>1. EndpointsSound /\ OneHolder
    BY <1>2 DEF EndpointsSound, OneHolder
  <2>2. ThreadsSound
    BY <1>7 DEF ThreadsSound, ConnectSound, ListenSound, AcceptSound, CloseSound, ConnectPcs,
                ListenPcs, AcceptPcs, HandOverPcs
  <2>3. HandlesSound /\ ArrivalSound
    BY <1>1 DEF HandlesSound, ArrivalSound
  <2> QED
    BY <2>1, <2>2, <2>3 DEF CallParts
<1>9. QueueOK
  <2>1. PICK S : S = Elements
    OBVIOUS
  <2>2. << >> \in Seq(S) /\ Len(<< >>) = 0
    OBVIOUS
  <2> QED
    BY <1>1, <2>1, <2>2 DEF QueueOK, UniqueKeys
<1>10. LastWordIsConnect
  BY <1>7 DEF LastWordIsConnect
<1> QED
  BY <1>3, <1>4, <1>5, <1>6, <1>8, <1>9, <1>10, IInvParts DEF Core

\* What the calls in progress, the application's descriptors, the servers' lists
\* and the queue say of the tables is kept by every step of every thread.
THEOREM Inductive == Spec => []IInv
<1>1. IInv /\ [Next]_vars => IInv'
  <2>1. Core' /\ QueueOK' /\ LastWordIsConnect' => IInv'
    BY IInvParts, PTL
  <2> QED
    BY <2>1, NextCore, NextWords
<1> QED
  BY <1>1, InitInv, PTL DEF Spec

\* Every variable keeps the shape the code gives it.
THEOREM TypeCorrect == Spec => []TypeOK
<1>1. IInv => TypeOK
  BY DEF IInv
<1> QED
  BY <1>1, Inductive, PTL

\* The descriptor table and the two maps of StreamManager agree between any two
\* critical sections of any threads (addStream, addServer, removeStream,
\* removeServer).
THEOREM TablesSound == Spec => []TablesAgree
<1>1. IInv => TablesAgree
  BY DEF IInv, MapsSound
<1> QED
  BY <1>1, Inductive, PTL

\* However connects fail, and whatever is closed or lost, a client port in use is
\* the port of a stream of the map (allocateClientPort, freeClientPort).
THEOREM PortsSound == Spec => []PortNotLeaked
<1>1. IInv => PortNotLeaked
  BY DEF IInv
<1> QED
  BY <1>1, Inductive, PTL

\* What connect or listen returned keeps its entry in the maps until the
\* application closes it.
THEOREM DescriptorsSound == Spec => []HandlesLive
<1>1. IInv => HandlesLive
  <2> SUFFICES ASSUME IInv, NEW handle \in handles
               PROVE  /\ handle.call = "connect" => IsMapped(handle.fd)
                      /\ handle.call = "listen" => IsServed(handle.fd)
    BY DEF HandlesLive, IsMapped, IsServed, PortOf
  <2>1. handle.call = "connect" => IsMapped(handle.fd)
    BY DEF IInv, HandlesSound
  <2>2. handle.call = "listen" =>
           ServerFd(handle.fd) /\ endpoints[handle.fd].status = "LISTEN"
    BY DEF IInv, HandlesSound
  <2>3. handle.call = "listen" => IsServed(handle.fd)
    BY <2>2 DEF IInv, EndpointsSound, ServerFd
  <2> QED
    BY <2>1, <2>3
<1> QED
  BY <1>1, Inductive, PTL

\* An incoming stream is in one hand: a server's list, the MAC thread, an accept
\* call or the application.
THEOREM OneHand == Spec => []HandedOnce
<1>1. ASSUME NEW S, \A x, y \in S : x = y
      PROVE  Cardinality(S) \in {0, 1}
  <2>1. CASE S = {}
    BY <2>1, FS_EmptySet
  <2>2. CASE S # {}
    <3>1. PICK x \in S : S = {x}
      BY <1>1, <2>2
    <3> QED
      BY <3>1, FS_Singleton
  <2> QED
    BY <2>1, <2>2
<1>2. IInv => HandedOnce
  <2> SUFFICES ASSUME IInv, NEW fd \in Fds
               PROVE  /\ Cardinality(Holders(fd)) > 1 => IsServer(endpoints[fd].id)
                      /\ \A s \in Fds : Cardinality({i \in DOMAIN endpoints[s].pendingAccept :
                                             endpoints[s].pendingAccept[i] = fd}) <= 1
    BY DEF HandedOnce
  <2>1. OneHolder
    BY DEF IInv
  <2>2. ASSUME IsStream(endpoints[fd].id)
        PROVE  Cardinality(Holders(fd)) \in {0, 1}
    <3>1. \A x, y \in Holders(fd) : x = y
      BY <2>1, <2>2 DEF OneHolder, StreamFd
    <3> HIDE DEF Holders
    <3> QED
      BY <1>1, <3>1
  <2>3. ASSUME NEW s \in Fds
        PROVE  Cardinality({i \in DOMAIN endpoints[s].pendingAccept :
                              endpoints[s].pendingAccept[i] = fd}) <= 1
    <3>1. PICK S : S = {i \in DOMAIN endpoints[s].pendingAccept :
                          endpoints[s].pendingAccept[i] = fd}
      OBVIOUS
    <3>2. \A x, y \in S : x = y
      BY <2>1, <3>1 DEF OneHolder
    <3> QED
      BY <1>1, <3>1, <3>2
  <2>4. Cardinality(Holders(fd)) > 1 => IsServer(endpoints[fd].id)
    <3>1. CASE IsServer(endpoints[fd].id)
      BY <3>1
    <3>2. CASE IsStream(endpoints[fd].id)
      <4>1. PICK n : n = Cardinality(Holders(fd))
        OBVIOUS
      <4>2. n \in {0, 1}
        BY <4>1, <2>2, <3>2
      <4> QED
        BY <4>1, <4>2
    <3> QED
      BY <3>1, <3>2 DEF IsStream
  <2> QED
    BY <2>3, <2>4
<1> QED
  BY <1>2, Inductive, PTL

\* While connect waits, the SME queued for its id is not the CLOSED of an
\* earlier stream ("those SMES overwrite each other").
THEOREM LastWord == Spec => []LastWordIsConnect
<1>1. IInv => LastWordIsConnect
  BY DEF IInv
<1> QED
  BY <1>1, Inductive, PTL
=============================================================================
