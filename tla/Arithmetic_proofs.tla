------------------------- MODULE Arithmetic_proofs -------------------------
(***************************************************************************)
(* What the proofs need of the natural numbers: division with remainder,   *)
(* and induction without an operator parameter: a set of numbers that is   *)
(* not empty has a least element, so a claim about all numbers is proved   *)
(* by showing that no number is the least for which it fails.              *)
(***************************************************************************)
EXTENDS Integers, WellFoundedInduction, TLAPS

\* Every set of natural numbers that is not empty has a least element.
LEMMA LeastNumber ==
    ASSUME NEW T, T \subseteq Nat, T # {}
    PROVE  \E n \in T : \A m \in T : n <= m
<1>1. PICK n \in T : \A m \in T : ~ (<<m, n>> \in OpToRel(<, Nat))
  BY NatLessThanWellFounded, WFMin
<1>2. \A m \in T : ~ (m < n)
  BY <1>1 DEF OpToRel
<1> QED
  BY <1>2
-----------------------------------------------------------------------------
LEMMA DivMod ==
    ASSUME NEW a \in Nat, NEW b \in Nat \ {0}
    PROVE  /\ a \div b \in Nat /\ a % b \in 0..(b - 1)
           /\ a = b * (a \div b) + (a % b)
  OBVIOUS

\* Quotient and remainder are the only ones.
LEMMA DivModUnique ==
    ASSUME NEW b \in Nat \ {0}, NEW q \in Nat, NEW r \in 0..(b - 1)
    PROVE  (b * q + r) \div b = q /\ (b * q + r) % b = r
  OBVIOUS

LEMMA Product ==
    ASSUME NEW a \in Nat \ {0}, NEW b \in Nat \ {0}
    PROVE  a * b \in Nat \ {0} /\ a <= a * b /\ b <= a * b /\ a * b = b * a
  OBVIOUS

LEMMA Associative ==
    ASSUME NEW a \in Nat, NEW b \in Nat, NEW c \in Nat
    PROVE  (a * b) * c = a * (b * c)
  OBVIOUS

\* Counting on by one fills the remainder up, or begins a new multiple.
LEMMA DivModNext ==
    ASSUME NEW a \in Nat, NEW b \in Nat \ {0}
    PROVE  \/ /\ (a + 1) % b = 0 /\ (a % b) + 1 = b
              /\ (a + 1) \div b = (a \div b) + 1
           \/ /\ (a + 1) % b = (a % b) + 1 /\ (a % b) + 1 < b
              /\ (a + 1) \div b = a \div b
<1>1. PICK q, r : q = a \div b /\ r = a % b
  OBVIOUS
<1>2. q \in Nat /\ r \in 0..(b - 1) /\ a = b * q + r
  BY <1>1, DivMod
<1>3. CASE r + 1 = b
  <2>1. a + 1 = b * (q + 1) + 0
    BY <1>2, <1>3
  <2>2. (b * (q + 1) + 0) \div b = q + 1 /\ (b * (q + 1) + 0) % b = 0
    BY <1>2, DivModUnique
  <2> QED
    BY <1>1, <1>3, <2>1, <2>2
<1>4. CASE r + 1 # b
  <2>1. a + 1 = b * q + (r + 1) /\ r + 1 \in 0..(b - 1)
    BY <1>2, <1>4
  <2>2. (b * q + (r + 1)) \div b = q /\ (b * q + (r + 1)) % b = r + 1
    BY <1>2, <2>1, DivModUnique
  <2> QED
    BY <1>1, <1>2, <2>1, <2>2
<1> QED
  BY <1>3, <1>4

-----------------------------------------------------------------------------
\* A step that stays in a set can be taken any number of times, and leads to an
\* element of the set: what recursive functions over the numbers compute.
IsIteration(f, N, S, a, step) ==
    f \in [0..N -> S] /\ f[0] = a /\ \A n \in 1..N : f[n] = step[<<f[n - 1], n>>]

LEMMA IterationExists ==
    ASSUME NEW N \in Nat, NEW S, NEW a \in S, NEW step \in [S \X (1..N) -> S]
    PROVE  \E f : IsIteration(f, N, S, a, step)
<1> DEFINE Steps(f, n) == IsIteration(f, n, S, a, step)
           Missing == {n \in 0..N : ~ \E f : Steps(f, n)}
<1>1. SUFFICES ASSUME Missing # {} PROVE FALSE
  <2>1. ASSUME Missing = {} PROVE \E f : Steps(f, N)
    <3> HIDE DEF Steps
    <3> QED
      BY <2>1
  <2> QED
    BY <2>1
<1>2. PICK n \in Missing : \A m \in Missing : n <= m
  <2> HIDE DEF Missing
  <2>1. Missing \subseteq Nat
    BY DEF Missing
  <2> QED
    BY <1>1, <2>1, LeastNumber
<1>3. CASE n = 0
  <2>1. Steps([i \in 0..0 |-> a], 0)
    BY DEF IsIteration
  <2> QED
    BY <1>2, <1>3, <2>1
<1>4. CASE n # 0
  <2>1. n \in 1..N /\ n - 1 \in 0..N /\ n - 1 < n
    BY <1>2, <1>4
  <2>2. PICK f : Steps(f, n - 1)
    <3> HIDE DEF Steps
    <3> QED
      BY <1>2, <2>1
  <2> DEFINE g == [i \in 0..n |-> IF i = n THEN step[<<f[n - 1], n>>] ELSE f[i]]
  <2>3. f[n - 1] \in S /\ step[<<f[n - 1], n>>] \in S
    BY <2>1, <2>2 DEF IsIteration
  <2>4. g \in [0..n -> S] /\ g[0] = a
    BY <2>1, <2>2, <2>3 DEF IsIteration
  <2>5. ASSUME NEW i \in 1..n PROVE g[i] = step[<<g[i - 1], i>>]
    <3>1. CASE i = n
      <4>1. g[i - 1] = f[n - 1] /\ g[i] = step[<<f[n - 1], n>>]
        BY <2>1, <3>1
      <4> QED
        BY <3>1, <4>1
    <3>2. CASE i # n
      <4>1. i \in 1..(n - 1) /\ g[i] = f[i] /\ g[i - 1] = f[i - 1]
        BY <2>1, <3>2
      <4> QED
        BY <2>2, <4>1 DEF IsIteration
    <3> QED
      BY <3>1, <3>2
  <2>6. Steps(g, n)
    BY <2>4, <2>5 DEF IsIteration
  <2> QED
    BY <1>2, <2>6
<1> QED
  BY <1>3, <1>4

LEMMA IterationStays ==
    ASSUME NEW N \in Nat, NEW S, NEW f, f[0] \in S,
           \A n \in 1..N : f[n - 1] \in S => f[n] \in S
    PROVE  \A n \in 0..N : f[n] \in S
<1> DEFINE Bad == {n \in 0..N : f[n] \notin S}
<1>1. SUFFICES ASSUME Bad # {} PROVE FALSE
  OBVIOUS
<1>2. PICK n \in Bad : \A m \in Bad : n <= m
  <2> HIDE DEF Bad
  <2>1. Bad \subseteq Nat
    BY DEF Bad
  <2> QED
    BY <1>1, <2>1, LeastNumber
<1>3. n \in 1..N /\ n - 1 \in 0..N /\ n - 1 < n
  BY <1>2
<1>4. f[n - 1] \in S
  BY <1>2, <1>3
<1> QED
  BY <1>2, <1>3, <1>4


-----------------------------------------------------------------------------
\* A loop that counts a measure down ends: the recursive function that stands for
\* it exists.
IsLoop(f, S, R, last, out, next) ==
    f \in [S -> R] /\ \A s \in S : f[s] = IF s \in last THEN out[s] ELSE f[next[s]]

LEMMA LoopEnds ==
    ASSUME NEW S, NEW R, NEW measure \in [S -> Nat], NEW last, NEW out \in [S -> R], NEW next \in [S -> S],
           \A s \in S : s \notin last => measure[next[s]] < measure[s]
    PROVE  \E f : IsLoop(f, S, R, last, out, next)
<1> DEFINE Below(n) == {s \in S : measure[s] < n}
           Part(f, n) == f \in [Below(n) -> R] /\ \A s \in Below(n) :
                            f[s] = IF s \in last THEN out[s] ELSE f[next[s]]
           Missing == {n \in Nat : ~ \E f : Part(f, n)}
<1>1. Missing = {}
  <2> SUFFICES ASSUME Missing # {} PROVE FALSE
    OBVIOUS
  <2>1. PICK n \in Missing : \A m \in Missing : n <= m
    <3> HIDE DEF Missing
    <3>1. Missing \subseteq Nat
      BY DEF Missing
    <3> QED
      BY <3>1, LeastNumber
  <2>2. CASE n = 0
    <3>1. Below(0) = {}
      OBVIOUS
    <3>2. Part([s \in Below(0) |-> out[s]], 0)
      BY <3>1
    <3> QED
      BY <2>1, <2>2, <3>2
  <2>3. CASE n # 0
    <3>1. n - 1 \in Nat /\ n - 1 < n
      BY <2>1, <2>3
    <3>2. PICK f : Part(f, n - 1)
      <4> HIDE DEF Part
      <4> QED
        BY <2>1, <3>1
    <3> DEFINE g == [s \in Below(n) |-> IF s \in last THEN out[s] ELSE f[next[s]]]
    <3>3. \A s \in Below(n) : s \notin last => next[s] \in Below(n - 1)
      BY <2>1, <3>1
    <3>4. Below(n - 1) \subseteq Below(n)
      BY <2>1, <3>1
    <3>5. \A s \in Below(n - 1) : g[s] = f[s]
      BY <3>2, <3>4
    <3>6. g \in [Below(n) -> R]
      BY <3>2, <3>3
    <3>7. \A s \in Below(n) : g[s] = IF s \in last THEN out[s] ELSE g[next[s]]
      BY <3>3, <3>5
    <3> HIDE DEF g
    <3>8. Part(g, n)
      BY <3>6, <3>7
    <3> HIDE DEF Part
    <3> QED
      BY <2>1, <3>8
  <2> QED
    BY <2>2, <2>3
<1>2. ASSUME NEW m \in Nat, NEW n \in Nat, NEW f, NEW g, Part(f, m), Part(g, n)
      PROVE  \A s \in Below(m) \cap Below(n) : f[s] = g[s]
  <2> DEFINE Bad == {k \in Nat : \E s \in Below(m) \cap Below(n) : measure[s] = k /\ f[s] # g[s]}
  <2> SUFFICES ASSUME Bad # {} PROVE FALSE
    <3> HIDE DEF Below, Part
    <3>1. \A s \in Below(m) : s \in S
      BY DEF Below
    <3> QED
      BY <3>1
  <2>1. PICK k \in Bad : \A j \in Bad : k <= j
    <3> HIDE DEF Bad
    <3>1. Bad \subseteq Nat
      BY DEF Bad
    <3> QED
      BY <3>1, LeastNumber
  <2>2. PICK s \in Below(m) \cap Below(n) : measure[s] = k /\ f[s] # g[s]
    BY <2>1
  <2>3. s \notin last
    BY <1>2, <2>2
  <2>4. f[s] = f[next[s]] /\ g[s] = g[next[s]]
    BY <1>2, <2>2, <2>3
  <2>5. next[s] \in Below(m) \cap Below(n) /\ measure[next[s]] < k /\ measure[next[s]] \in Nat
    BY <2>2, <2>3
  <2>6. measure[next[s]] \in Bad
    BY <2>2, <2>4, <2>5
  <2> QED
    BY <2>1, <2>5, <2>6
<1> DEFINE part == [n \in Nat |-> CHOOSE f : Part(f, n)]
           h == [s \in S |-> part[measure[s] + 1][s]]
<1>3. \A n \in Nat : Part(part[n], n)
  <2> HIDE DEF Part
  <2> QED
    BY <1>1
<1> HIDE DEF part
<1>4. \A s \in S : s \in Below(measure[s] + 1) /\ measure[s] + 1 \in Nat
  OBVIOUS
<1>5. h \in [S -> R]
  BY <1>3, <1>4
<1>6. ASSUME NEW s \in S PROVE h[s] = IF s \in last THEN out[s] ELSE h[next[s]]
  <2>1. CASE s \in last
    BY <1>3, <1>4, <2>1
  <2>2. CASE s \notin last
    <3>1. h[s] = part[measure[s] + 1][next[s]]
      BY <1>3, <1>4, <2>2
    <3>2. next[s] \in S /\ measure[next[s]] < measure[s]
      BY <2>2
    <3>3. next[s] \in Below(measure[s] + 1) \cap Below(measure[next[s]] + 1)
      BY <1>4, <3>2
    <3> HIDE DEF Below, Part
    <3>4. part[measure[s] + 1][next[s]] = part[measure[next[s]] + 1][next[s]]
      BY <1>2, <1>3, <1>4, <3>2, <3>3
    <3> QED
      BY <2>2, <3>1, <3>2, <3>4
  <2> QED
    BY <2>1, <2>2
<1> QED
  BY <1>5, <1>6 DEF IsLoop

\* What holds of the outcomes, and is handed back by each pass, holds of the loop.
LEMMA LoopKeeps ==
    ASSUME NEW S, NEW R, NEW measure \in [S -> Nat], NEW last, NEW out, NEW next \in [S -> S],
           \A s \in S : s \notin last => measure[next[s]] < measure[s],
           NEW f, IsLoop(f, S, R, last, out, next), NEW I,
           \A s \in S : s \in last => <<s, out[s]>> \in I,
           \A s \in S, r \in R : (s \notin last /\ <<next[s], r>> \in I) => <<s, r>> \in I
    PROVE  \A s \in S : <<s, f[s]>> \in I
<1> DEFINE Bad == {k \in Nat : \E s \in S : measure[s] = k /\ <<s, f[s]>> \notin I}
<1> SUFFICES ASSUME Bad # {} PROVE FALSE
  OBVIOUS
<1>1. PICK k \in Bad : \A j \in Bad : k <= j
  <2> HIDE DEF Bad
  <2>1. Bad \subseteq Nat
    BY DEF Bad
  <2> QED
    BY <2>1, LeastNumber
<1>2. PICK s \in S : measure[s] = k /\ <<s, f[s]>> \notin I
  BY <1>1
<1>3. s \notin last /\ f[s] = f[next[s]] /\ next[s] \in S /\ f[next[s]] \in R
  BY <1>2 DEF IsLoop
<1>4. measure[next[s]] < k /\ measure[next[s]] \in Nat /\ <<next[s], f[next[s]]>> \notin I
  BY <1>2, <1>3
<1>5. measure[next[s]] \in Bad
  BY <1>3, <1>4
<1>6. k \in Nat /\ k <= measure[next[s]]
  BY <1>1, <1>5
<1> QED
  BY <1>4, <1>6


\* A function that is defined by the loop is the loop.
LEMMA LoopTyped ==
    ASSUME NEW S, NEW R, NEW measure \in [S -> Nat], NEW last, NEW out \in [S -> R], NEW next \in [S -> S],
           \A s \in S : s \notin last => measure[next[s]] < measure[s],
           NEW f, f = [s \in S |-> IF s \in last THEN out[s] ELSE f[next[s]]]
    PROVE  IsLoop(f, S, R, last, out, next)
<1> DEFINE Bad == {k \in Nat : \E s \in S : measure[s] = k /\ f[s] \notin R}
<1>1. \A s \in S : f[s] = IF s \in last THEN out[s] ELSE f[next[s]]
  OBVIOUS
<1>2. Bad = {}
  <2> SUFFICES ASSUME Bad # {} PROVE FALSE
    OBVIOUS
  <2>1. PICK k \in Bad : \A j \in Bad : k <= j
    <3> HIDE DEF Bad
    <3>1. Bad \subseteq Nat
      BY DEF Bad
    <3> QED
      BY <3>1, LeastNumber
  <2>2. PICK s \in S : measure[s] = k /\ f[s] \notin R
    BY <2>1
  <2>3. s \notin last /\ f[next[s]] \notin R /\ next[s] \in S
    BY <1>1, <2>2
  <2>4. measure[next[s]] < k /\ measure[next[s]] \in Nat
    BY <2>2, <2>3
  <2>5. measure[next[s]] \in Bad
    BY <2>3, <2>4
  <2>6. k \in Nat /\ k <= measure[next[s]]
    BY <2>1, <2>5
  <2> QED
    BY <2>4, <2>6
<1>3. \A s \in S : f[s] \in R
  <2> SUFFICES ASSUME NEW s \in S PROVE f[s] \in R
    OBVIOUS
  <2>1. measure[s] \in Nat
    OBVIOUS
  <2> QED
    BY <1>2, <2>1
<1>4. f \in [S -> R]
  BY <1>3
<1> QED
  BY <1>1, <1>4 DEF IsLoop


LEMMA IntDivMod ==
    ASSUME NEW a \in Int, NEW b \in Nat \ {0}
    PROVE  /\ a \div b \in Int /\ a % b \in 0..(b - 1)
           /\ a = b * (a \div b) + (a % b)
  OBVIOUS

LEMMA IntDivModUnique ==
    ASSUME NEW b \in Nat \ {0}, NEW q \in Int, NEW r \in 0..(b - 1)
    PROVE  (b * q + r) \div b = q /\ (b * q + r) % b = r
  OBVIOUS

\* Remainders go round, and whole rounds do not count.
LEMMA RemainderNext ==
    ASSUME NEW a \in Int, NEW b \in Nat \ {0}
    PROVE  ((a % b) + 1) % b = (a + 1) % b
<1>1. PICK q, r : q = a \div b /\ r = a % b
  OBVIOUS
<1>2. q \in Int /\ r \in 0..(b - 1) /\ a = b * q + r
  BY <1>1, IntDivMod
<1>3. CASE r + 1 = b
  <2>1. a + 1 = b * (q + 1) + 0
    BY <1>2, <1>3
  <2>2. (a + 1) % b = 0
    BY <1>2, <2>1, IntDivModUnique
  <2>3. r + 1 = b * 1 + 0
    BY <1>2, <1>3
  <2>4. (r + 1) % b = 0
    BY <1>2, <2>3, IntDivModUnique
  <2> QED
    BY <1>1, <2>2, <2>4
<1>4. CASE r + 1 # b
  <2>1. a + 1 = b * q + (r + 1) /\ r + 1 \in 0..(b - 1)
    BY <1>2, <1>4
  <2>2. (a + 1) % b = r + 1
    BY <1>2, <2>1, IntDivModUnique
  <2>3. r + 1 = b * 0 + (r + 1)
    BY <1>2
  <2>4. (r + 1) % b = r + 1
    BY <2>1, <2>3, IntDivModUnique
  <2> QED
    BY <1>1, <2>2, <2>4
<1> QED
  BY <1>3, <1>4

LEMMA RemainderRound ==
    ASSUME NEW a \in Int, NEW b \in Nat \ {0}, NEW k \in Int
    PROVE  (a - (k * b)) % b = a % b
<1>1. PICK q, r : q = a \div b /\ r = a % b
  OBVIOUS
<1>2. q \in Int /\ r \in 0..(b - 1) /\ a = b * q + r
  BY <1>1, IntDivMod
<1>3. a - (k * b) = b * (q - k) + r /\ q - k \in Int
  BY <1>2
<1>4. (b * (q - k) + r) % b = r
  BY <1>2, <1>3, IntDivModUnique
<1> QED
  BY <1>1, <1>3, <1>4

\* How many multiples lie between two numbers: at most as many as the distance
\* has parts of that length.
LEMMA StepsPassed ==
    ASSUME NEW a \in Nat, NEW d \in Nat, NEW p \in Nat \ {0}, NEW k \in Nat, d <= k * p
    PROVE  /\ (a + d) \div p \in Nat /\ a \div p \in Nat
           /\ a \div p <= (a + d) \div p
           /\ (a + d) \div p <= (a \div p) + k
<1>1. PICK q, r, s, t : q = a \div p /\ r = a % p /\ s = (a + d) \div p /\ t = (a + d) % p
  OBVIOUS
<1>2. q \in Nat /\ r \in 0..(p - 1) /\ a = p * q + r /\ s \in Nat /\ t \in 0..(p - 1) /\ a + d = p * s + t
  <2>1. q \in Nat /\ r \in 0..(p - 1) /\ a = p * q + r
    BY <1>1, DivMod
  <2>2. PICK b \in Nat : b = a + d
    OBVIOUS
  <2>3. s \in Nat /\ t \in 0..(p - 1) /\ b = p * s + t
    BY <1>1, <2>2, DivMod
  <2> QED
    BY <2>1, <2>2, <2>3
<1>3. q <= s
  <2> SUFFICES ASSUME q >= s + 1 PROVE FALSE
    BY <1>2
  <2>1. p * (s + 1) <= p * q
    BY <1>2
  <2> QED
    BY <1>2, <2>1
<1>4. s <= q + k
  <2> SUFFICES ASSUME s >= q + k + 1 PROVE FALSE
    BY <1>2
  <2>1. p * (q + k + 1) <= p * s
    BY <1>2
  <2>2. p * (q + k + 1) = p * q + k * p + p
    BY <1>2
  <2> QED
    BY <1>2, <2>1, <2>2
<1> QED
  BY <1>1, <1>2, <1>3, <1>4
=============================================================================
