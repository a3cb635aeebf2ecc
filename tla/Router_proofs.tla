--------------------------- MODULE Router_proofs ---------------------------
(***************************************************************************)
(* What the router returns follows the links of the graph: every block of  *)
(* transmissions is a path from the source of a stream to its destination  *)
(* that meets no node twice.  The two searches keep only such paths, and   *)
(* an iteration that starts with one and keeps to them ends with one.      *)
(***************************************************************************)
EXTENDS Router, Arithmetic_proofs

\* Appending adds an element to a sequence, taking off the first adds none.
LEMMA AppendSet ==
    ASSUME NEW S, NEW s \in Seq(S), NEW x \in S
    PROVE  ToSet(Append(s, x)) = ToSet(s) \cup {x} /\ ToSet(s) \subseteq S
<1> DEFINE n == Len(s)
           t == Append(s, x)
<1>1. t \in Seq(S) /\ DOMAIN t = 1..(n + 1) /\ DOMAIN s = 1..n /\ n \in Nat
      /\ t[n + 1] = x /\ \A i \in 1..n : t[i] = s[i] /\ s[i] \in S
  OBVIOUS
<1>2. \A y \in ToSet(t) : y \in ToSet(s) \cup {x}
  BY <1>1 DEF ToSet
<1>3. \A y \in ToSet(s) \cup {x} : y \in ToSet(t)
  <2> SUFFICES ASSUME NEW y \in ToSet(s) \cup {x} PROVE \E i \in 1..(n + 1) : t[i] = y
    BY <1>1 DEF ToSet
  <2>1. CASE y = x
    BY <1>1, <2>1
  <2>2. CASE y # x
    <3>1. PICK i \in 1..n : s[i] = y
      BY <1>1, <2>2 DEF ToSet
    <3> QED
      BY <1>1, <3>1
  <2> QED
    BY <2>1, <2>2
<1> QED
  BY <1>1, <1>2, <1>3 DEF ToSet

LEMMA TailSet ==
    ASSUME NEW S, NEW s \in Seq(S), s # <<>>
    PROVE  Tail(s) \in Seq(S) /\ ToSet(Tail(s)) \subseteq ToSet(s) /\ Head(s) \in ToSet(s)
<1>1. Tail(s) \in Seq(S) /\ Len(s) \in Nat \ {0} /\ Len(Tail(s)) = Len(s) - 1
      /\ \A i \in 1..(Len(s) - 1) : Tail(s)[i] = s[i + 1]
  OBVIOUS
<1>2. DOMAIN Tail(s) = 1..(Len(s) - 1) /\ DOMAIN s = 1..Len(s) /\ Head(s) = s[1]
  BY <1>1
<1> QED
  BY <1>1, <1>2 DEF ToSet

\* No node is its own neighbor.
Irreflexive(g) == \A e \in g : e[1] # e[2]

\* The ways from a to b along the links.  They meet no node twice, unless a node
\* is its own neighbor.
Follows(g, p) == \A i \in 1..(Len(p) - 1) : HasEdge(g, p[i], p[i + 1])
Routes(c, g, a, b) ==
    {p \in Seq(NodeIds(c)) : p # <<>> /\ p[1] = a /\ Last(p) = b /\ Follows(g, p)
                              /\ (Irreflexive(g) => IsPath(g, p))}

LEMMA ExtendRoute ==
    ASSUME NEW c, NEW g, NEW a, NEW b, NEW p \in Routes(c, g, a, b),
           NEW child \in NodeIds(c), HasEdge(g, b, child),
           Irreflexive(g) => child \notin ToSet(p)
    PROVE  /\ Append(p, child) \in Routes(c, g, a, child)
           /\ ToSet(Append(p, child)) = ToSet(p) \cup {child}
<1> DEFINE n == Len(p)
           q == Append(p, child)
<1>1. p \in Seq(NodeIds(c)) /\ p # <<>> /\ p[1] = a /\ p[n] = b /\ Follows(g, p)
      /\ (Irreflexive(g) => IsPath(g, p)) /\ n \in Nat \ {0}
  BY DEF Routes, Last
<1>2. q \in Seq(NodeIds(c)) /\ Len(q) = n + 1 /\ q[n + 1] = child /\ \A i \in 1..n : q[i] = p[i]
  BY <1>1
<1>3. Irreflexive(g) => \A i \in 1..n : child # p[i]
  BY <1>1 DEF ToSet
<1>4. \A i \in 1..(Len(q) - 1) : HasEdge(g, q[i], q[i + 1])
  <2> SUFFICES ASSUME NEW i \in 1..n PROVE HasEdge(g, q[i], q[i + 1])
    BY <1>1, <1>2
  <2>1. CASE i = n
    BY <1>1, <1>2, <2>1
  <2>2. CASE i # n
    <3>1. i \in 1..(n - 1) /\ i + 1 \in 1..n
      BY <1>1, <2>2
    <3> QED
      BY <1>1, <1>2, <3>1 DEF Follows
  <2> QED
    BY <2>1, <2>2
<1>5. Irreflexive(g) => \A i, j \in DOMAIN q : q[i] = q[j] => i = j
  <2>1. DOMAIN q = 1..(n + 1) /\ DOMAIN p = 1..n
    BY <1>1, <1>2
  <2> SUFFICES ASSUME Irreflexive(g), NEW i \in 1..(n + 1), NEW j \in 1..(n + 1), q[i] = q[j] PROVE i = j
    BY <2>1
  <2>2. CASE i \in 1..n /\ j \in 1..n
    BY <1>1, <1>2, <2>1, <2>2 DEF IsPath
  <2>3. CASE i = n + 1 \/ j = n + 1
    BY <1>1, <1>2, <1>3, <2>3
  <2> QED
    BY <1>1, <2>2, <2>3
<1>6. ToSet(q) = ToSet(p) \cup {child}
  BY <1>1, AppendSet
<1> QED
  <2>1. q # <<>> /\ q[1] = a /\ Last(q) = child
    BY <1>1, <1>2 DEF Last
  <2> QED
    BY <1>2, <1>4, <1>5, <1>6, <2>1 DEF Routes, IsPath, Follows

LEMMA RouteOfOne ==
    ASSUME NEW c, NEW g, NEW a \in NodeIds(c)
    PROVE  <<a>> \in Routes(c, g, a, a)
<1>1. <<a>> \in Seq(NodeIds(c)) /\ Last(<<a>>) = a
  BY DEF Last
<1>2. IsPath(g, <<a>>) /\ Follows(g, <<a>>)
  BY DEF IsPath, Follows
<1> QED
  BY <1>1, <1>2 DEF Routes
-----------------------------------------------------------------------------
(***************************************************************************)
(* Breadth first: the path to every node of the open set is a route, and   *)
(* its other nodes have been visited.                                      *)
(***************************************************************************)
SearchStates(c) ==
    [openSet : Seq(NodeIds(c)), visited : SUBSET NodeIds(c),
     pathTo : [NodeIds(c) -> Seq(NodeIds(c))]]

Reached(c, g, src, s, n, visited) ==
    s.pathTo[n] \in Routes(c, g, src, n) /\ ToSet(s.pathTo[n]) \ {n} \subseteq visited

BetweenRounds(c, g, src) ==
    {s \in SearchStates(c) : \A n \in ToSet(s.openSet) : Reached(c, g, src, s, n, s.visited)}
InRound(c, g, src, top) ==
    {s \in SearchStates(c) :
        /\ Reached(c, g, src, s, top, s.visited)
        /\ \A n \in ToSet(s.openSet) : Reached(c, g, src, s, n, s.visited \cup {top})}

LEMMA EnterKeeps ==
    ASSUME NEW c, NEW g, NEW src, NEW top \in NodeIds(c), NEW s \in InRound(c, g, src, top),
           NEW child \in NodeIds(c)
    PROVE  Enter(g, top, s, child) \in InRound(c, g, src, top)
<1>1. CASE ~(HasEdge(g, top, child) /\ child \notin s.visited \cup ToSet(s.openSet))
  BY <1>1 DEF Enter
<1>2. CASE HasEdge(g, top, child) /\ child \notin s.visited \cup ToSet(s.openSet)
  <2> DEFINE path == Append(s.pathTo[top], child)
             pathTo == [s.pathTo EXCEPT ![child] = path]
             t == [openSet |-> Append(s.openSet, child), visited |-> s.visited, pathTo |-> pathTo]
  <2>1. Enter(g, top, s, child) = t
    BY <1>2 DEF Enter
  <2>2. s \in SearchStates(c) /\ Reached(c, g, src, s, top, s.visited)
        /\ \A n \in ToSet(s.openSet) : Reached(c, g, src, s, n, s.visited \cup {top})
    BY DEF InRound
  <2>3. Irreflexive(g) => child # top
    BY <1>2 DEF HasEdge, Irreflexive
  <2>4. Irreflexive(g) => child \notin ToSet(s.pathTo[top])
    BY <1>2, <2>2, <2>3 DEF Reached
  <2>5. path \in Routes(c, g, src, child) /\ ToSet(path) = ToSet(s.pathTo[top]) \cup {child}
    BY <1>2, <2>2, <2>4, ExtendRoute DEF Reached
  <2>6. path \in Seq(NodeIds(c))
    BY <2>5 DEF Routes
  <2> HIDE DEF path
  <2>7. t \in SearchStates(c) /\ t.visited = s.visited /\ t.openSet = Append(s.openSet, child)
    <3>1. Append(s.openSet, child) \in Seq(NodeIds(c))
      BY <2>2 DEF SearchStates
    <3>2. pathTo \in [NodeIds(c) -> Seq(NodeIds(c))]
      BY <2>2, <2>6 DEF SearchStates
    <3> HIDE DEF pathTo
    <3> QED
      BY <2>2, <3>1, <3>2 DEF SearchStates
  <2>8. t.pathTo[child] = path /\ \A n \in NodeIds(c) \ {child} : t.pathTo[n] = s.pathTo[n]
    BY <2>2 DEF SearchStates
  <2>9. ToSet(t.openSet) = ToSet(s.openSet) \cup {child} /\ ToSet(s.openSet) \subseteq NodeIds(c)
    BY <2>2, <2>7, AppendSet DEF SearchStates
  <2>10. Reached(c, g, src, t, top, t.visited)
    <3>1. CASE child # top
      BY <2>2, <2>7, <2>8, <3>1 DEF Reached
    <3>2. CASE child = top
      BY <2>2, <2>5, <2>7, <2>8, <3>2 DEF Reached
    <3> QED
      BY <3>1, <3>2
  <2>11. \A n \in ToSet(s.openSet) : Reached(c, g, src, t, n, t.visited \cup {top})
    BY <1>2, <2>2, <2>7, <2>8, <2>9 DEF Reached
  <2>12. Reached(c, g, src, t, child, t.visited \cup {top})
    <3>1. ToSet(s.pathTo[top]) \ {top} \subseteq s.visited
      BY <2>2 DEF Reached
    <3> QED
      BY <2>5, <2>7, <2>8, <3>1 DEF Reached
  <2>13. t \in InRound(c, g, src, top)
    <3> HIDE DEF t
    <3> QED
      BY <2>7, <2>9, <2>10, <2>11, <2>12 DEF InRound
  <2> QED
    BY <2>1, <2>13
<1> QED
  BY <1>1, <1>2

LEMMA EnterAllKeeps ==
    ASSUME NEW c, NEW g, c.maxNodes \in Nat, NEW src, NEW top \in NodeIds(c),
           NEW s \in InRound(c, g, src, top)
    PROVE  EnterAll(c, g, top, s) \in InRound(c, g, src, top)
<1> DEFINE N == c.maxNodes
           S == InRound(c, g, src, top)
           Is(after) == after = [k \in 0..N |-> IF k = 0 THEN s ELSE Enter(g, top, after[k - 1], k - 1)]
           step == [x \in S \X (1..N) |-> Enter(g, top, x[1], x[2] - 1)]
           f == CHOOSE after : Is(after)
<1>1. \A x \in S, k \in 1..N : Enter(g, top, x, k - 1) \in S
  <2> SUFFICES ASSUME NEW x \in S, NEW k \in 1..N PROVE Enter(g, top, x, k - 1) \in S
    OBVIOUS
  <2>1. k - 1 \in NodeIds(c)
    BY DEF NodeIds
  <2> QED
    BY <2>1, EnterKeeps
<1>2. EnterAll(c, g, top, s) = f[N]
  BY DEF EnterAll
<1> N \in Nat
  OBVIOUS
<1> HIDE DEF S, N
<1>3. step \in [S \X (1..N) -> S] /\ s \in S
  BY <1>1 DEF S
<1>4. \E after : Is(after)
  <2>1. PICK h : IsIteration(h, N, S, s, step)
    <3> HIDE DEF step
    <3> QED
      BY <1>3, IterationExists
  <2>2. \A n \in 1..N : n - 1 \in 0..N /\ n \in 0..N
    OBVIOUS
  <2>3. \A n \in 1..N : h[n] = Enter(g, top, h[n - 1], n - 1)
    BY <2>1, <2>2 DEF IsIteration
  <2>4. Is(h)
    BY <2>1, <2>3 DEF IsIteration
  <2> QED
    BY <2>4
<1>5. Is(f)
  <2> HIDE DEF Is
  <2> QED
    BY <1>4
<1>6. f[0] = s /\ \A n \in 1..N : f[n] = Enter(g, top, f[n - 1], n - 1)
  <2> HIDE DEF f
  <2>1. \A n \in 1..N : n \in 0..N /\ n # 0
    OBVIOUS
  <2>2. 0 \in 0..N
    OBVIOUS
  <2> QED
    BY <1>5, <2>1, <2>2
<1> HIDE DEF f, step, Is
<1>7. \A n \in 0..N : f[n] \in S
  <2>1. \A n \in 1..N : f[n - 1] \in S => f[n] \in S
    BY <1>1, <1>6
  <2> QED
    BY <1>3, <1>6, <2>1, IterationStays, Zenon
<1> QED
  BY <1>2, <1>7 DEF S

LEMMA RoundKeeps ==
    ASSUME NEW c, NEW g, c.maxNodes \in Nat, NEW src, NEW s \in BetweenRounds(c, g, src),
           s.openSet # <<>>
    PROVE  Round(c, g, s) \in BetweenRounds(c, g, src)
<1> DEFINE top == Head(s.openSet)
           open == Tail(s.openSet)
           taken == [s EXCEPT !.openSet = open]
           entered == EnterAll(c, g, top, taken)
<1>1. s \in SearchStates(c) /\ \A n \in ToSet(s.openSet) : Reached(c, g, src, s, n, s.visited)
  BY DEF BetweenRounds
<1>2. open \in Seq(NodeIds(c)) /\ ToSet(open) \subseteq ToSet(s.openSet) /\ top \in ToSet(s.openSet)
  BY <1>1, TailSet DEF SearchStates
<1>3. ToSet(s.openSet) \subseteq NodeIds(c)
  BY <1>1 DEF SearchStates, ToSet
<1>4. taken \in SearchStates(c) /\ taken.openSet = open /\ taken.visited = s.visited
      /\ taken.pathTo = s.pathTo
  <2> HIDE DEF open
  <2> QED
    BY <1>1, <1>2 DEF SearchStates
<1> HIDE DEF taken, top, open
<1>5. taken \in InRound(c, g, src, top)
  <2>1. Reached(c, g, src, taken, top, taken.visited)
    BY <1>1, <1>2, <1>4 DEF Reached
  <2>2. \A n \in ToSet(taken.openSet) : Reached(c, g, src, taken, n, taken.visited \cup {top})
    BY <1>1, <1>2, <1>4 DEF Reached
  <2> QED
    BY <1>4, <2>1, <2>2 DEF InRound
<1>6. entered \in InRound(c, g, src, top)
  BY <1>2, <1>3, <1>5, EnterAllKeeps
<1> DEFINE t == [entered EXCEPT !.visited = @ \cup {top}]
<1>7. Round(c, g, s) = t
  BY DEF Round, taken, top, open
<1> HIDE DEF entered
<1>8. entered \in SearchStates(c)
      /\ \A n \in ToSet(entered.openSet) : Reached(c, g, src, entered, n, entered.visited \cup {top})
  BY <1>6 DEF InRound
<1>9. t \in SearchStates(c) /\ t.openSet = entered.openSet /\ t.visited = entered.visited \cup {top}
      /\ t.pathTo = entered.pathTo
  BY <1>2, <1>3, <1>8 DEF SearchStates
<1> HIDE DEF t
<1> QED
  BY <1>7, <1>8, <1>9 DEF BetweenRounds, Reached

LEMMA SearchReaches ==
    ASSUME NEW c, NEW g, c.maxNodes \in Nat, NEW src \in NodeIds(c), NEW dst
    PROVE  Search(c, g, src, dst) \in BetweenRounds(c, g, src)
<1> DEFINE N == c.maxNodes
           S == BetweenRounds(c, g, src)
           s == [openSet |-> <<src>>, visited |-> {src}, pathTo |-> [n \in NodeIds(c) |-> <<src>>]]
           Next(x) == IF AtEnd(x, dst) THEN x ELSE Round(c, g, x)
           Is(after) == after = [k \in 0..N |-> IF k = 0 THEN s
                                                ELSE IF AtEnd(after[k - 1], dst) THEN after[k - 1]
                                                ELSE Round(c, g, after[k - 1])]
           step == [x \in S \X (1..N) |-> Next(x[1])]
           f == CHOOSE after : Is(after)
<1>1. \A x \in S : Next(x) \in S
  <2> SUFFICES ASSUME NEW x \in S, ~AtEnd(x, dst) PROVE Round(c, g, x) \in S
    OBVIOUS
  <2>1. x.openSet # <<>>
    BY DEF AtEnd
  <2> QED
    BY <2>1, RoundKeeps
<1>2. Search(c, g, src, dst) = f[N]
  BY DEF Search
<1>3. s \in S
  <2>1. <<src>> \in Seq(NodeIds(c)) /\ ToSet(<<src>>) = {src} /\ Last(<<src>>) = src
    BY DEF ToSet, Last
  <2>2. <<src>> \in Routes(c, g, src, src)
    BY RouteOfOne
  <2>3. s \in SearchStates(c)
    BY <2>1 DEF SearchStates
  <2>4. Reached(c, g, src, s, src, s.visited)
    BY <2>1, <2>2 DEF Reached
  <2>5. ToSet(s.openSet) = {src}
    BY <2>1
  <2> HIDE DEF s
  <2> QED
    BY <2>3, <2>4, <2>5 DEF BetweenRounds
<1> N \in Nat
  OBVIOUS
<1> HIDE DEF S, s, N
<1>4. step \in [S \X (1..N) -> S]
  <2> HIDE DEF Next
  <2> QED
    BY <1>1
<1>5. \E after : Is(after)
  <2>1. PICK h : IsIteration(h, N, S, s, step)
    <3> HIDE DEF step
    <3> QED
      BY <1>3, <1>4, IterationExists
  <2>2. \A n \in 1..N : n - 1 \in 0..N /\ n \in 0..N
    OBVIOUS
  <2>3. \A n \in 1..N : h[n] = Next(h[n - 1])
    <3> HIDE DEF Next
    <3> QED
      BY <2>1, <2>2 DEF IsIteration
  <2>4. Is(h)
    BY <2>1, <2>3 DEF IsIteration
  <2> QED
    BY <2>4
<1>6. Is(f)
  <2> HIDE DEF Is
  <2> QED
    BY <1>5
<1>7. f[0] = s /\ \A n \in 1..N : f[n] = Next(f[n - 1])
  <2> HIDE DEF f
  <2>1. \A n \in 1..N : n \in 0..N /\ n # 0
    OBVIOUS
  <2>2. 0 \in 0..N
    OBVIOUS
  <2> QED
    BY <1>6, <2>1, <2>2
<1> HIDE DEF f, step, Is, Next
<1>8. \A n \in 0..N : f[n] \in S
  BY <1>1, <1>3, <1>7, IterationStays, Zenon
<1> QED
  BY <1>2, <1>8 DEF S

LEMMA BreadthFirstRoutes ==
    ASSUME NEW c, NEW g, c.maxNodes \in Nat, NEW src \in NodeIds(c), NEW dst
    PROVE  BreadthFirstSearch(c, g, src, dst) \in Routes(c, g, src, dst) \cup {<<>>}
<1> DEFINE s == Search(c, g, src, dst)
<1>1. s \in SearchStates(c) /\ \A n \in ToSet(s.openSet) : Reached(c, g, src, s, n, s.visited)
  BY SearchReaches DEF BetweenRounds
<1>2. ASSUME s.openSet # <<>>, AtEnd(s, dst) PROVE s.pathTo[dst] \in Routes(c, g, src, dst)
  <2>1. dst \in ToSet(s.openSet)
    BY <1>1, <1>2, TailSet DEF AtEnd, SearchStates
  <2> QED
    BY <1>1, <2>1 DEF Reached
<1> QED
  BY <1>2 DEF BreadthFirstSearch
-----------------------------------------------------------------------------

(***************************************************************************)
(* Depth first: a run that starts with a route finds continuations of it.  *)
(***************************************************************************)
LEMMA LookAroundIn ==
    ASSUME NEW c, NEW g, c.maxNodes \in Nat, NEW T, NEW path, NEW limit \in Nat, NEW below,
           \A child \in NodeIds(c), l \in Nat : HasEdge(g, Last(path), child) /\ child \notin ToSet(path)
               => below[<<Append(path, child), l>>] \in Seq(T)
    PROVE  LookAround(c, g, path, limit, below) \in Seq(T)
<1> DEFINE N == c.maxNodes
           S == [limit : Nat, found : Seq(T)]
           s == [limit |-> limit, found |-> <<>>]
           Is(after) == after = [k \in 0..N |-> IF k = 0 THEN s ELSE LookAt(g, path, below, after[k - 1], k - 1)]
           step == [x \in S \X (1..N) |-> LookAt(g, path, below, x[1], x[2] - 1)]
           f == CHOOSE after : Is(after)
<1>1. \A x \in S, k \in 1..N : LookAt(g, path, below, x, k - 1) \in S
  <2> SUFFICES ASSUME NEW x \in S, NEW k \in 1..N PROVE LookAt(g, path, below, x, k - 1) \in S
    OBVIOUS
  <2> DEFINE child == k - 1
             l == x.limit - 1
             beyond == below[<<Append(path, child), l>>]
             y == [limit |-> l, found |-> IF child \in ToSet(path) THEN x.found ELSE x.found \o beyond]
  <2>1. CASE x.limit = 0 \/ ~HasEdge(g, Last(path), child)
    BY <2>1 DEF LookAt
  <2>2. CASE x.limit # 0 /\ HasEdge(g, Last(path), child)
    <3>1. LookAt(g, path, below, x, k - 1) = y
      BY <2>2 DEF LookAt
    <3>2. child \in NodeIds(c) /\ l \in Nat /\ x.found \in Seq(T)
      BY <2>2 DEF NodeIds
    <3>3. child \notin ToSet(path) => beyond \in Seq(T)
      BY <2>2, <3>2
    <3> HIDE DEF child, l, beyond
    <3>4. child \notin ToSet(path) => x.found \o beyond \in Seq(T)
      BY <3>2, <3>3
    <3>5. y.limit \in Nat /\ y.found \in Seq(T)
      BY <3>2, <3>4
    <3> QED
      BY <3>1, <3>2, <3>4, <3>5
  <2> QED
    BY <2>1, <2>2
<1>2. LookAround(c, g, path, limit, below) = f[N].found
  BY DEF LookAround
<1>3. s \in S
  OBVIOUS
<1> N \in Nat
  OBVIOUS
<1>4. \A x \in S : x.found \in Seq(T)
  OBVIOUS
<1> HIDE DEF S, s, N
<1>5. step \in [S \X (1..N) -> S]
  BY <1>1
<1>6. \E after : Is(after)
  <2>1. PICK h : IsIteration(h, N, S, s, step)
    <3> HIDE DEF step
    <3> QED
      BY <1>3, <1>5, IterationExists
  <2>2. \A n \in 1..N : n - 1 \in 0..N /\ n \in 0..N
    OBVIOUS
  <2>3. \A n \in 1..N : h[n] = LookAt(g, path, below, h[n - 1], n - 1)
    BY <2>1, <2>2 DEF IsIteration
  <2>4. Is(h)
    BY <2>1, <2>3 DEF IsIteration
  <2> QED
    BY <2>4
<1>7. Is(f)
  <2> HIDE DEF Is
  <2> QED
    BY <1>6
<1>8. f[0] = s /\ \A n \in 1..N : f[n] = LookAt(g, path, below, f[n - 1], n - 1)
  <2> HIDE DEF f
  <2>1. \A n \in 1..N : n \in 0..N /\ n # 0
    OBVIOUS
  <2>2. 0 \in 0..N
    OBVIOUS
  <2> QED
    BY <1>7, <2>1, <2>2
<1> HIDE DEF f, step, Is
<1>9. \A n \in 0..N : f[n] \in S
  <2>1. \A n \in 1..N : f[n - 1] \in S => f[n] \in S
    BY <1>1, <1>8
  <2> QED
    BY <1>3, <1>8, <2>1, IterationStays, Zenon
<1> QED
  BY <1>2, <1>4, <1>9

\* What the runs of one depth return: paths, and routes to the target for a
\* path that is a route itself.
Runs(c, g, src, target) ==
    {r \in [Seq(NodeIds(c)) \X Nat -> Seq(Seq(NodeIds(c)))] :
        \A p \in Seq(NodeIds(c)), l \in Nat : p \in Routes(c, g, src, Last(p))
            => r[<<p, l>>] \in Seq(Routes(c, g, src, target))}

LEMMA DeeperRuns ==
    ASSUME NEW c, NEW g, c.maxNodes \in Nat, NEW src, NEW target, NEW depth \in Nat,
           NEW below, depth # 0 => below \in Runs(c, g, src, target)
    PROVE  [s \in Seq(NodeIds(c)) \X Nat |->
                IF Last(s[1]) = target THEN <<s[1]>>
                ELSE IF depth = 0 THEN <<>>
                ELSE LookAround(c, g, s[1], s[2], below)] \in Runs(c, g, src, target)
<1> DEFINE D == Seq(NodeIds(c))
           R == Routes(c, g, src, target)
           Value(p, l) == IF Last(p) = target THEN <<p>>
                          ELSE IF depth = 0 THEN <<>>
                          ELSE LookAround(c, g, p, l, below)
           r == [s \in D \X Nat |-> Value(s[1], s[2])]
<1>1. ASSUME NEW p \in D, NEW l \in Nat PROVE Value(p, l) \in Seq(D)
  <2>1. ASSUME depth # 0 PROVE LookAround(c, g, p, l, below) \in Seq(D)
    <3>1. ASSUME NEW child \in NodeIds(c), NEW m \in Nat PROVE below[<<Append(p, child), m>>] \in Seq(D)
      <4>1. Append(p, child) \in D
        OBVIOUS
      <4> HIDE DEF D
      <4> QED
        BY <2>1, <4>1 DEF Runs, D
    <3> HIDE DEF D
    <3> QED
      BY <3>1, LookAroundIn
  <2> QED
    BY <2>1
<1>2. ASSUME NEW p \in D, NEW l \in Nat, p \in Routes(c, g, src, Last(p)) PROVE Value(p, l) \in Seq(R)
  <2>1. ASSUME depth # 0 PROVE LookAround(c, g, p, l, below) \in Seq(R)
    <3>1. ASSUME NEW child \in NodeIds(c), NEW m \in Nat, HasEdge(g, Last(p), child), child \notin ToSet(p)
          PROVE  below[<<Append(p, child), m>>] \in Seq(R)
      <4> DEFINE q == Append(p, child)
      <4>1. q \in Routes(c, g, src, child)
        BY <1>2, <3>1, ExtendRoute
      <4>2. q \in D /\ Last(q) = child
        BY <4>1 DEF Routes
      <4> HIDE DEF q, D, R
      <4> QED
        BY <2>1, <4>1, <4>2 DEF Runs, D, R, q
    <3> HIDE DEF R
    <3> QED
      BY <3>1, LookAroundIn
  <2>2. ASSUME Last(p) = target PROVE <<p>> \in Seq(R)
    BY <1>2, <2>2
  <2> HIDE DEF R
  <2> QED
    BY <2>1, <2>2
<1> HIDE DEF Value
<1>3. r \in [D \X Nat -> Seq(D)] /\ \A p \in D, l \in Nat : r[<<p, l>>] = Value(p, l)
  <2> HIDE DEF D
  <2> QED
    BY <1>1
<1>4. r \in Runs(c, g, src, target)
  <2>1. \A p \in D, l \in Nat : p \in Routes(c, g, src, Last(p)) => r[<<p, l>>] \in Seq(R)
    <3> HIDE DEF r, D, R
    <3> QED
      BY <1>2, <1>3
  <2> HIDE DEF r
  <2> QED
    BY <1>3, <2>1 DEF Runs
<1> QED
  BY <1>4 DEF Value

LEMMA DepthFirstRoutes ==
    ASSUME NEW c, NEW g, c.maxNodes \in Nat, NEW src \in NodeIds(c), NEW dst, NEW limit \in Nat
    PROVE  DepthFirstSearch(c, g, src, dst, limit) \in Seq(Routes(c, g, src, dst))
<1> DEFINE N == c.maxNodes
           S == Runs(c, g, src, dst)
           D == Seq(NodeIds(c)) \X Nat
           At(depth, below) == [s \in D |-> IF Last(s[1]) = dst THEN <<s[1]>>
                                            ELSE IF depth = 0 THEN <<>>
                                            ELSE LookAround(c, g, s[1], s[2], below)]
           Is(run) == run = [depth \in 0..N |-> [s \in D |-> IF Last(s[1]) = dst THEN <<s[1]>>
                                            ELSE IF depth = 0 THEN <<>>
                                            ELSE LookAround(c, g, s[1], s[2], run[depth - 1])]]
           IsAt(run) == run = [depth \in 0..N |-> At(depth, run[depth - 1])]
           f == CHOOSE run : Is(run)
           start == At(0, 0)
           step == [x \in S \X (1..N) |-> At(x[2], x[1])]
<1>1. DfsRun(c, g, dst) = f[N]
  BY DEF DfsRun
<1>2. \A run : Is(run) = IsAt(run)
  OBVIOUS
<1>3. \A below, other : At(0, below) = At(0, other)
  OBVIOUS
<1>4. \A depth \in Nat : \A below : (depth # 0 => below \in S) => At(depth, below) \in S
  BY DeeperRuns
<1> N \in Nat
  OBVIOUS
<1> HIDE DEF S, N, D, At, Is
<1>5. start \in S /\ step \in [S \X (1..N) -> S]
  <2>1. start \in S
    BY <1>4
  <2>2. ASSUME NEW below \in S, NEW k \in 1..N PROVE At(k, below) \in S
    BY <1>4
  <2> QED
    BY <2>1, <2>2
<1> HIDE DEF start
<1>6. \E run : Is(run)
  <2>1. PICK h : IsIteration(h, N, S, start, step)
    <3> HIDE DEF step
    <3> QED
      BY <1>5, IterationExists
  <2>2. \A n \in 1..N : n - 1 \in 0..N /\ n \in 0..N
    OBVIOUS
  <2>3. \A n \in 1..N : h[n] = At(n, h[n - 1])
    BY <2>1, <2>2 DEF IsIteration
  <2>4. h[0] = At(0, h[0 - 1])
    BY <1>3, <2>1 DEF IsIteration, start
  <2>5. \A n \in 0..N : h[n] = At(n, h[n - 1])
    BY <2>3, <2>4
  <2>6. IsAt(h)
    BY <2>1, <2>5 DEF IsIteration
  <2> QED
    BY <1>2, <2>6
<1>7. IsAt(f)
  <2> HIDE DEF IsAt
  <2> QED
    BY <1>2, <1>6
<1>8. \A n \in 0..N : f[n] = At(n, f[n - 1])
  <2> HIDE DEF f
  <2> QED
    BY <1>7
<1> HIDE DEF f, IsAt
<1>9. \A n \in 0..N : f[n] \in S
  <2>1. f[0] \in S
    BY <1>4, <1>8
  <2>2. \A n \in 1..N : f[n - 1] \in S => f[n] \in S
    BY <1>4, <1>8
  <2> QED
    BY <2>1, <2>2, IterationStays, Zenon
<1>10. DfsRun(c, g, dst) \in Runs(c, g, src, dst)
  BY <1>1, <1>9 DEF S
<1>11. <<src>> \in Routes(c, g, src, src) /\ Last(<<src>>) = src /\ <<src>> \in Seq(NodeIds(c))
       /\ limit + 1 \in Nat
  BY RouteOfOne DEF Last
<1> QED
  BY <1>10, <1>11 DEF DepthFirstSearch, Runs
-----------------------------------------------------------------------------
(***************************************************************************)
(* The paths of a stream, and the blocks of all the streams.               *)
(***************************************************************************)
LEMMA ShortestIsOne ==
    ASSUME NEW T, NEW paths \in Seq(Seq(T)), NEW some \in SUBSET DOMAIN paths, some # {}
    PROVE  \E i \in some : FindShortestPath(paths, some) = paths[i]
<1> DEFINE length == {Len(paths[i]) : i \in some}
           NoLonger(i) == \A j \in some : Len(paths[i]) < Len(paths[j])
                                          \/ (Len(paths[i]) = Len(paths[j]) /\ i <= j)
<1>1. some \subseteq Nat /\ \A i \in some : Len(paths[i]) \in Nat
  OBVIOUS
<1>2. PICK m \in length : \A n \in length : m <= n
  <2>1. length \subseteq Nat /\ length # {}
    BY <1>1
  <2> HIDE DEF length
  <2> QED
    BY <2>1, LeastNumber
<1> DEFINE best == {i \in some : Len(paths[i]) = m}
<1>3. PICK i \in best : \A j \in best : i <= j
  <2>1. best \subseteq Nat /\ best # {}
    BY <1>1, <1>2
  <2> HIDE DEF best
  <2> QED
    BY <2>1, LeastNumber
<1>4. i \in some /\ NoLonger(i)
  <2> SUFFICES ASSUME NEW j \in some
               PROVE  Len(paths[i]) < Len(paths[j]) \/ (Len(paths[i]) = Len(paths[j]) /\ i <= j)
    BY <1>3
  <2>1. Len(paths[i]) = m /\ m <= Len(paths[j]) /\ m \in Nat /\ Len(paths[j]) \in Nat
    BY <1>1, <1>2, <1>3
  <2> QED
    BY <1>3, <2>1
<1>5. (CHOOSE k \in some : NoLonger(k)) \in some
  <2> HIDE DEF NoLonger
  <2> QED
    BY <1>4
<1> QED
  BY <1>5 DEF FindShortestPath

LEMMA SecondaryRoute ==
    ASSUME NEW c, NEW g, c.maxNodes \in Nat, NEW src \in NodeIds(c), NEW dst,
           NEW primary \in Routes(c, g, src, dst)
    PROVE  SecondaryPath(c, g, src, dst, primary) \in Routes(c, g, src, dst)
<1> DEFINE limit == Len(primary) + 1
           paths == DepthFirstSearch(c, g, src, dst, limit)
           extra == {i \in DOMAIN paths : paths[i] # primary}
           independent == FindIndependentPaths(paths, extra, primary)
           some == IF independent # {} THEN independent ELSE extra
<1>1. limit \in Nat
  BY DEF Routes
<1> HIDE DEF limit
<1>2. paths \in Seq(Routes(c, g, src, dst))
  BY <1>1, DepthFirstRoutes
<1>3. paths \in Seq(Seq(NodeIds(c)))
  <2> HIDE DEF paths
  <2>1. Routes(c, g, src, dst) \subseteq Seq(NodeIds(c))
    BY DEF Routes
  <2> QED
    BY <1>2, <2>1
<1>4. SecondaryPath(c, g, src, dst, primary) = IF extra = {} THEN primary ELSE FindShortestPath(paths, some)
  BY DEF SecondaryPath, limit
<1> HIDE DEF paths
<1>5. ASSUME extra # {} PROVE some # {} /\ some \subseteq DOMAIN paths
  BY <1>5 DEF FindIndependentPaths
<1>6. ASSUME extra # {} PROVE FindShortestPath(paths, some) \in Routes(c, g, src, dst)
  <2> HIDE DEF some, extra
  <2>1. PICK i \in some : FindShortestPath(paths, some) = paths[i]
    BY <1>3, <1>5, <1>6, ShortestIsOne
  <2> QED
    BY <1>2, <1>5, <1>6, <2>1
<1> QED
  BY <1>4, <1>6

LEMMA FlattenIn ==
    ASSUME NEW T, NEW seqs \in Seq(Seq(T))
    PROVE  FlattenSeq(seqs) \in Seq(T)
<1> DEFINE L == Len(seqs)
           S == Seq(T)
           N == L - 1
           Is(flatten) == flatten = [i \in 1..L |-> IF i = 1 THEN seqs[i] ELSE flatten[i - 1] \o seqs[i]]
           f == CHOOSE flatten : Is(flatten)
           start == seqs[1]
           step == [x \in S \X (1..N) |-> x[1] \o seqs[x[2] + 1]]
<1>1. CASE L = 0
  <2>1. seqs = <<>>
    BY <1>1
  <2> QED
    BY <1>1, <2>1 DEF FlattenSeq
<1>2. CASE L # 0
  <2>1. FlattenSeq(seqs) = f[L]
    BY <1>2 DEF FlattenSeq
  <2>2. N \in Nat /\ L \in Nat /\ L = N + 1
    BY <1>2
  <2>3. \A i \in 1..L : seqs[i] \in S
    OBVIOUS
  <2>4. \A x, y \in S : x \o y \in S
    OBVIOUS
  <2> HIDE DEF S, L, N
  <2>5. start \in S /\ step \in [S \X (1..N) -> S]
    BY <2>2, <2>3, <2>4
  <2> HIDE DEF start
  <2>6. \E flatten : Is(flatten)
    <3>1. PICK h : IsIteration(h, N, S, start, step)
      <4> HIDE DEF step
      <4> QED
        BY <2>2, <2>5, IterationExists
    <3> DEFINE k == [i \in 1..L |-> h[i - 1]]
    <3>2. \A n \in 1..N : h[n - 1] \in S /\ h[n] = h[n - 1] \o seqs[n + 1]
      <4>1. \A n \in 1..N : n - 1 \in 0..N
        BY <2>2
      <4> QED
        BY <3>1, <4>1 DEF IsIteration
    <3>3. ASSUME NEW i \in 1..L PROVE k[i] = IF i = 1 THEN seqs[i] ELSE k[i - 1] \o seqs[i]
      <4>1. CASE i = 1
        BY <3>1, <4>1 DEF IsIteration, start
      <4>2. CASE i # 1
        <5>1. i - 1 \in 1..N /\ i - 1 \in 1..L /\ (i - 1) + 1 = i
          BY <2>2, <4>2
        <5>2. h[i - 1] = h[(i - 1) - 1] \o seqs[i]
          BY <3>2, <5>1
        <5>3. k[i] = h[i - 1] /\ k[i - 1] = h[(i - 1) - 1]
          BY <5>1
        <5> QED
          BY <4>2, <5>2, <5>3
      <4> QED
        BY <4>1, <4>2
    <3>4. Is(k)
      BY <3>3
    <3> QED
      BY <3>4
  <2>7. Is(f)
    <3> HIDE DEF Is
    <3> QED
      BY <2>6
  <2>8. \A i \in 1..L : f[i] = IF i = 1 THEN seqs[i] ELSE f[i - 1] \o seqs[i]
    <3> HIDE DEF f
    <3> QED
      BY <2>7
  <2> HIDE DEF f, Is
  <2> DEFINE from1 == [n \in 0..N |-> f[n + 1]]
  <2>9. \A n \in 0..N : from1[n] \in S
    <3>1. from1[0] \in S
      <4>1. 1 \in 1..L /\ 0 \in 0..N
        BY <2>2
      <4>2. f[1] = seqs[1] /\ from1[0] = f[1]
        BY <2>8, <4>1
      <4> QED
        BY <2>3, <4>1, <4>2
    <3>2. ASSUME NEW n \in 1..N, from1[n - 1] \in S PROVE from1[n] \in S
      <4>1. n + 1 \in 1..L /\ n + 1 # 1 /\ n \in 0..N /\ n - 1 \in 0..N
        BY <2>2
      <4>2. from1[n] = f[n + 1] /\ from1[n - 1] = f[n]
        BY <4>1
      <4>3. PICK i \in 1..L : i = n + 1 /\ i # 1 /\ i - 1 = n
        BY <4>1
      <4>4. f[i] = f[i - 1] \o seqs[i]
        BY <2>8, <4>3
      <4> QED
        BY <2>3, <2>4, <3>2, <4>2, <4>3, <4>4
    <3> HIDE DEF from1
    <3> QED
      BY <2>2, <3>1, <3>2, IterationStays, Zenon
  <2>10. f[L] \in S
    <3>1. N \in 0..N /\ N + 1 = L
      BY <2>2
    <3> QED
      BY <2>9, <3>1
  <2> QED
    BY <2>1, <2>10 DEF S
<1> QED
  BY <1>1, <1>2

LEMMA PathsAreRoutes ==
    ASSUME NEW c, NEW g, c.maxNodes \in Nat, NEW s, s.src \in NodeIds(c),
           s.dst \in NodeIds(c), s.redundancy \in Redundancies
    PROVE  Paths(c, g, s) \in Seq(Routes(c, g, s.src, s.dst))
<1> DEFINE R == Routes(c, g, s.src, s.dst)
           hop == HasEdge(g, s.src, s.dst)
           primary == IF hop THEN <<s.src, s.dst>> ELSE BreadthFirstSearch(c, g, s.src, s.dst)
           n == 1 + ExtraCopies(s.redundancy)
           copies == [i \in 1..n |-> primary]
           last == IF hop THEN primary ELSE SecondaryPath(c, g, s.src, s.dst, primary)
<1>1. ASSUME hop PROVE <<s.src, s.dst>> \in R
  <2> DEFINE p == <<s.src, s.dst>>
  <2>1. p \in Seq(NodeIds(c)) /\ Len(p) = 2 /\ DOMAIN p = 1..2 /\ p[1] = s.src /\ p[2] = s.dst
        /\ (Irreflexive(g) => s.src # s.dst)
    BY <1>1 DEF HasEdge, Irreflexive
  <2>2. Follows(g, p) /\ (Irreflexive(g) => IsPath(g, p))
    <3>1. ASSUME NEW i \in 1..(Len(p) - 1) PROVE HasEdge(g, p[i], p[i + 1])
      <4>1. i = 1
        BY <2>1
      <4> QED
        BY <1>1, <2>1, <4>1
    <3>2. ASSUME Irreflexive(g), NEW i \in DOMAIN p, NEW j \in DOMAIN p, p[i] = p[j] PROVE i = j
      <4>1. i \in {1, 2} /\ j \in {1, 2}
        BY <2>1
      <4> QED
        BY <2>1, <3>2, <4>1
    <3> QED
      BY <3>1, <3>2 DEF IsPath, Follows
  <2>3. p # <<>> /\ Last(p) = s.dst
    BY <2>1 DEF Last
  <2> HIDE DEF p
  <2> QED
    BY <2>1, <2>2, <2>3 DEF Routes, p
<1>2. primary \in R \cup {<<>>}
  BY <1>1, BreadthFirstRoutes
<1>3. ASSUME primary \in R PROVE last \in R
  BY <1>3, SecondaryRoute
<1>4. n \in Nat
  BY DEF ExtraCopies, Redundancies
<1>5. Paths(c, g, s) = IF primary = <<>> \/ (~hop /\ Len(primary) - 1 > c.maxHops) THEN <<>>
                       ELSE IF Spatial(s.redundancy) THEN Append(copies, last) ELSE copies
  BY DEF Paths
<1> HIDE DEF n, primary, last, hop, R
<1>6. ASSUME primary \in R PROVE copies \in Seq(R) /\ Append(copies, last) \in Seq(R)
  BY <1>3, <1>4, <1>6
<1> HIDE DEF copies
<1>7. Paths(c, g, s) \in Seq(R)
  BY <1>2, <1>5, <1>6
<1> QED
  BY <1>7 DEF R

\* The blocks that a stream may become.
Blocks(c, g, s) == {PathToSchedule(p, s) : p \in Routes(c, g, s.src, s.dst)}
BlocksOf(c, g, streams, ids) ==
    UNION {Blocks(c, g, streams[i]) : i \in {j \in DOMAIN streams : streams[j].id \in ids}}

(***************************************************************************)
(* Router::run returns, for every network, snapshot of the topology and    *)
(* streams between its nodes, only blocks of transmissions that follow the *)
(* links of the snapshot from the source of one of the streams that are to *)
(* be routed to its destination, and meet no node twice (in a snapshot     *)
(* where no node is its own neighbor).  That the primary path is shortest, *)
(* the copies as many as the redundancy asks, and the secondary path apart *)
(* from the primary one when it can be, is RoutesRight of DataPlane.       *)
(***************************************************************************)
THEOREM RoutesFollowLinks ==
    ASSUME NEW c, NEW g, c.maxNodes \in Nat, NEW S,
           \A s \in S : s.src \in NodeIds(c) /\ s.dst \in NodeIds(c) /\ s.redundancy \in Redundancies,
           NEW streams \in Seq(S), NEW ids
    PROVE  Run(c, g, streams, ids) \in Seq(BlocksOf(c, g, streams, ids))
<1> DEFINE routed == {j \in DOMAIN streams : streams[j].id \in ids}
           T == UNION {Blocks(c, g, streams[i]) : i \in routed}
           Of(i) == IF streams[i].id \in ids THEN RouteStream(c, g, streams[i]) ELSE <<>>
           all == [i \in DOMAIN streams |-> Of(i)]
<1>1. ASSUME NEW i \in routed PROVE RouteStream(c, g, streams[i]) \in Seq(T)
  <2> DEFINE s == streams[i]
             paths == Paths(c, g, s)
  <2>1. paths \in Seq(Routes(c, g, s.src, s.dst))
    BY PathsAreRoutes
  <2>2. Blocks(c, g, s) \subseteq T
    OBVIOUS
  <2>3. RouteStream(c, g, s) = [j \in DOMAIN paths |-> PathToSchedule(paths[j], s)]
    BY DEF RouteStream
  <2> HIDE DEF s, paths, T
  <2>4. \A j \in DOMAIN paths : PathToSchedule(paths[j], s) \in T
    BY <2>1, <2>2 DEF Blocks
  <2>5. DOMAIN paths = 1..Len(paths) /\ Len(paths) \in Nat
    BY <2>1
  <2> QED
    BY <2>3, <2>4, <2>5 DEF s
<1> HIDE DEF T
<1>2. \A i \in DOMAIN streams : Of(i) \in Seq(T)
  BY <1>1
<1>3. PICK n \in Nat : DOMAIN streams = 1..n
  OBVIOUS
<1> HIDE DEF Of
<1>4. all \in Seq(Seq(T))
  BY <1>2, <1>3
<1> QED
  BY <1>4, FlattenIn DEF Run, T, Of, BlocksOf


\* One transmission after the other, the schedule has nodes of the network and
\* neighbors only.
Transmissions(c, g, S) ==
    {ScheduleElement(s, e[1], e[2]) : s \in S, e \in {l \in NodeIds(c) \X NodeIds(c) : HasEdge(g, l[1], l[2])}}

LEMMA TransmissionsFollowLinks ==
    ASSUME NEW c, NEW g, c.maxNodes \in Nat, NEW S,
           \A s \in S : s.src \in NodeIds(c) /\ s.dst \in NodeIds(c) /\ s.redundancy \in Redundancies,
           NEW streams \in Seq(S), NEW ids
    PROVE  FlattenSeq(Run(c, g, streams, ids)) \in Seq(Transmissions(c, g, S))
<1> DEFINE T == BlocksOf(c, g, streams, ids)
           U == Transmissions(c, g, S)
<1>1. ASSUME NEW i \in DOMAIN streams, NEW p \in Routes(c, g, streams[i].src, streams[i].dst)
      PROVE  PathToSchedule(p, streams[i]) \in Seq(U)
  <2> DEFINE s == streams[i]
             n == Len(p) - 1
  <2>1. s \in S /\ n \in Nat
    BY <1>1 DEF Routes
  <2>2. ASSUME NEW k \in 1..n PROVE ScheduleElement(s, p[k], p[k + 1]) \in U
    <3>1. p \in Seq(NodeIds(c)) /\ HasEdge(g, p[k], p[k + 1])
      BY <1>1 DEF Routes, Follows
    <3>2. p[k] \in NodeIds(c) /\ p[k + 1] \in NodeIds(c)
      BY <3>1
    <3> DEFINE e == <<p[k], p[k + 1]>>
    <3>3. e \in {l \in NodeIds(c) \X NodeIds(c) : HasEdge(g, l[1], l[2])} /\ e[1] = p[k] /\ e[2] = p[k + 1]
      BY <3>1, <3>2
    <3> QED
      BY <2>1, <3>3 DEF Transmissions
  <2>3. PathToSchedule(p, s) = [k \in 1..n |-> ScheduleElement(s, p[k], p[k + 1])]
    BY DEF PathToSchedule
  <2> HIDE DEF n, U
  <2> QED
    BY <2>1, <2>2, <2>3
<1>2. T \subseteq Seq(U)
  <2> SUFFICES ASSUME NEW i \in DOMAIN streams, NEW b \in Blocks(c, g, streams[i]) PROVE b \in Seq(U)
    BY DEF BlocksOf
  <2>1. PICK p \in Routes(c, g, streams[i].src, streams[i].dst) : b = PathToSchedule(p, streams[i])
    BY DEF Blocks
  <2> HIDE DEF U
  <2> QED
    BY <1>1, <2>1
<1>3. Run(c, g, streams, ids) \in Seq(T)
  BY RoutesFollowLinks
<1> HIDE DEF T, U
<1>4. Run(c, g, streams, ids) \in Seq(Seq(U))
  BY <1>2, <1>3
<1> QED
  BY <1>4, FlattenIn DEF U
=============================================================================
