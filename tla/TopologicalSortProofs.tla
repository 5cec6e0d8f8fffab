------------------------- MODULE TopologicalSortProofs -------------------------
(***************************************************************************)
(* topologicalOrder is right for every graph: what it orders stands after   *)
(* all that it waits for, and what it reports as a cycle is what nobody     *)
(* could ever start.                                                        *)
(***************************************************************************)
EXTENDS TopologicalSort, FiniteSetTheorems, SequenceTheorems, WellFoundedInduction, TLAPS

\* The nodes of the graph that n waits for and that were not taken yet.
Left(n) == (blockedBy[n] \cap Node) \ ToSet(ordered)

\* The inductive invariant: no node is listed twice; a degree counts what is left;
\* the queue holds the nodes that wait for nothing any more, and nothing else.
Listed     == IsInjective(ordered) /\ IsInjective(queue)
Apart      == ToSet(ordered) \cap ToSet(queue) = {}
Counted    == \A n \in Node : indeg[n] = Cardinality(Left(n))
QueueReady == \A n \in Node \ ToSet(ordered) : n \in ToSet(queue) <=> Left(n) = {}
Before ==
  \A i \in 1..Len(ordered) :
    blockedBy[ordered[i]] \cap Node \subseteq ToSet(SubSeq(ordered, 1, i - 1))

SortInv == TypeOK /\ Listed /\ Apart /\ Counted /\ QueueReady /\ Before

-----------------------------------------------------------------------------
(* Sequences and the order of the array *)

LEMMA NodesFinite ==
  /\ N \in Nat /\ IsFiniteSet(Node)
  /\ \A S \in SUBSET Node : IsFiniteSet(S) /\ Cardinality(S) \in Nat
<1>1. N \in Nat
  BY SortAssumption DEF SortAssumption
<1>2. IsFiniteSet(Node)
  BY <1>1, FS_Interval DEF Node
<1> QED
  BY <1>1, <1>2, FS_Subset, FS_CardinalityType

\* How many nodes of S are not above k: the place of k in the order of S.
Rank(S) == [k \in S |-> Cardinality({j \in S : j <= k})]

LEMMA RankCounts ==
  ASSUME NEW S \in SUBSET Node
  PROVE  /\ Rank(S) \in Injection(S, 1..Cardinality(S))
         /\ Rank(S) \in Surjection(S, 1..Cardinality(S))
<1> DEFINE below(k) == {j \in S : j <= k}
<1>1. S \subseteq Int /\ IsFiniteSet(S) /\ Cardinality(S) \in Nat
  BY NodesFinite DEF Node
<1>2. \A k \in S : /\ IsFiniteSet(below(k)) /\ Cardinality(below(k)) \in 1..Cardinality(S)
  <2> SUFFICES ASSUME NEW k \in S
               PROVE  IsFiniteSet(below(k)) /\ Cardinality(below(k)) \in 1..Cardinality(S)
    OBVIOUS
  <2>1. k \in below(k) /\ below(k) \in SUBSET S
    BY <1>1
  <2> HIDE DEF below
  <2>2. IsFiniteSet(below(k)) /\ Cardinality(below(k)) <= Cardinality(S)
    BY <1>1, <2>1, FS_Subset
  <2>3. Cardinality(below(k)) \in Nat /\ Cardinality(below(k)) # 0
    BY <2>1, <2>2, FS_CardinalityType, FS_EmptySet
  <2> QED
    BY <1>1, <2>2, <2>3
<1>3. \A k, l \in S : k < l => Cardinality(below(k)) < Cardinality(below(l))
  <2> SUFFICES ASSUME NEW k \in S, NEW l \in S, k < l
               PROVE  Cardinality(below(k)) < Cardinality(below(l))
    OBVIOUS
  <2>0. k \in Int /\ l \in Int
    BY <1>1
  <2>5. l \in below(l) /\ l \notin below(k)
    BY <2>0
  <2>6. below(k) \subseteq below(l)
    <3> SUFFICES ASSUME NEW j \in S, j <= k
                 PROVE  j <= l
      OBVIOUS
    <3>1. j \in Int
      BY <1>1
    <3> QED
      BY <2>0, <3>1
  <2>1. below(k) \in SUBSET below(l) /\ l \in below(l) /\ l \notin below(k)
    BY <2>5, <2>6
  <2>2. IsFiniteSet(below(l)) /\ Cardinality(below(l)) \in Nat
        /\ Cardinality(below(k)) \in Nat
    BY <1>1, <1>2
  <2> HIDE DEF below
  <2>3. below(k) # below(l)
    BY <2>1
  <2>4. Cardinality(below(k)) <= Cardinality(below(l))
        /\ Cardinality(below(k)) # Cardinality(below(l))
    BY <2>1, <2>2, <2>3, FS_Subset
  <2> QED
    BY <2>2, <2>4
<1>4. \A k, l \in S : Cardinality(below(k)) = Cardinality(below(l)) => k = l
  <2> SUFFICES ASSUME NEW k \in S, NEW l \in S, k # l
               PROVE  Cardinality(below(k)) # Cardinality(below(l))
    OBVIOUS
  <2>1. k < l \/ l < k
    BY <1>1
  <2>2. Cardinality(below(k)) \in Nat /\ Cardinality(below(l)) \in Nat
    BY <1>1, <1>2
  <2> HIDE DEF below
  <2> QED
    BY <1>3, <2>1, <2>2
<1>5. Rank(S) = [k \in S |-> Cardinality(below(k))]
  BY DEF Rank
<1> HIDE DEF below
<1>6. Rank(S) \in [S -> 1..Cardinality(S)]
  BY <1>2, <1>5
<1>7. Rank(S) \in Injection(S, 1..Cardinality(S))
  BY <1>4, <1>5, <1>6 DEF Injection, IsInjective
<1>8. IsFiniteSet(1..Cardinality(S)) /\ Cardinality(1..Cardinality(S)) = Cardinality(S)
  <2>1. PICK c \in Nat : c = Cardinality(S)
    BY <1>1
  <2>2. IsFiniteSet(1..c) /\ Cardinality(1..c) = c
    BY FS_Interval
  <2> QED
    BY <2>1, <2>2
<1> QED
  BY <1>7, <1>8, FS_Injection

\* InOrder lists what it is given, each node once.
LEMMA InOrderLists ==
  ASSUME NEW S \in SUBSET Node
  PROVE  /\ InOrder(dag, S) \in Seq(S)
         /\ IsInjective(InOrder(dag, S))
         /\ ToSet(InOrder(dag, S)) = S
<1> DEFINE f == InOrder(dag, S)
           P == {k \in DOMAIN dag : dag[k] \in S}
           R == Rank(P)
           c == Cardinality(P)
           at(i) == CHOOSE k \in P : R[k] = i
<1>3. f = [i \in 1..c |-> dag[CHOOSE k \in P : Cardinality({j \in P : j <= k}) = i]]
  BY DEF InOrder
<1>0. P = S
  BY DEF dag
<1> HIDE DEF P
<1>1. R \in Injection(S, 1..c) /\ R \in Surjection(S, 1..c)
  BY <1>0, RankCounts
<1>2. c \in Nat
  BY <1>0, NodesFinite
<1>4. \A i \in 1..c : at(i) \in S /\ R[at(i)] = i
  BY <1>0, <1>1 DEF Surjection
<1>5. \A i \in 1..c : f[i] = at(i)
  <2> SUFFICES ASSUME NEW i \in 1..c
               PROVE  f[i] = at(i)
    OBVIOUS
  <2>1. \A k \in P : R[k] = Cardinality({j \in P : j <= k})
    BY DEF Rank
  <2>2. (CHOOSE k \in P : Cardinality({j \in P : j <= k}) = i) = at(i)
    BY <2>1
  <2>3. dag[at(i)] = at(i)
    BY <1>4 DEF dag
  <2> QED
    BY <1>3, <2>2, <2>3
<1>6. DOMAIN f = 1..c
  BY <1>3
<1> HIDE DEF f, at, R, c
<1>7. f \in [1..c -> S]
  <2>1. f = [i \in 1..c |-> f[i]]
    BY <1>3
  <2> QED
    BY <2>1, <1>4, <1>5
<1>8. IsInjective(f)
  BY <1>4, <1>5, <1>6 DEF IsInjective
<1>9. S \subseteq ToSet(f)
  <2> SUFFICES ASSUME NEW k \in S
               PROVE  k \in ToSet(f)
    OBVIOUS
  <2>1. R[k] \in 1..c
    BY <1>1 DEF Injection
  <2>2. at(R[k]) = k
    BY <1>0, <1>1, <1>4, <2>1 DEF Injection, IsInjective
  <2> QED
    BY <1>5, <1>6, <2>1, <2>2 DEF ToSet
<1>10. f \in Seq(S)
  BY <1>2, <1>7
<1>11. ToSet(f) \subseteq S
  BY <1>7 DEF ToSet
<1> QED
  BY <1>8, <1>9, <1>10, <1>11 DEF f

\* The least number of a set.
LEMMA LeastOf ==
  ASSUME NEW T \in SUBSET Nat, T # {}
  PROVE  \E m \in T : \A k \in T : m <= k
<1>1. PICK m \in T : \A k \in T : ~(<<k, m>> \in OpToRel(<, Nat))
  BY NatLessThanWellFounded, WFMin
<1>2. \A k \in T : ~(k < m)
  BY <1>1 DEF OpToRel
<1> QED
  BY <1>2

\* Sequences without repetition: the head taken off, an element or a list added.
LEMMA TailLists ==
  ASSUME NEW T, NEW q \in Seq(T), q # <<>>, IsInjective(q)
  PROVE  /\ Head(q) \in T /\ Head(q) \in ToSet(q) /\ Tail(q) \in Seq(T)
         /\ IsInjective(Tail(q)) /\ ToSet(Tail(q)) = ToSet(q) \ {Head(q)}
<1>1. PICK n \in Nat : n = Len(q)
  OBVIOUS
<1>2. n >= 1 /\ DOMAIN q = 1..n /\ Head(q) = q[1]
  BY <1>1
<1>3. /\ Tail(q) \in Seq(T) /\ DOMAIN Tail(q) = 1..(n - 1)
      /\ \A i \in 1..(n - 1) : Tail(q)[i] = q[i + 1] /\ i + 1 \in 1..n
  BY <1>1, <1>2
<1>4. \A x \in ToSet(q) \ {Head(q)} : x \in ToSet(Tail(q))
  <2> SUFFICES ASSUME NEW i \in 1..n, q[i] # q[1]
               PROVE  q[i] \in ToSet(Tail(q))
    BY <1>2 DEF ToSet
  <2>1. i - 1 \in 1..(n - 1) /\ (i - 1) + 1 = i
    BY <1>1
  <2> QED
    BY <1>3, <2>1 DEF ToSet
<1>5. \A i \in 1..(n - 1) : Tail(q)[i] \in ToSet(q) \ {Head(q)}
  <2> SUFFICES ASSUME NEW i \in 1..(n - 1)
               PROVE  Tail(q)[i] \in ToSet(q) \ {Head(q)}
    OBVIOUS
  <2>1. i + 1 \in 1..n /\ 1 \in 1..n /\ i + 1 # 1
    BY <1>2
  <2> QED
    BY <1>2, <1>3, <2>1 DEF ToSet, IsInjective
<1>6. IsInjective(Tail(q))
  BY <1>2, <1>3 DEF IsInjective
<1>7. Head(q) \in T /\ Head(q) \in ToSet(q)
  BY <1>1, <1>2 DEF ToSet
<1> QED
  BY <1>3, <1>4, <1>5, <1>6, <1>7 DEF ToSet

LEMMA ConcatLists ==
  ASSUME NEW T, NEW p \in Seq(T), NEW q \in Seq(T), IsInjective(p), IsInjective(q),
         ToSet(p) \cap ToSet(q) = {}
  PROVE  /\ p \o q \in Seq(T) /\ IsInjective(p \o q) /\ ToSet(p \o q) = ToSet(p) \cup ToSet(q)
<1> DEFINE s == p \o q
<1>1. PICK m \in Nat, n \in Nat : m = Len(p) /\ n = Len(q)
  OBVIOUS
<1>2. /\ s \in Seq(T) /\ DOMAIN s = 1..(m + n) /\ DOMAIN p = 1..m /\ DOMAIN q = 1..n
      /\ \A i \in 1..m : s[i] = p[i]
      /\ \A i \in 1..(m + n) : i > m => s[i] = q[i - m] /\ i - m \in 1..n
  BY <1>1
<1> HIDE DEF s
<1>3. \A i \in 1..(m + n) : i \in 1..m \/ i > m
  BY <1>1
<1>4. \A i \in 1..m : i \in 1..(m + n)
  BY <1>1
<1>5. \A i \in 1..n : i + m \in 1..(m + n) /\ i + m > m /\ (i + m) - m = i
  BY <1>1
<1>6. ToSet(s) = ToSet(p) \cup ToSet(q)
  <2>1. \A i \in 1..(m + n) : s[i] \in ToSet(p) \cup ToSet(q)
    <3> SUFFICES ASSUME NEW i \in 1..(m + n)
                 PROVE  s[i] \in ToSet(p) \cup ToSet(q)
      OBVIOUS
    <3>1. CASE i \in 1..m
      BY <3>1, <1>2 DEF ToSet
    <3>2. CASE i > m
      BY <3>2, <1>2 DEF ToSet
    <3> QED
      BY <1>3, <3>1, <3>2
  <2>2. \A i \in 1..m : p[i] \in ToSet(s)
    BY <1>2, <1>4 DEF ToSet
  <2>3. \A i \in 1..n : q[i] \in ToSet(s)
    BY <1>2, <1>5 DEF ToSet
  <2>4. ToSet(s) = {s[i] : i \in 1..(m + n)} /\ ToSet(p) = {p[i] : i \in 1..m}
        /\ ToSet(q) = {q[i] : i \in 1..n}
    BY <1>2 DEF ToSet
  <2> QED
    BY <2>1, <2>2, <2>3, <2>4
<1>7. IsInjective(s)
  <2> SUFFICES ASSUME NEW i \in 1..(m + n), NEW j \in 1..(m + n), s[i] = s[j]
               PROVE  i = j
    BY <1>2 DEF IsInjective
  <2>1. CASE i \in 1..m /\ j \in 1..m
    BY <2>1, <1>1, <1>2 DEF IsInjective
  <2>2. CASE i > m /\ j > m
    <3>1. q[i - m] = q[j - m] /\ i - m \in 1..n /\ j - m \in 1..n
      BY <2>2, <1>2
    <3>2. i - m = j - m
      BY <3>1, <1>2 DEF IsInjective
    <3> QED
      BY <3>2
  <2>3. CASE i \in 1..m /\ j > m
    <3>1. s[i] = p[i] /\ p[i] \in ToSet(p)
      BY <2>3, <1>2 DEF ToSet
    <3>2. s[j] = q[j - m] /\ q[j - m] \in ToSet(q)
      BY <2>3, <1>2 DEF ToSet
    <3> QED
      BY <3>1, <3>2
  <2>4. CASE i > m /\ j \in 1..m
    <3>1. s[j] = p[j] /\ p[j] \in ToSet(p)
      BY <2>4, <1>2 DEF ToSet
    <3>2. s[i] = q[i - m] /\ q[i - m] \in ToSet(q)
      BY <2>4, <1>2 DEF ToSet
    <3> QED
      BY <3>1, <3>2
  <2> QED
    BY <1>3, <2>1, <2>2, <2>3, <2>4
<1> QED
  BY <1>2, <1>6, <1>7 DEF s

LEMMA AppendLists ==
  ASSUME NEW T, NEW p \in Seq(T), NEW x \in T, IsInjective(p), x \notin ToSet(p)
  PROVE  /\ Append(p, x) \in Seq(T) /\ IsInjective(Append(p, x))
         /\ ToSet(Append(p, x)) = ToSet(p) \cup {x}
         /\ Len(Append(p, x)) = Len(p) + 1 /\ Append(p, x)[Len(p) + 1] = x
         /\ \A i \in 1..Len(p) : Append(p, x)[i] = p[i]
<1> DEFINE s == Append(p, x)
<1>1. PICK m \in Nat : m = Len(p)
  OBVIOUS
<1>2. /\ s \in Seq(T) /\ Len(s) = m + 1 /\ DOMAIN s = 1..(m + 1) /\ DOMAIN p = 1..m
      /\ \A i \in 1..m : s[i] = p[i]
      /\ s[m + 1] = x
  BY <1>1
<1> HIDE DEF s
<1>3. \A i \in 1..(m + 1) : i \in 1..m \/ i = m + 1
  BY <1>1
<1>4. m + 1 \in 1..(m + 1) /\ \A i \in 1..m : i \in 1..(m + 1)
  BY <1>1
<1>5. ToSet(s) = ToSet(p) \cup {x}
  BY <1>2, <1>3, <1>4 DEF ToSet
<1>6. IsInjective(s)
  <2> SUFFICES ASSUME NEW i \in 1..(m + 1), NEW j \in 1..(m + 1), s[i] = s[j]
               PROVE  i = j
    BY <1>2 DEF IsInjective
  <2> QED
    BY <1>2, <1>3 DEF IsInjective, ToSet
<1> QED
  BY <1>1, <1>2, <1>5, <1>6 DEF s
-----------------------------------------------------------------------------
(* The loop *)

LEMMA DagNodes == ToSet(dag) = Node
BY DEF dag, ToSet

LEMMA InitSorts == Init => SortInv
<1> SUFFICES ASSUME Init
             PROVE  SortInv
  OBVIOUS
<1> DEFINE free == {n \in Node : indeg[n] = 0}
<1>1. /\ blockedBy \in [Node -> SUBSET (Node \cup Dangling)] /\ ordered = <<>>
      /\ indeg = [n \in Node |-> Cardinality(blockedBy[n] \cap Node)]
      /\ queue = InOrder(dag, free)
  BY DagNodes DEF Init, InDegree
<1>2. ToSet(ordered) = {} /\ IsInjective(ordered) /\ ordered \in Seq(Node) /\ Len(ordered) = 0
  BY <1>1 DEF ToSet, IsInjective
<1>3. queue \in Seq(free) /\ IsInjective(queue) /\ ToSet(queue) = free
  BY <1>1, InOrderLists
<1>4. queue \in Seq(Node)
  BY <1>3
<1>5. \A n \in Node : /\ Left(n) = blockedBy[n] \cap Node /\ indeg[n] = Cardinality(Left(n))
                      /\ indeg[n] \in Nat /\ (indeg[n] = 0 <=> Left(n) = {})
  <2> SUFFICES ASSUME NEW n \in Node
               PROVE  /\ Left(n) = blockedBy[n] \cap Node /\ indeg[n] = Cardinality(Left(n))
                      /\ indeg[n] \in Nat /\ (indeg[n] = 0 <=> Left(n) = {})
    OBVIOUS
  <2>1. Left(n) = blockedBy[n] \cap Node
    BY <1>2 DEF Left
  <2>2. IsFiniteSet(Left(n)) /\ Cardinality(Left(n)) \in Nat
    BY <2>1, NodesFinite
  <2>3. indeg[n] = Cardinality(Left(n))
    BY <1>1, <2>1
  <2>4. Cardinality(Left(n)) = 0 <=> Left(n) = {}
    BY <2>2, FS_EmptySet
  <2> QED
    BY <2>1, <2>2, <2>3, <2>4
<1>6. TypeOK
  BY <1>1, <1>2, <1>4, <1>5 DEF TypeOK
<1>7. Before
  BY <1>2 DEF Before
<1> QED
  BY <1>2, <1>3, <1>5, <1>6, <1>7 DEF SortInv, Listed, Apart, Counted, QueueReady

LEMMA TurnSorts == SortInv /\ TakeNext => SortInv'
<1> SUFFICES ASSUME SortInv, TakeNext
             PROVE  SortInv'
  OBVIOUS
<1> DEFINE id == Head(queue)
           children == {n \in Node : id \in blockedBy[n]}
           added == {n \in children : indeg'[n] = 0}
<1>1. /\ queue # <<>> /\ ordered' = Append(ordered, id) /\ blockedBy' = blockedBy
      /\ indeg' = [n \in Node |-> IF n \in children THEN indeg[n] - 1 ELSE indeg[n]]
      /\ queue' = Tail(queue) \o InOrder(dag, added)
  BY DagNodes DEF TakeNext, TurnOfLoop, Done, Children
<1>2. /\ blockedBy \in [Node -> SUBSET (Node \cup Dangling)] /\ indeg \in [Node -> Nat]
      /\ queue \in Seq(Node) /\ ordered \in Seq(Node)
  BY DEF SortInv, TypeOK
<1>3. IsInjective(queue) /\ IsInjective(ordered) /\ ToSet(ordered) \cap ToSet(queue) = {}
  BY DEF SortInv, Listed, Apart
<1>4. /\ id \in Node /\ id \in ToSet(queue) /\ Tail(queue) \in Seq(Node)
      /\ IsInjective(Tail(queue)) /\ ToSet(Tail(queue)) = ToSet(queue) \ {id}
  BY <1>1, <1>2, <1>3, TailLists
<1>5. id \notin ToSet(ordered)
  BY <1>3, <1>4
<1>6. /\ ordered' \in Seq(Node) /\ IsInjective(ordered')
      /\ ToSet(ordered') = ToSet(ordered) \cup {id}
      /\ Len(ordered') = Len(ordered) + 1 /\ ordered'[Len(ordered) + 1] = id
      /\ \A i \in 1..Len(ordered) : ordered'[i] = ordered[i]
  BY <1>1, <1>2, <1>3, <1>4, <1>5, AppendLists
<1>7. Left(id) = {}
  BY <1>4, <1>5 DEF SortInv, QueueReady
\* What waits for id has one node less to wait for, the others as many.
<1>8. \A n \in Node : /\ Left(n)' = Left(n) \ {id} /\ (id \in Left(n) <=> n \in children)
  BY <1>1, <1>4, <1>5, <1>6 DEF Left
<1>9. \A n \in Node : /\ indeg'[n] = Cardinality(Left(n)') /\ indeg'[n] \in Nat
                      /\ (indeg'[n] = 0 <=> Left(n)' = {})
  <2> SUFFICES ASSUME NEW n \in Node
               PROVE  /\ indeg'[n] = Cardinality(Left(n)') /\ indeg'[n] \in Nat
                      /\ (indeg'[n] = 0 <=> Left(n)' = {})
    OBVIOUS
  <2>1. IsFiniteSet(Left(n)) /\ Cardinality(Left(n)) \in Nat
    <3>1. Left(n) \in SUBSET Node
      BY DEF Left
    <3> QED
      BY <3>1, NodesFinite
  <2>2. indeg[n] = Cardinality(Left(n))
    BY DEF SortInv, Counted
  <2> DEFINE L == Left(n)
             M == Left(n) \ {id}
  <2>3. Left(n)' = M
    BY <1>8
  <2>4. id \in L <=> n \in children
    BY <1>8
  <2>8. indeg'[n] = IF n \in children THEN indeg[n] - 1 ELSE indeg[n]
    BY <1>1
  <2> HIDE DEF children
  <2>5. IsFiniteSet(L \ {id})
        /\ Cardinality(L \ {id}) = IF id \in L THEN Cardinality(L) - 1 ELSE Cardinality(L)
    <3> HIDE DEF L, id
    <3> QED
      BY <2>1, FS_RemoveElement DEF L
  <2>6. indeg'[n] = Cardinality(M)
    BY <2>2, <2>4, <2>5, <2>8
  <2>7. Cardinality(M) \in Nat /\ (Cardinality(M) = 0 <=> M = {})
    BY <2>5, FS_CardinalityType, FS_EmptySet
  <2> HIDE DEF M
  <2> QED
    BY <2>3, <2>6, <2>7
\* Nothing that is queued now was taken or queued before.
<1>10. added \cap (ToSet(ordered) \cup ToSet(queue)) = {}
  <2> SUFFICES ASSUME NEW n \in added, n \in ToSet(ordered) \/ n \in ToSet(queue)
               PROVE  FALSE
    OBVIOUS
  <2>1. n \in Node /\ id \in Left(n)
    BY <1>8
  <2>2. CASE n \in ToSet(ordered)
    <3>1. PICK i \in 1..Len(ordered) : n = ordered[i]
      BY <1>2, <2>2 DEF ToSet
    <3>2. blockedBy[n] \cap Node \subseteq ToSet(SubSeq(ordered, 1, i - 1))
      BY <3>1 DEF SortInv, Before
    <3>3. ToSet(SubSeq(ordered, 1, i - 1)) \subseteq ToSet(ordered)
      <4>1. PICK m \in Nat : m = Len(ordered)
        BY <1>2
      <4>2. /\ i - 1 \in 0..m /\ DOMAIN SubSeq(ordered, 1, i - 1) = 1..(i - 1)
            /\ \A j \in 1..(i - 1) : SubSeq(ordered, 1, i - 1)[j] = ordered[j] /\ j \in 1..m
        BY <1>2, <3>1, <4>1
      <4> QED
        BY <1>2, <4>1, <4>2 DEF ToSet
    <3> QED
      BY <1>5, <2>1, <3>2, <3>3 DEF Left
  <2>3. CASE n \in ToSet(queue)
    <3>1. n \notin ToSet(ordered)
      BY <1>3, <2>3
    <3> QED
      BY <2>1, <2>3, <3>1 DEF SortInv, QueueReady
  <2> QED
    BY <2>2, <2>3
<1>11. added \in SUBSET Node
  OBVIOUS
<1> HIDE DEF added, id
<1>12. /\ InOrder(dag, added) \in Seq(added) /\ IsInjective(InOrder(dag, added))
       /\ ToSet(InOrder(dag, added)) = added
  BY <1>11, InOrderLists
<1>13. InOrder(dag, added) \in Seq(Node)
  BY <1>11, <1>12
<1>14. /\ queue' \in Seq(Node) /\ IsInjective(queue')
       /\ ToSet(queue') = (ToSet(queue) \ {id}) \cup added
  <2>1. ToSet(Tail(queue)) \cap ToSet(InOrder(dag, added)) = {}
    BY <1>4, <1>10, <1>12
  <2> DEFINE rest == Tail(queue)
             more == InOrder(dag, added)
  <2>2. /\ rest \in Seq(Node) /\ more \in Seq(Node) /\ IsInjective(rest) /\ IsInjective(more)
        /\ ToSet(rest) \cap ToSet(more) = {}
    BY <1>4, <1>12, <1>13, <2>1
  <2>3. /\ queue' = rest \o more
        /\ ToSet(rest) = ToSet(queue) \ {id} /\ ToSet(more) = added
    BY <1>1, <1>4, <1>12
  <2> HIDE DEF rest, more
  <2>4. /\ rest \o more \in Seq(Node) /\ IsInjective(rest \o more)
        /\ ToSet(rest \o more) = ToSet(rest) \cup ToSet(more)
    BY ONLY <2>2, ConcatLists
  <2> QED
    BY <2>3, <2>4
<1>15. TypeOK'
  <2>1. indeg' \in [Node -> Nat]
    <3>1. indeg' = [n \in Node |-> indeg'[n]]
      BY <1>1
    <3> QED
      BY <3>1, <1>9
  <2> QED
    BY <1>1, <1>2, <1>6, <1>14, <2>1 DEF TypeOK
<1>16. Listed' /\ Apart'
  <2>1. id \notin added
    BY <1>4, <1>10
  <2> QED
    BY <1>3, <1>6, <1>10, <1>14, <2>1 DEF Listed, Apart
<1>17. Counted'
  BY <1>9 DEF Counted
<1>18. QueueReady'
  <2> SUFFICES ASSUME NEW n \in Node, n \notin ToSet(ordered')
               PROVE  n \in ToSet(queue') <=> Left(n)' = {}
    BY DEF QueueReady
  <2>1. n \notin ToSet(ordered) /\ n # id
    BY <1>6
  <2>2. n \in ToSet(queue) <=> Left(n) = {}
    BY <2>1 DEF SortInv, QueueReady
  <2>3. n \in ToSet(queue') <=> n \in ToSet(queue) \/ n \in added
    BY <1>14, <2>1
  <2>4. n \in added <=> id \in Left(n) /\ Left(n)' = {}
    BY <1>8, <1>9 DEF added
  <2> QED
    BY <1>8, <2>2, <2>3, <2>4
<1>19. Before'
  <2> SUFFICES ASSUME NEW i \in 1..Len(ordered')
               PROVE  blockedBy[ordered'[i]] \cap Node \subseteq ToSet(SubSeq(ordered', 1, i - 1))
    BY <1>1 DEF Before
  <2>1. PICK m \in Nat : m = Len(ordered)
    BY <1>2
  <2>2. i \in 1..m \/ i = m + 1
    BY <1>6, <2>1
  <2>3. /\ i - 1 \in 0..m /\ DOMAIN SubSeq(ordered', 1, i - 1) = 1..(i - 1)
        /\ \A j \in 1..(i - 1) : SubSeq(ordered', 1, i - 1)[j] = ordered'[j] /\ j \in 1..m
    BY <1>6, <2>1, <2>2
  <2>4. \A j \in 1..(i - 1) : ordered[j] \in ToSet(SubSeq(ordered', 1, i - 1))
    BY <1>6, <2>1, <2>3 DEF ToSet
  <2>5. CASE i \in 1..m
    <3>1. ordered'[i] = ordered[i]
      BY <1>6, <2>1, <2>5
    <3>2. blockedBy[ordered[i]] \cap Node \subseteq ToSet(SubSeq(ordered, 1, i - 1))
      BY <2>1, <2>5 DEF SortInv, Before
    <3>3. ToSet(SubSeq(ordered, 1, i - 1)) = {ordered[j] : j \in 1..(i - 1)}
      <4>1. /\ DOMAIN SubSeq(ordered, 1, i - 1) = 1..(i - 1)
            /\ \A j \in 1..(i - 1) : SubSeq(ordered, 1, i - 1)[j] = ordered[j]
        BY <1>2, <2>1, <2>5
      <4> QED
        BY <4>1 DEF ToSet
    <3> QED
      BY <2>4, <3>1, <3>2, <3>3
  <2>6. CASE i = m + 1
    <3>1. ordered'[i] = id
      BY <1>6, <2>1, <2>6
    <3>2. blockedBy[id] \cap Node \subseteq ToSet(ordered)
      BY <1>7 DEF Left
    <3>3. ToSet(ordered) = {ordered[j] : j \in 1..(i - 1)}
      <4>1. DOMAIN ordered = 1..(i - 1)
        BY <1>2, <2>1, <2>6
      <4> QED
        BY <4>1 DEF ToSet
    <3> QED
      BY <2>4, <3>1, <3>2, <3>3
  <2> QED
    BY <2>2, <2>5, <2>6
<1> QED
  BY <1>15, <1>16, <1>17, <1>18, <1>19 DEF SortInv

LEMMA NextSorts == SortInv /\ [Next]_vars => SortInv'
<1>1. SortInv /\ UNCHANGED vars => SortInv'
  BY DEF SortInv, TypeOK, Listed, Apart, Counted, QueueReady, Before, Left, vars
<1> QED
  BY <1>1, TurnSorts DEF Next

\* The inductive invariant holds at every turn, for every graph of every size.
THEOREM SortCorrect == Spec => []SortInv
BY InitSorts, NextSorts, PTL DEF Spec

-----------------------------------------------------------------------------
(* What the result means *)

LEMMA OrderFollows == SortInv => OrderRespectsEdges
BY DEF SortInv, Listed, Before, OrderRespectsEdges

\* No node of a set of nodes that wait for each other is ever ordered: the one
\* ordered first would wait for one ordered before it.
LEMMA StuckNeverOrdered ==
  ASSUME SortInv, NEW S \in SUBSET Node, Stuck(blockedBy, S)
  PROVE  S \cap ToSet(ordered) = {}
<1> SUFFICES ASSUME S \cap ToSet(ordered) # {}
             PROVE  FALSE
  OBVIOUS
<1> DEFINE places == {i \in 1..Len(ordered) : ordered[i] \in S}
<1>1. ordered \in Seq(Node)
  BY DEF SortInv, TypeOK
<1>2. places # {}
  BY <1>1 DEF ToSet
<1>10. places \in SUBSET Nat
  BY <1>1
<1> HIDE DEF places
<1>3. PICK i \in places : \A j \in places : i <= j
  BY <1>2, <1>10, LeastOf
<1>4. \A j \in places : ~(j < i)
  BY <1>3, <1>10
<1> USE DEF places
<1>5. PICK d \in S : d \in blockedBy[ordered[i]]
  BY DEF Stuck
<1>6. d \in ToSet(SubSeq(ordered, 1, i - 1))
  BY <1>5 DEF SortInv, Before
<1>7. PICK m \in Nat : m = Len(ordered)
  BY <1>1
<1>8. /\ DOMAIN SubSeq(ordered, 1, i - 1) = 1..(i - 1)
      /\ \A j \in 1..(i - 1) : SubSeq(ordered, 1, i - 1)[j] = ordered[j] /\ j \in 1..m /\ j < i
  BY <1>1, <1>7
<1>9. PICK j \in 1..(i - 1) : d = ordered[j]
  BY <1>6, <1>8 DEF ToSet
<1> QED
  BY <1>4, <1>5, <1>7, <1>8, <1>9

LEMMA CycleFollows == SortInv => CycleIsExactlyStuck
<1> SUFFICES ASSUME SortInv, Done
             PROVE  CyclicNodes = StuckNodes(blockedBy)
  BY DEF CycleIsExactlyStuck
<1>1. \A n \in CyclicNodes : blockedBy[n] \cap CyclicNodes # {}
  <2> SUFFICES ASSUME NEW n \in CyclicNodes
               PROVE  blockedBy[n] \cap CyclicNodes # {}
    OBVIOUS
  <2>1. ToSet(queue) = {}
    BY DEF Done, ToSet
  <2>2. Left(n) # {}
    BY <2>1 DEF SortInv, QueueReady, CyclicNodes
  <2> QED
    BY <2>2 DEF Left, CyclicNodes
<1>2. CyclicNodes \in SUBSET Node /\ Stuck(blockedBy, CyclicNodes)
  BY <1>1 DEF Stuck, CyclicNodes
<1>3. CyclicNodes \subseteq StuckNodes(blockedBy)
  BY <1>2 DEF StuckNodes
<1>4. \A S \in SUBSET Node : Stuck(blockedBy, S) => S \subseteq CyclicNodes
  BY StuckNeverOrdered DEF CyclicNodes
<1>5. StuckNodes(blockedBy) \subseteq CyclicNodes
  BY <1>4 DEF StuckNodes
<1> QED
  BY <1>3, <1>5

\* The variables of the sort have their types, whatever the graph: no degree goes
\* below zero (indeg.set, DagScheduler.ts:89).
THEOREM TypeCorrect == Spec => []TypeOK
<1>1. SortInv => TypeOK
  BY DEF SortInv
<1> QED
  BY <1>1, SortCorrect, PTL

\* Whatever the graph and its size, a node is ordered once and after everything in
\* the graph that it is blocked by (the while loop, DagScheduler.ts:85).
THEOREM OrderSound == Spec => []OrderRespectsEdges
BY OrderFollows, SortCorrect, PTL

\* Whatever the graph and its size, the cycle that is reported holds exactly the
\* nodes that nobody could ever start (DagScheduler.ts:93-96): the sort refuses no
\* graph that can be worked off, and lets none pass that cannot.
THEOREM CycleExact == Spec => []CycleIsExactlyStuck
BY CycleFollows, SortCorrect, PTL
-----------------------------------------------------------------------------
(* The incremental cycle test is exact: what wouldCreateCycle computes is that *)
(* a path leads back, and a graph has a cycle where one does                  *)

Ids    == Node \cup Dangling
Graphs == [Node -> SUBSET Ids]

\* A path in g from n to t on which no node comes twice and none but the last is
\* in seen or dangling.
PathTo(g, t, n, seen, k, p) ==
  /\ p \in [1..k -> Ids] /\ p[1] = n /\ p[k] = t /\ IsInjective(p)
  /\ \A i \in 1..(k - 1) : p[i] \in Node \ seen /\ p[i + 1] \in g[p[i]]
Leads(g, t, n, seen) == \E k \in Nat \ {0} : \E p \in [1..k -> Ids] : PathTo(g, t, n, seen, k, p)

LEMMA PathStarts ==
  ASSUME NEW g \in Graphs, NEW t \in Node, NEW seen \in SUBSET Node
  PROVE  Leads(g, t, t, seen)
<1> DEFINE p == [i \in 1..1 |-> t]
<1>1. p \in [1..1 -> Ids] /\ p[1] = t
  BY DEF Ids
<1>2. IsInjective(p)
  BY DEF IsInjective
<1>3. PathTo(g, t, t, seen, 1, p)
  BY <1>1, <1>2 DEF PathTo
<1> HIDE DEF p
<1>4. 1 \in Nat \ {0}
  OBVIOUS
<1> QED
  BY <1>1, <1>3, <1>4 DEF Leads

\* A path is continued at its beginning by a node that is not on it.
LEMMA PathGrows ==
  ASSUME NEW g \in Graphs, NEW t \in Node, NEW seen \in SUBSET Node, NEW n \in Node \ seen,
         NEW d \in g[n], NEW k \in Nat \ {0}, NEW q, PathTo(g, t, d, seen, k, q),
         \A i \in 1..k : q[i] # n
  PROVE  Leads(g, t, n, seen)
<1> DEFINE p == [i \in 1..(k + 1) |-> IF i = 1 THEN n ELSE q[i - 1]]
<1>1. /\ q \in [1..k -> Ids] /\ q[1] = d /\ q[k] = t /\ IsInjective(q)
      /\ \A i \in 1..(k - 1) : q[i] \in Node \ seen /\ q[i + 1] \in g[q[i]]
  BY DEF PathTo
<1>2. \A i \in 1..(k + 1) : i = 1 \/ (i # 1 /\ i - 1 \in 1..k)
  OBVIOUS
<1>3. p \in [1..(k + 1) -> Ids]
  BY <1>1, <1>2 DEF Ids
<1>4. p[1] = n /\ \A i \in 1..(k + 1) : i # 1 => p[i] = q[i - 1]
  OBVIOUS
<1>5. p[k + 1] = t
  <2>1. k + 1 \in 1..(k + 1) /\ k + 1 # 1 /\ (k + 1) - 1 = k
    OBVIOUS
  <2> QED
    BY <1>1, <1>4, <2>1
<1> HIDE DEF p
<1>6. IsInjective(p)
  <2> SUFFICES ASSUME NEW i \in 1..(k + 1), NEW j \in 1..(k + 1), p[i] = p[j]
               PROVE  i = j
    BY <1>3 DEF IsInjective
  <2>1. CASE i = 1 /\ j = 1
    BY <2>1
  <2>2. CASE i = 1 /\ j # 1
    BY <1>2, <1>4, <2>2
  <2>3. CASE i # 1 /\ j = 1
    BY <1>2, <1>4, <2>3
  <2>4. CASE i # 1 /\ j # 1
    <3>1. q[i - 1] = q[j - 1] /\ i - 1 \in 1..k /\ j - 1 \in 1..k
      BY <1>2, <1>4, <2>4
    <3>2. i - 1 = j - 1
      BY <1>1, <3>1 DEF IsInjective
    <3> QED
      BY <3>2
  <2> QED
    BY <2>1, <2>2, <2>3, <2>4
<1>7. \A i \in 1..((k + 1) - 1) : p[i] \in Node \ seen /\ p[i + 1] \in g[p[i]]
  <2> SUFFICES ASSUME NEW i \in 1..k
               PROVE  p[i] \in Node \ seen /\ p[i + 1] \in g[p[i]]
    OBVIOUS
  <2>1. i \in 1..(k + 1) /\ i + 1 \in 1..(k + 1) /\ i + 1 # 1 /\ (i + 1) - 1 = i
    OBVIOUS
  <2>2. p[i + 1] = q[i]
    BY <1>4, <2>1
  <2>3. CASE i = 1
    BY <1>1, <1>4, <2>2, <2>3
  <2>4. CASE i # 1
    <3>1. i - 1 \in 1..(k - 1) /\ (i - 1) + 1 = i
      BY <2>4
    <3>2. p[i] = q[i - 1]
      BY <1>4, <2>1, <2>4
    <3> QED
      BY <1>1, <2>2, <3>1, <3>2
  <2> QED
    BY <2>3, <2>4
<1>8. k + 1 \in Nat \ {0}
  OBVIOUS
<1>9. PathTo(g, t, n, seen, k + 1, p)
  BY <1>3, <1>4, <1>5, <1>6, <1>7 DEF PathTo
<1> QED
  BY <1>3, <1>8, <1>9 DEF Leads

\* The rest of a path, from its j-th node on, is a path that avoids what comes before.
LEMMA PathRest ==
  ASSUME NEW g \in Graphs, NEW t \in Node, NEW seen \in SUBSET Node, NEW n,
         NEW k \in Nat \ {0}, NEW q, PathTo(g, t, n, seen, k, q), NEW j \in 1..k,
         NEW avoid \in SUBSET Node, avoid \subseteq seen \cup {q[i] : i \in 1..(j - 1)}
  PROVE  Leads(g, t, q[j], avoid)
<1> DEFINE l == k - j + 1
           p == [i \in 1..l |-> q[(i + j) - 1]]
<1>1. /\ q \in [1..k -> Ids] /\ q[1] = n /\ q[k] = t /\ IsInjective(q)
      /\ \A i \in 1..(k - 1) : q[i] \in Node \ seen /\ q[i + 1] \in g[q[i]]
  BY DEF PathTo
<1>2. l \in Nat \ {0} /\ \A i \in 1..l : (i + j) - 1 \in 1..k
  OBVIOUS
<1>3. p \in [1..l -> Ids] /\ \A i \in 1..l : p[i] = q[(i + j) - 1]
  BY <1>1, <1>2
<1>4. p[1] = q[j] /\ p[l] = t
  <2>1. 1 \in 1..l /\ l \in 1..l /\ (1 + j) - 1 = j /\ (l + j) - 1 = k
    OBVIOUS
  <2> QED
    BY <1>1, <1>3, <2>1
<1>5. \A i \in 1..(l - 1) : /\ i \in 1..l /\ i + 1 \in 1..l /\ (i + j) - 1 \in 1..(k - 1)
                            /\ ((i + 1) + j) - 1 = ((i + j) - 1) + 1
  OBVIOUS
<1>6. IsInjective(p)
  <2> SUFFICES ASSUME NEW a \in 1..l, NEW b \in 1..l, p[a] = p[b]
               PROVE  a = b
    BY <1>3 DEF IsInjective
  <2>1. (a + j) - 1 = (b + j) - 1
    BY <1>1, <1>2, <1>3 DEF IsInjective
  <2> QED
    BY <2>1
<1> HIDE DEF p, l
<1>7. \A i \in 1..(l - 1) : p[i] \in Node \ avoid /\ p[i + 1] \in g[p[i]]
  <2> SUFFICES ASSUME NEW i \in 1..(l - 1)
               PROVE  p[i] \in Node \ avoid /\ p[i + 1] \in g[p[i]]
    OBVIOUS
  <2> DEFINE at == (i + j) - 1
  <2>1. at \in 1..(k - 1) /\ at \in 1..k /\ p[i] = q[at] /\ p[i + 1] = q[at + 1]
    <3>1. at \in 1..(k - 1) /\ ((i + 1) + j) - 1 = at + 1 /\ i \in 1..l /\ i + 1 \in 1..l
      BY <1>5
    <3>2. at \in 1..k
      BY <3>1
    <3> QED
      BY <1>3, <3>1, <3>2
  <2>2. \A b \in 1..(j - 1) : b \in 1..k /\ b # at
    BY <1>5, <2>1
  <2> HIDE DEF at
  <2>3. \A b \in 1..(j - 1) : q[b] # q[at]
    BY <1>1, <2>1, <2>2 DEF IsInjective
  <2>4. q[at] \in Node \ seen /\ q[at + 1] \in g[q[at]]
    BY <1>1, <2>1
  <2> QED
    BY <2>1, <2>3, <2>4
<1>8. PathTo(g, t, q[j], avoid, l, p)
  BY <1>3, <1>4, <1>6, <1>7 DEF PathTo
<1> QED
  BY <1>2, <1>3, <1>8 DEF Leads

\* How a path begins: at its end, or with a step to where the rest of it begins.
LEMMA LeadsUnfolds ==
  ASSUME NEW g \in Graphs, NEW t \in Node, NEW seen \in SUBSET Node, NEW n \in Ids
  PROVE  Leads(g, t, n, seen) <=>
           n = t \/ (n \in Node \ seen /\ \E d \in g[n] : Leads(g, t, d, seen \cup {n}))
<1>1. ASSUME Leads(g, t, n, seen), n # t
      PROVE  n \in Node \ seen /\ \E d \in g[n] : Leads(g, t, d, seen \cup {n})
  <2>1. PICK k \in Nat \ {0} : \E q \in [1..k -> Ids] : PathTo(g, t, n, seen, k, q)
    BY <1>1 DEF Leads
  <2>2. PICK q \in [1..k -> Ids] : PathTo(g, t, n, seen, k, q)
    BY <2>1
  <2>3. q[1] = n /\ k # 1
    BY <1>1, <2>2 DEF PathTo
  <2>4. 1 \in 1..(k - 1) /\ 2 \in 1..k /\ 1 + 1 = 2
    BY <2>3
  <2>5. n \in Node \ seen /\ q[2] \in g[n]
    BY <2>2, <2>3, <2>4 DEF PathTo
  <2>6. seen \cup {n} \in SUBSET Node /\ seen \cup {n} \subseteq seen \cup {q[i] : i \in 1..(2 - 1)}
    BY <2>3, <2>5
  <2>7. Leads(g, t, q[2], seen \cup {n})
    BY <2>2, <2>4, <2>6, PathRest
  <2> QED
    BY <2>5, <2>7
<1>2. ASSUME n \in Node \ seen, NEW d \in g[n], Leads(g, t, d, seen \cup {n}), n # t
      PROVE  Leads(g, t, n, seen)
  <2>1. PICK k \in Nat \ {0} : \E q \in [1..k -> Ids] : PathTo(g, t, d, seen \cup {n}, k, q)
    BY <1>2 DEF Leads
  <2>2. PICK q \in [1..k -> Ids] : PathTo(g, t, d, seen \cup {n}, k, q)
    BY <2>1
  <2>3. PathTo(g, t, d, seen, k, q)
    BY <2>2 DEF PathTo
  <2>4. \A i \in 1..k : q[i] # n
    <3> SUFFICES ASSUME NEW i \in 1..k
                 PROVE  q[i] # n
      OBVIOUS
    <3>1. i = k \/ i \in 1..(k - 1)
      OBVIOUS
    <3> QED
      BY <1>2, <2>2, <3>1 DEF PathTo
  <2>5. n \in Node \ seen /\ d \in g[n]
    BY <1>2
  <2> QED
    BY <2>3, <2>4, <2>5, PathGrows
<1>3. n = t => Leads(g, t, n, seen)
  BY PathStarts
<1> QED
  BY <1>1, <1>2, <1>3

\* What leads on to t leads to t: a path that comes back here is cut.
LEMMA LeadsOn ==
  ASSUME NEW g \in Graphs, NEW t \in Node, NEW n \in Node, NEW d \in g[n], Leads(g, t, d, {})
  PROVE  Leads(g, t, n, {})
<1>1. PICK k \in Nat \ {0} : \E q \in [1..k -> Ids] : PathTo(g, t, d, {}, k, q)
  BY DEF Leads
<1>2. PICK q \in [1..k -> Ids] : PathTo(g, t, d, {}, k, q)
  BY <1>1
<1>3. CASE \A i \in 1..k : q[i] # n
  <2>1. {} \in SUBSET Node /\ n \in Node \ {}
    OBVIOUS
  <2> QED
    BY <1>2, <1>3, <2>1, PathGrows
<1>4. CASE \E i \in 1..k : q[i] = n
  <2>1. PICK j \in 1..k : q[j] = n
    BY <1>4
  <2>2. {} \in SUBSET Node /\ {} \subseteq {} \cup {q[i] : i \in 1..(j - 1)}
    OBVIOUS
  <2>3. Leads(g, t, q[j], {})
    BY <1>2, <2>2, PathRest
  <2> QED
    BY <2>1, <2>3
<1> QED
  BY <1>3, <1>4

-----------------------------------------------------------------------------
(* The recursion of wouldCreateCycle.visit computes Leads *)

\* The ids that the visit meets, and what one call of it answers, given the others.
Met(g, t, s) == Node \cup (UNION {g[m] : m \in Node}) \cup {s, t}
OneCall(g, t, s, v, seen) ==
  [n \in Met(g, t, s) |-> \/ n = t
                          \/ /\ n \in Node \ seen
                             /\ \E d \in g[n] : v[seen \cup {n}][d]]
Visits(g, t, s, v) == v = [seen \in SUBSET Node |-> OneCall(g, t, s, v, seen)]

LEMMA MetIds ==
  ASSUME NEW g \in Graphs, NEW t \in Node, NEW s \in Ids
  PROVE  /\ Met(g, t, s) \subseteq Ids /\ s \in Met(g, t, s)
         /\ \A n \in Node : g[n] \subseteq Met(g, t, s)
BY DEF Met, Graphs, Ids

\* Some function does what the recursion says.
LEMMA VisitExists ==
  ASSUME NEW g \in Graphs, NEW t \in Node, NEW s \in Ids
  PROVE  \E v : Visits(g, t, s, v)
<1> DEFINE v == [seen \in SUBSET Node |-> [n \in Met(g, t, s) |-> Leads(g, t, n, seen)]]
<1>1. ASSUME NEW seen \in SUBSET Node
      PROVE  v[seen] = OneCall(g, t, s, v, seen)
  <2>1. v[seen] = [n \in Met(g, t, s) |-> Leads(g, t, n, seen)]
    OBVIOUS
  <2>2. ASSUME NEW n \in Met(g, t, s)
        PROVE  Leads(g, t, n, seen) =
                 (n = t \/ (n \in Node \ seen /\ \E d \in g[n] : v[seen \cup {n}][d]))
    <3>1. n \in Ids
      BY MetIds
    <3>2. ASSUME n \in Node \ seen, NEW d \in g[n]
          PROVE  v[seen \cup {n}][d] = Leads(g, t, d, seen \cup {n})
      <4>1. seen \cup {n} \in SUBSET Node /\ d \in Met(g, t, s)
        BY <3>2, MetIds
      <4>2. v[seen \cup {n}] = [m \in Met(g, t, s) |-> Leads(g, t, m, seen \cup {n})]
        BY <4>1
      <4> QED
        BY <4>1, <4>2
    <3>3. Leads(g, t, n, seen) <=>
            n = t \/ (n \in Node \ seen /\ \E d \in g[n] : Leads(g, t, d, seen \cup {n}))
      BY <3>1, LeadsUnfolds
    <3>4. Leads(g, t, n, seen) \in BOOLEAN
      BY DEF Leads
    <3> HIDE DEF v
    <3>5. ASSUME n \in Node \ seen
          PROVE  (\E d \in g[n] : Leads(g, t, d, seen \cup {n}))
                   <=> (\E d \in g[n] : v[seen \cup {n}][d])
      BY <3>2, <3>5, Zenon
    <3> QED
      BY <3>3, <3>4, <3>5, Zenon
  <2> HIDE DEF v
  <2>3. OneCall(g, t, s, v, seen) = [n \in Met(g, t, s) |->
          n = t \/ (n \in Node \ seen /\ \E d \in g[n] : v[seen \cup {n}][d])]
    BY DEF OneCall
  <2> QED
    BY <2>1, <2>2, <2>3, Zenon
<1>2. v = [seen \in SUBSET Node |-> v[seen]]
  OBVIOUS
<1> HIDE DEF v
<1>3. v = [seen \in SUBSET Node |-> OneCall(g, t, s, v, seen)]
  BY <1>1, <1>2, Zenon
<1> QED
  BY <1>3 DEF Visits

\* Whatever does what the recursion says tells whether a path leads on: `seen` grows
\* with every call, so a wrong answer would come from another one with more seen.
LEMMA VisitLeads ==
  ASSUME NEW g \in Graphs, NEW t \in Node, NEW s \in Ids, NEW v, Visits(g, t, s, v),
         NEW seen \in SUBSET Node, NEW n \in Met(g, t, s)
  PROVE  v[seen][n] <=> Leads(g, t, n, seen)
<1> DEFINE Right(x) == \A m \in Met(g, t, s) : v[x][m] <=> Leads(g, t, m, x)
           Wrong == {x \in SUBSET Node : ~Right(x)}
           room(x) == Cardinality(Node \ x)
           sizes == {room(x) : x \in Wrong}
<1>1. \A x \in SUBSET Node : IsFiniteSet(Node \ x) /\ room(x) \in Nat
  <2> SUFFICES ASSUME NEW x \in SUBSET Node
               PROVE  IsFiniteSet(Node \ x) /\ room(x) \in Nat
    OBVIOUS
  <2>1. Node \ x \in SUBSET Node
    OBVIOUS
  <2> QED
    BY <2>1, NodesFinite
<1>2. ASSUME Wrong # {}
      PROVE  FALSE
  <2>1. sizes \in SUBSET Nat /\ sizes # {}
    BY <1>1, <1>2
  <2>2. PICK k \in sizes : \A l \in sizes : k <= l
    <3> HIDE DEF sizes
    <3> QED
      BY <2>1, LeastOf
  <2>3. PICK x \in Wrong : room(x) = k
    BY <2>2
  <2>4. x \in SUBSET Node /\ ~Right(x)
    BY <2>3
  <2>5. PICK m \in Met(g, t, s) : ~(v[x][m] <=> Leads(g, t, m, x))
    BY <2>4
  <2>6. m \in Ids
    BY MetIds
  <2>7. v[x][m] = (m = t \/ (m \in Node \ x /\ \E d \in g[m] : v[x \cup {m}][d]))
    <3>1. v[x] = OneCall(g, t, s, v, x)
      BY <2>4 DEF Visits
    <3>2. OneCall(g, t, s, v, x)[m] =
            (m = t \/ (m \in Node \ x /\ \E d \in g[m] : v[x \cup {m}][d]))
      BY Zenon DEF OneCall
    <3> QED
      BY <3>1, <3>2, Zenon
  <2>8. ASSUME m \in Node \ x
        PROVE  Right(x \cup {m})
    <3>1. x \cup {m} \in SUBSET Node
      BY <2>4, <2>8
    <3>2. room(x \cup {m}) = room(x) - 1
      <4>1. Node \ (x \cup {m}) = (Node \ x) \ {m}
        OBVIOUS
      <4>2. Cardinality((Node \ x) \ {m}) = Cardinality(Node \ x) - 1
        <5> DEFINE F == Node \ x
        <5>1. IsFiniteSet(F) /\ m \in F
          BY <1>1, <2>4, <2>8
        <5> HIDE DEF F
        <5>2. Cardinality(F \ {m}) = Cardinality(F) - 1
          BY <5>1, FS_RemoveElement
        <5> QED
          BY <5>2 DEF F
      <4> QED
        BY <4>1, <4>2
    <3>3. x \cup {m} \notin Wrong
      <4>1. room(x) \in Nat /\ ~(room(x) <= room(x) - 1)
        BY <1>1, <2>4
      <4> SUFFICES ASSUME x \cup {m} \in Wrong
                   PROVE  FALSE
        OBVIOUS
      <4>2. room(x \cup {m}) \in sizes
        OBVIOUS
      <4> QED
        BY <2>2, <2>3, <3>2, <4>1, <4>2
    <3> QED
      BY <3>1, <3>3
  <2>9. ASSUME m \in Node \ x
        PROVE  (\E d \in g[m] : v[x \cup {m}][d]) <=> (\E d \in g[m] : Leads(g, t, d, x \cup {m}))
    <3>1. \A d \in g[m] : d \in Met(g, t, s)
      BY <2>9, MetIds
    <3>2. \A d \in g[m] : v[x \cup {m}][d] <=> Leads(g, t, d, x \cup {m})
      BY <2>8, <2>9, <3>1, Zenon
    <3> QED
      BY <3>2, Zenon
  <2>10. Leads(g, t, m, x) <=>
           m = t \/ (m \in Node \ x /\ \E d \in g[m] : Leads(g, t, d, x \cup {m}))
    BY <2>4, <2>6, LeadsUnfolds
  <2> QED
    BY <2>5, <2>7, <2>9, <2>10, Zenon
<1> QED
  BY <1>2

\* wouldCreateCycle.visit answers whether a path leads from `start` back to `target`.
LEMMA ReachesBackIsLeads ==
  ASSUME NEW g \in Graphs, NEW t \in Node, NEW s \in Ids
  PROVE  ReachesBack(Node, g, t, s) <=> Leads(g, t, s, {})
<1> DEFINE v == CHOOSE visit : visit = [seen \in SUBSET Node |->
             [n \in Node \cup (UNION {g[m] : m \in Node}) \cup {s, t} |->
                \/ n = t
                \/ /\ n \in Node \ seen
                   /\ \E d \in g[n] : visit[seen \cup {n}][d]]]
<1>1. ReachesBack(Node, g, t, s) <=> v[{}][s]
  BY DEF ReachesBack
<1>2. Visits(g, t, s, v)
  BY VisitExists DEF Visits, OneCall, Met
<1> HIDE DEF v
<1>3. {} \in SUBSET Node /\ s \in Met(g, t, s)
  BY MetIds
<1>4. v[{}][s] <=> Leads(g, t, s, {})
  BY <1>2, <1>3, VisitLeads
<1> QED
  BY <1>1, <1>4, Zenon

-----------------------------------------------------------------------------
(* A new edge closes a cycle exactly when the test says so *)

LEMMA AddedEdgesCycle ==
  ASSUME NEW g \in Graphs, IsAcyclic(g), NEW n \in Node, NEW D \in SUBSET Ids
  PROVE  (\E d \in D : Leads(g, n, d, {})) <=> ~IsAcyclic([g EXCEPT ![n] = @ \cup D])
<1> DEFINE h == [g EXCEPT ![n] = @ \cup D]
<1>1. h \in Graphs /\ h[n] = g[n] \cup D /\ \A m \in Node : m # n => h[m] = g[m]
  BY DEF Graphs
<1> HIDE DEF h
\* The path and the new edge make a cycle.
<1>2. ASSUME NEW d \in D, Leads(g, n, d, {})
      PROVE  ~IsAcyclic(h)
  <2>1. PICK k \in Nat \ {0} : \E q \in [1..k -> Ids] : PathTo(g, n, d, {}, k, q)
    BY <1>2 DEF Leads
  <2>2. PICK q \in [1..k -> Ids] : PathTo(g, n, d, {}, k, q)
    BY <2>1
  <2>3. /\ q[1] = d /\ q[k] = n
        /\ \A i \in 1..(k - 1) : q[i] \in Node /\ q[i + 1] \in g[q[i]]
    BY <2>2 DEF PathTo
  <2> DEFINE S == {q[i] : i \in 1..k}
  <2>4. \A i \in 1..k : i = k \/ (i \in 1..(k - 1) /\ i + 1 \in 1..k)
    OBVIOUS
  <2>5. S \in SUBSET Node
    BY <2>3, <2>4
  <2>6. 1 \in 1..k /\ k \in 1..k
    OBVIOUS
  <2>7. \A i \in 1..k : h[q[i]] \cap S # {}
    <3> SUFFICES ASSUME NEW i \in 1..k
                 PROVE  h[q[i]] \cap S # {}
      OBVIOUS
    <3>1. CASE i = k
      <4>1. d \in h[n] /\ d \in S
        BY <1>1, <1>2, <2>3, <2>6
      <4> QED
        BY <2>3, <3>1, <4>1
    <3>2. CASE i \in 1..(k - 1) /\ i + 1 \in 1..k
      <4>1. q[i] \in Node /\ q[i + 1] \in g[q[i]] /\ q[i + 1] \in S
        BY <2>3, <3>2
      <4>2. g[q[i]] \subseteq h[q[i]]
        BY <1>1, <4>1
      <4> QED
        BY <4>1, <4>2
    <3> QED
      BY <2>4, <3>1, <3>2
  <2>8. Stuck(h, S)
    BY <2>7 DEF Stuck
  <2>9. n \in S
    BY <2>3, <2>6
  <2> HIDE DEF S
  <2> QED
    BY <2>5, <2>8, <2>9 DEF IsAcyclic, StuckNodes
\* Without such a path what waits in the new graph would have waited in the old one.
<1>3. ASSUME ~IsAcyclic(h), \A d \in D : ~Leads(g, n, d, {})
      PROVE  FALSE
  <2>1. PICK S \in SUBSET Node : Stuck(h, S) /\ S # {}
    BY <1>3 DEF IsAcyclic, StuckNodes
  <2>2. \A T \in SUBSET Node : Stuck(g, T) => T = {}
    BY DEF IsAcyclic, StuckNodes
  <2> DEFINE X == {m \in S : ~Leads(g, n, m, {})}
  <2>3. ASSUME NEW m \in X
        PROVE  g[m] \cap X # {}
    <3>1. Leads(g, n, n, {})
      BY PathStarts
    <3>2. m \in Node /\ m \in S /\ m # n /\ ~Leads(g, n, m, {})
      BY <2>1, <2>3, <3>1
    <3>3. g[m] \cap S # {}
      BY <1>1, <2>1, <3>2 DEF Stuck
    <3>4. PICK d \in g[m] : d \in S
      BY <3>3
    <3>5. ~Leads(g, n, d, {})
      BY <3>2, <3>4, LeadsOn
    <3> QED
      BY <3>4, <3>5
  <2>4. X \in SUBSET Node /\ Stuck(g, X)
    BY <2>1, <2>3 DEF Stuck
  <2>5. X = {}
    BY <2>2, <2>4
  <2>6. \A m \in S : Leads(g, n, m, {})
    BY <2>5
  <2>7. ASSUME NEW m \in S
        PROVE  g[m] \cap S # {}
    <3>1. \A d \in S : d \notin D
      BY <1>3, <2>6
    <3>2. m \in Node /\ h[m] \cap S # {}
      BY <2>1 DEF Stuck
    <3> QED
      BY <1>1, <3>1, <3>2
  <2>8. Stuck(g, S)
    BY <2>7 DEF Stuck
  <2> QED
    BY <2>1, <2>2, <2>8
<1> QED
  BY <1>2, <1>3 DEF h

\* Whatever the graph, wouldCreateCycle (DagScheduler.ts:107) refuses the edges that
\* would close a cycle, and no others: who asks it first keeps an acyclic graph
\* acyclic.
THEOREM CycleTestExact == Spec => []CheckedEdgesStayAcyclic
<1>1. SortInv => CheckedEdgesStayAcyclic
  <2> SUFFICES ASSUME SortInv, IsAcyclic(blockedBy), NEW n \in Node,
                      NEW D \in SUBSET (Node \cup Dangling)
               PROVE  WouldCreateCycle(Node, blockedBy, n, D) <=>
                        ~IsAcyclic([blockedBy EXCEPT ![n] = @ \cup D])
    BY DEF CheckedEdgesStayAcyclic
  <2>1. blockedBy \in Graphs /\ D \in SUBSET Ids
    BY DEF SortInv, TypeOK, Graphs, Ids
  <2>2. \A d \in D : ReachesBack(Node, blockedBy, n, d) <=> Leads(blockedBy, n, d, {})
    BY <2>1, ReachesBackIsLeads
  <2>3. WouldCreateCycle(Node, blockedBy, n, D) <=> \E d \in D : Leads(blockedBy, n, d, {})
    BY <2>2 DEF WouldCreateCycle
  <2> QED
    BY <2>1, <2>3, AddedEdgesCycle
<1> QED
  BY <1>1, SortCorrect, PTL
=============================================================================
