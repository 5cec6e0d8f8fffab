-------------------------- MODULE SlotSchedulerProofs --------------------------
(***************************************************************************)
(* Theorems about module SlotScheduler: what holds whatever the limit does, *)
(* and what holds as long as it does not shrink.                            *)
(***************************************************************************)
EXTENDS SlotScheduler, FiniteSetTheorems, SequenceTheorems, TLAPS

In(s) == {k \in Keys : phase[k] = s}

\* What every step keeps, a shrinking limit included: a wrapper holds exactly
\* when it is in running and waits exactly when its resolver is stored; the
\* queue names waiting wrappers only, none of them twice.
Accounted ==
  /\ running = In("holding")
  /\ waiters = In("waiting")
  /\ ToSet(queue) \subseteq waiters
  /\ IsInjective(queue)

\* What a limit that does not shrink adds: no more holders than slots, and no
\* stored resolver without its place in the queue.
WithinLimit ==
  /\ Cardinality(running) <= maxConcurrency
  /\ waiters \subseteq ToSet(queue)

\* A reload of the configuration may raise the limit, never lower it.
LimitNeverShrinks == [][maxConcurrency' >= maxConcurrency]_vars

\* What a limit that stays the same adds: a slot is free only while nobody waits.
Full == waiters # {} => Cardinality(running) = maxConcurrency

\* No reload of the configuration changes the limit.
LimitStays == [][maxConcurrency' = maxConcurrency]_vars

-----------------------------------------------------------------------------
LEMMA AppendToQueue ==
  ASSUME NEW q \in Seq(Keys), NEW k \in Keys
  PROVE  /\ Append(q, k) \in Seq(Keys)
         /\ ToSet(Append(q, k)) = ToSet(q) \cup {k}
         /\ IsInjective(q) /\ k \notin ToSet(q) => IsInjective(Append(q, k))
<1>1. /\ Append(q, k) \in Seq(Keys) /\ Len(Append(q, k)) = Len(q) + 1
      /\ \A i \in 1..Len(q) : Append(q, k)[i] = q[i]
      /\ Append(q, k)[Len(q) + 1] = k
  BY AppendProperties
<1>2. /\ DOMAIN q = 1..Len(q) /\ Len(q) \in Nat
      /\ DOMAIN Append(q, k) = 1..Len(q) + 1
  BY <1>1, LenProperties
<1>3. ToSet(Append(q, k)) = ToSet(q) \cup {k}
  BY <1>1, <1>2 DEF ToSet
<1>4. ASSUME IsInjective(q), k \notin ToSet(q)
      PROVE  IsInjective(Append(q, k))
  BY <1>1, <1>2, <1>4 DEF ToSet, IsInjective
<1> QED BY <1>1, <1>3, <1>4

LEMMA RestOfQueue ==
  ASSUME NEW q \in Seq(Keys), NEW i \in 1..Len(q), IsInjective(q)
  PROVE  LET rest == SubSeq(q, i + 1, Len(q))
         IN  /\ rest \in Seq(Keys) /\ IsInjective(rest)
             /\ ToSet(rest) \subseteq ToSet(q) \ {q[i]}
             /\ i = 1 => ToSet(q) \subseteq ToSet(rest) \cup {q[i]}
<1> DEFINE rest == SubSeq(q, i + 1, Len(q))
<1>1. Len(q) \in Nat /\ DOMAIN q = 1..Len(q) /\ \A j \in 1..Len(q) : q[j] \in Keys
  BY LenProperties, ElementOfSeq
<1>2. /\ rest \in Seq(Keys)
      /\ Len(rest) = IF i + 1 <= Len(q) THEN Len(q) - (i + 1) + 1 ELSE 0
      /\ \A j \in 1..Len(q) - (i + 1) + 1 : rest[j] = q[(i + 1) + j - 1]
  <2>1. \A j \in (i + 1)..Len(q) : q[j] \in Keys
    BY <1>1
  <2> QED BY <1>1, <2>1, SubSeqProperties
<1> HIDE DEF rest
<1>3. /\ DOMAIN rest = 1..Len(q) - i
      /\ \A j \in 1..Len(q) - i : rest[j] = q[i + j] /\ i + j \in 1..Len(q)
  <2>1. i \in 1..Len(q) /\ Len(rest) = Len(q) - i
    <3>1. PICK n \in Nat : n = Len(q)
      BY <1>1
    <3>2. i \in 1..n /\ Len(rest) = IF i + 1 <= n THEN n - (i + 1) + 1 ELSE 0
      BY <1>2, <3>1
    <3>3. Len(rest) = n - i
      BY <3>2
    <3> QED BY <3>1, <3>3
  <2>2. DOMAIN rest = 1..Len(rest)
    BY <1>2, LenProperties
  <2>3. \A j \in 1..Len(q) - i : (i + 1) + j - 1 = i + j /\ i + j \in 1..Len(q)
    BY <1>1, <2>1
  <2>4. Len(q) - (i + 1) + 1 = Len(q) - i
    BY <1>1, <2>1
  <2> QED BY <1>2, <2>1, <2>2, <2>3, <2>4
<1>4. IsInjective(rest)
  BY <1>1, <1>3 DEF IsInjective
<1>5. ToSet(rest) \subseteq ToSet(q) \ {q[i]}
  BY <1>1, <1>3 DEF ToSet, IsInjective
<1>6. i = 1 => ToSet(q) \subseteq ToSet(rest) \cup {q[i]}
  <2> SUFFICES ASSUME i = 1, NEW j \in 1..Len(q)
               PROVE  q[j] \in ToSet(rest) \cup {q[1]}
    BY <1>1 DEF ToSet
  <2>1. CASE j = 1
    BY <2>1
  <2>2. CASE j # 1
    <3>1. j - 1 \in 1..Len(q) - i /\ rest[j - 1] = q[j]
      BY <1>1, <1>3, <2>2
    <3> QED BY <1>3, <3>1 DEF ToSet
  <2> QED BY <2>1, <2>2
<1> QED BY <1>2, <1>4, <1>5, <1>6 DEF rest

LEMMA EmptyQueue ==
  /\ << >> \in Seq(Keys) /\ ToSet(<< >>) = {} /\ IsInjective(<< >>)
  /\ \A q \in Seq(Keys) : ToSet(q) = {} => q = << >>
<1>1. \A q \in Seq(Keys) : DOMAIN q = 1..Len(q) /\ Len(q) \in Nat
                           /\ (q # << >> => Len(q) \in Nat \ {0})
  BY LenProperties, EmptySeq
<1>2. << >> \in Seq(Keys) /\ DOMAIN << >> = {}
  BY EmptySeq, <1>1
<1>3. ASSUME NEW q \in Seq(Keys), q # << >> PROVE q[1] \in ToSet(q)
  BY <1>1, <1>3 DEF ToSet
<1> QED BY <1>2, <1>3 DEF ToSet, IsInjective

LEMMA EmptyRange == \A q \in Seq(Keys) : 1..Len(q) = {} => q = << >>
<1> SUFFICES ASSUME NEW q \in Seq(Keys), q # << >> PROVE 1 \in 1..Len(q)
  OBVIOUS
<1> QED BY EmptySeq

-----------------------------------------------------------------------------
LEMMA InitAccounted == Init => TypeOK /\ Accounted /\ WithinLimit
<1> SUFFICES ASSUME Init PROVE TypeOK /\ Accounted /\ WithinLimit
  OBVIOUS
<1> USE SlotAssumption, EmptyQueue, FS_EmptySet DEF Init
<1>1. TypeOK
  BY DEF TypeOK
<1>2. Accounted
  BY DEF Accounted, In
<1>3. WithinLimit
  BY DEF WithinLimit
<1> QED BY <1>1, <1>2, <1>3

\* What a release does, one case per branch of its loop.
LEMMA ReleaseCases ==
  ASSUME TypeOK, Accounted, NEW k \in Keys, Release(k)
  PROVE  /\ phase[k] = "holding" /\ k \in running /\ k \notin waiters
         /\ UNCHANGED maxConcurrency
         /\ \/ /\ Served(running \ {k}) = {} /\ queue' = << >>
               /\ running' = running \ {k} /\ waiters' = waiters
               /\ phase' = [phase EXCEPT ![k] = "idle"]
            \/ \E i \in Served(running \ {k}) :
                 /\ \A j \in Served(running \ {k}) : i <= j
                 /\ i \in 1..Len(queue) /\ queue[i] \in waiters
                 /\ queue[i] \in Keys /\ queue[i] # k
                 /\ running' = (running \ {k}) \cup {queue[i]}
                 /\ queue' = SubSeq(queue, i + 1, Len(queue))
                 /\ waiters' = waiters \ {queue[i]}
                 /\ phase' = [phase EXCEPT ![k] = "idle", ![queue[i]] = "holding"]
         /\ abandoned' = abandoned \ {k}
<1>1. phase[k] = "holding" /\ k \in running /\ k \notin waiters
  BY DEF Release, TypeOK, Accounted, In
<1>2. waiters \ {k} = waiters /\ abandoned' = abandoned \ {k}
  BY <1>1 DEF Release
<1>3. CASE Served(running \ {k}) = {}
  BY <1>1, <1>2, <1>3 DEF Release
<1>4. CASE Served(running \ {k}) # {}
  <2>1. PICK i \in Served(running \ {k}) :
          /\ \A j \in Served(running \ {k}) : i <= j
          /\ running' = (running \ {k}) \cup {queue[i]}
          /\ queue' = SubSeq(queue, i + 1, Len(queue))
          /\ waiters' = waiters \ {queue[i]}
          /\ phase' = IF queue[i] \in waiters
                      THEN [[phase EXCEPT ![k] = "idle"] EXCEPT ![queue[i]] = "holding"]
                      ELSE [phase EXCEPT ![k] = "idle"]
    BY <1>2, <1>4 DEF Release
  <2>2. i \in 1..Len(queue) /\ queue[i] \in ToSet(queue) /\ queue[i] \in waiters
    BY LenProperties DEF Served, ToSet, TypeOK, Accounted
  <2>3. queue[i] \in Keys /\ queue[i] # k
    BY <1>1, <2>2 DEF TypeOK
  <2> QED BY <1>1, <2>1, <2>2, <2>3 DEF Release
<1> QED BY <1>3, <1>4

LEMMA StepAccounted ==
  ASSUME TypeOK, Accounted, [Next]_vars
  PROVE  TypeOK' /\ Accounted'
<1>1. ASSUME NEW k \in Keys, AcquireOrWait(k)
      PROVE  TypeOK' /\ Accounted'
  <2>1. phase[k] = "idle" /\ k \notin running /\ k \notin waiters /\ k \notin ToSet(queue)
    BY <1>1 DEF AcquireOrWait, Accounted, In
  <2>2. CASE Acquires(k, running)
    <3>1. /\ running' = running \cup {k} /\ phase' = [phase EXCEPT ![k] = "holding"]
          /\ UNCHANGED <<queue, waiters, maxConcurrency, abandoned>>
      BY <1>1, <2>2 DEF AcquireOrWait
    <3>2. TypeOK'
      BY <3>1 DEF TypeOK
    <3> QED BY <2>1, <3>1, <3>2 DEF TypeOK, Accounted, In
  <2>3. CASE ~Acquires(k, running)
    <3>1. /\ queue' = Append(queue, k) /\ waiters' = waiters \cup {k}
          /\ phase' = [phase EXCEPT ![k] = "waiting"]
          /\ UNCHANGED <<running, maxConcurrency, abandoned>>
      BY <1>1, <2>1, <2>3 DEF AcquireOrWait
    <3>2. /\ queue' \in Seq(Keys) /\ ToSet(queue') = ToSet(queue) \cup {k}
          /\ IsInjective(queue')
      BY <2>1, <3>1, AppendToQueue DEF TypeOK, Accounted
    <3>3. TypeOK'
      BY <3>1, <3>2 DEF TypeOK
    <3> QED BY <2>1, <3>1, <3>2, <3>3 DEF TypeOK, Accounted, In
  <2> QED BY <2>2, <2>3
<1>2. ASSUME NEW k \in Keys, Release(k)
      PROVE  TypeOK' /\ Accounted'
  <2>1. phase[k] = "holding" /\ k \in running /\ k \notin waiters
        /\ UNCHANGED maxConcurrency /\ abandoned' = abandoned \ {k}
    BY <1>2, ReleaseCases
  <2>2. ASSUME queue' = << >>, running' = running \ {k}, waiters' = waiters,
               phase' = [phase EXCEPT ![k] = "idle"]
        PROVE  TypeOK' /\ Accounted'
    <3>1. TypeOK'
      BY <2>1, <2>2, EmptyQueue DEF TypeOK
    <3> QED BY <2>1, <2>2, <3>1, EmptyQueue DEF TypeOK, Accounted, In
  <2>3. ASSUME NEW i \in 1..Len(queue), queue[i] \in waiters, queue[i] \in Keys,
               queue[i] # k,
               running' = (running \ {k}) \cup {queue[i]},
               queue' = SubSeq(queue, i + 1, Len(queue)),
               waiters' = waiters \ {queue[i]},
               phase' = [phase EXCEPT ![k] = "idle", ![queue[i]] = "holding"]
        PROVE  TypeOK' /\ Accounted'
    <3>1. /\ queue' \in Seq(Keys) /\ IsInjective(queue')
          /\ ToSet(queue') \subseteq ToSet(queue) \ {queue[i]}
      BY <2>3, RestOfQueue DEF TypeOK, Accounted
    <3>2. TypeOK'
      BY <2>1, <2>3, <3>1 DEF TypeOK
    <3>3. \A v \in Keys : phase'[v] = IF v = queue[i] THEN "holding"
                                      ELSE IF v = k THEN "idle" ELSE phase[v]
      BY <2>3 DEF TypeOK
    <3> QED BY <2>1, <2>3, <3>1, <3>2, <3>3 DEF TypeOK, Accounted, In
  <2> QED BY <1>2, <2>2, <2>3, ReleaseCases
<1>3. ASSUME NEW n \in Resizes, Resize(n)
      PROVE  TypeOK' /\ Accounted'
  BY <1>3 DEF Resize, TypeOK, Accounted, In
<1>4. ASSUME NEW k \in Keys, Abandon(k)
      PROVE  TypeOK' /\ Accounted'
  BY <1>4 DEF Abandon, TypeOK, Accounted, In
<1>5. CASE UNCHANGED vars
  BY <1>5 DEF vars, TypeOK, Accounted, In
<1> QED BY <1>1, <1>2, <1>3, <1>4, <1>5 DEF Next

LEMMA StepWithinLimit ==
  ASSUME TypeOK, Accounted, WithinLimit, [Next]_vars,
         [maxConcurrency' >= maxConcurrency]_vars
  PROVE  WithinLimit'
<1>1. /\ maxConcurrency \in Nat \ {0} /\ maxConcurrency' \in Nat \ {0}
      /\ IsFiniteSet(running) /\ Cardinality(running) \in Nat
  BY SlotAssumption, StepAccounted, FS_Subset, FS_CardinalityType DEF TypeOK
<1>2. ASSUME NEW k \in Keys, AcquireOrWait(k)
      PROVE  WithinLimit'
  <2>1. k \notin running /\ k \notin ToSet(queue)
    BY <1>2 DEF AcquireOrWait, Accounted, In
  <2>2. CASE Acquires(k, running)
    <3>1. running' = running \cup {k} /\ UNCHANGED <<queue, waiters, maxConcurrency>>
      BY <1>2, <2>2 DEF AcquireOrWait
    <3>2. Cardinality(running') = Cardinality(running) + 1
      BY <1>1, <2>1, <3>1, FS_AddElement
    <3> QED BY <1>1, <2>1, <2>2, <3>1, <3>2 DEF WithinLimit, Acquires
  <2>3. CASE ~Acquires(k, running)
    <3>1. /\ queue' = Append(queue, k) /\ waiters' = waiters \cup {k}
          /\ UNCHANGED <<running, maxConcurrency>>
      BY <1>2, <2>1, <2>3 DEF AcquireOrWait
    <3>2. ToSet(queue') = ToSet(queue) \cup {k}
      BY <3>1, AppendToQueue DEF TypeOK
    <3> QED BY <3>1, <3>2 DEF WithinLimit
  <2> QED BY <2>2, <2>3
<1>3. ASSUME NEW k \in Keys, Release(k)
      PROVE  WithinLimit'
  <2>1. k \in running /\ UNCHANGED maxConcurrency
    BY <1>3, ReleaseCases
  <2>2. /\ IsFiniteSet(running \ {k})
        /\ Cardinality(running \ {k}) = Cardinality(running) - 1
    BY <1>1, <2>1, FS_RemoveElement
  <2>3. Served(running \ {k}) = 1..Len(queue)
    BY <1>1, <2>2 DEF Served, Acquires, WithinLimit
  <2>4. ASSUME Served(running \ {k}) = {}, queue' = << >>,
               running' = running \ {k}, waiters' = waiters
        PROVE  WithinLimit'
    <3>1. queue = << >>
      BY <2>3, <2>4, EmptyRange DEF TypeOK
    <3> QED BY <1>1, <2>1, <2>2, <2>4, <3>1 DEF WithinLimit
  <2>5. ASSUME NEW i \in Served(running \ {k}),
               \A j \in Served(running \ {k}) : i <= j,
               running' = (running \ {k}) \cup {queue[i]},
               queue' = SubSeq(queue, i + 1, Len(queue)),
               waiters' = waiters \ {queue[i]}
        PROVE  WithinLimit'
    <3>1. Len(queue) \in Nat
      BY LenProperties DEF TypeOK
    <3>2. i = 1 /\ i \in 1..Len(queue)
      <4>1. i \in 1..Len(queue) /\ 1 \in 1..Len(queue)
        BY <2>3, <3>1
      <4>2. 1 \in Served(running \ {k})
        BY <2>3, <4>1
      <4>3. i <= 1
        BY <2>5, <4>2
      <4> QED BY <3>1, <4>1, <4>3
    <3>3. ToSet(queue) \subseteq ToSet(queue') \cup {queue[i]}
      BY <2>5, <3>2, RestOfQueue DEF TypeOK, Accounted
    <3>4. Cardinality(running') <= Cardinality(running)
      <4>1. \/ Cardinality(running') = Cardinality(running \ {k})
            \/ Cardinality(running') = Cardinality(running \ {k}) + 1
        BY <2>2, <2>5, FS_AddElement
      <4> QED BY <1>1, <2>2, <4>1
    <3>5. IsFiniteSet(running') /\ Cardinality(running') \in Nat
      BY <2>2, <2>5, FS_AddElement, FS_CardinalityType
    <3> QED BY <1>1, <2>1, <2>5, <3>3, <3>4, <3>5 DEF WithinLimit
  <2> QED BY <1>3, <2>4, <2>5, ReleaseCases
<1>4. ASSUME NEW n \in Resizes, Resize(n)
      PROVE  WithinLimit'
  <2>1. maxConcurrency' >= maxConcurrency
    BY <1>1, <1>4 DEF Resize, vars
  <2> QED BY <1>1, <1>4, <2>1 DEF Resize, WithinLimit
<1>5. ASSUME NEW k \in Keys, Abandon(k)
      PROVE  WithinLimit'
  BY <1>5 DEF Abandon, WithinLimit
<1>6. CASE UNCHANGED vars
  BY <1>6 DEF vars, WithinLimit
<1> QED BY <1>2, <1>3, <1>4, <1>5, <1>6 DEF Next

\* While the limit stays the same, a slot that is given back goes to a waiter
\* and nobody is made to wait while a slot is free.
LEMMA StepFull ==
  ASSUME TypeOK, Accounted, WithinLimit, Full, [Next]_vars,
         [maxConcurrency' = maxConcurrency]_vars
  PROVE  Full'
<1>1. /\ maxConcurrency \in Nat \ {0} /\ IsFiniteSet(running)
      /\ Cardinality(running) \in Nat /\ Cardinality(running) <= maxConcurrency
  BY SlotAssumption, FS_Subset, FS_CardinalityType DEF TypeOK, WithinLimit
<1>2. ASSUME NEW k \in Keys, AcquireOrWait(k)
      PROVE  Full'
  <2>1. k \notin running
    BY <1>2 DEF AcquireOrWait, Accounted, In
  <2>2. CASE Acquires(k, running)
    <3>1. UNCHANGED waiters /\ Cardinality(running) < maxConcurrency
      BY <1>2, <2>1, <2>2 DEF AcquireOrWait, Acquires
    <3> QED BY <1>1, <3>1 DEF Full
  <2>3. CASE ~Acquires(k, running)
    <3>1. UNCHANGED <<running, maxConcurrency>>
      BY <1>2, <2>3 DEF AcquireOrWait
    <3>2. Cardinality(running) = maxConcurrency
      BY <1>1, <2>3 DEF Acquires
    <3> QED BY <3>1, <3>2 DEF Full
  <2> QED BY <2>2, <2>3
<1>3. ASSUME NEW k \in Keys, Release(k)
      PROVE  Full'
  <2>1. k \in running /\ UNCHANGED maxConcurrency
    BY <1>3, ReleaseCases
  <2>2. /\ IsFiniteSet(running \ {k})
        /\ Cardinality(running \ {k}) = Cardinality(running) - 1
    BY <1>1, <2>1, FS_RemoveElement
  <2>3. ASSUME Served(running \ {k}) = {}, waiters' = waiters
        PROVE  Full'
    <3>1. Cardinality(running \ {k}) < maxConcurrency
      BY <1>1, <2>2
    <3>2. 1..Len(queue) = {}
      BY <2>3, <3>1 DEF Served, Acquires
    <3>3. waiters = {}
      BY <3>2, EmptyRange, EmptyQueue DEF TypeOK, WithinLimit
    <3> QED BY <2>3, <3>3 DEF Full
  <2>4. ASSUME NEW n \in waiters, running' = (running \ {k}) \cup {n}
        PROVE  Full'
    <3>1. n \notin running
      BY <2>4 DEF Accounted, In
    <3>2. Cardinality(running') = Cardinality(running)
      <4>1. Cardinality((running \ {k}) \cup {n}) = Cardinality(running \ {k}) + 1
        BY <2>2, <3>1, FS_AddElement
      <4> QED BY <1>1, <2>2, <2>4, <4>1
    <3>3. Cardinality(running) = maxConcurrency
      BY <2>4 DEF Full
    <3> QED BY <2>1, <3>2, <3>3 DEF Full
  <2> QED BY <1>3, <2>3, <2>4, ReleaseCases
<1>4. ASSUME NEW n \in Resizes, Resize(n)
      PROVE  Full'
  BY <1>1, <1>4 DEF Resize, vars
<1>5. ASSUME NEW k \in Keys, Abandon(k)
      PROVE  Full'
  BY <1>5 DEF Abandon, Full
<1>6. CASE UNCHANGED vars
  BY <1>6 DEF vars, Full
<1> QED BY <1>2, <1>3, <1>4, <1>5, <1>6 DEF Next

-----------------------------------------------------------------------------
\* Every variable keeps its type: a key is queued or running only as a key.
THEOREM TypeCorrect == Spec => []TypeOK
<1>1. Init => TypeOK /\ Accounted
  BY InitAccounted
<1>2. TypeOK /\ Accounted /\ [Next]_vars => TypeOK' /\ Accounted'
  BY StepAccounted
<1> QED BY <1>1, <1>2, PTL DEF Spec

\* Whatever the limit does, the promise of acquireOrWait is resolved by the
\* release that adds the key to running, and by no other: who holds is in
\* running, who waits has its resolver, and the queue names no one else.
THEOREM AlwaysAccounted == Spec => []Accounted
<1>1. Init => TypeOK /\ Accounted
  BY InitAccounted
<1>2. TypeOK /\ Accounted /\ [Next]_vars => TypeOK' /\ Accounted'
  BY StepAccounted
<1> QED BY <1>1, <1>2, PTL DEF Spec

LEMMA LimitRespected == Spec /\ LimitNeverShrinks => [](TypeOK /\ Accounted /\ WithinLimit)
<1>1. Init => TypeOK /\ Accounted /\ WithinLimit
  BY InitAccounted
<1>2. /\ TypeOK /\ Accounted /\ WithinLimit /\ [Next]_vars
      /\ [maxConcurrency' >= maxConcurrency]_vars
      => TypeOK' /\ Accounted' /\ WithinLimit'
  BY StepAccounted, StepWithinLimit
<1> QED BY <1>1, <1>2, PTL DEF Spec, LimitNeverShrinks

\* The loop of release loses nobody while the limit does not shrink: every
\* wrapper that waits keeps its place in the queue, once, and its resolver, and
\* every wrapper that holds a slot is counted.
THEOREM WaitersKept == Spec /\ LimitNeverShrinks => []NoWaiterForgotten
<1>1. TypeOK /\ Accounted /\ WithinLimit => NoWaiterForgotten
  BY DEF Accounted, WithinLimit, NoWaiterForgotten, In
<1> QED BY <1>1, LimitRespected, PTL

\* While the limit stays what it was, no wrapper waits next to a free slot.
\* (After the limit grew one may, until somebody releases: resize serves nobody.)
THEOREM NoIdleSlot == Spec /\ LimitStays => []Full
<1>1. Init => TypeOK /\ Accounted /\ WithinLimit /\ Full
  BY InitAccounted DEF Init, Full
<1>2. /\ TypeOK /\ Accounted /\ WithinLimit /\ Full /\ [Next]_vars
      /\ [maxConcurrency' = maxConcurrency]_vars
      => TypeOK' /\ Accounted' /\ WithinLimit' /\ Full'
  <2> SUFFICES ASSUME TypeOK, Accounted, WithinLimit, Full, [Next]_vars,
                      [maxConcurrency' = maxConcurrency]_vars
               PROVE  TypeOK' /\ Accounted' /\ WithinLimit' /\ Full'
    OBVIOUS
  <2>1. maxConcurrency \in Nat
    BY SlotAssumption DEF TypeOK
  <2>2. [maxConcurrency' >= maxConcurrency]_vars
    BY <2>1
  <2> QED BY <2>2, StepAccounted, StepWithinLimit, StepFull
<1> QED BY <1>1, <1>2, PTL DEF Spec, LimitStays

\* Queue, resolvers and set of running keys together are a pool of slots that
\* hands a freed slot on in the same step (module SlotPool), for every number
\* of wrappers and every limit that does not shrink.
THEOREM SchedulerIsPool == Spec /\ LimitNeverShrinks => ImplementsPool
<1>1. Init => Pool!PoolInit
  BY SlotAssumption DEF Init, Pool!PoolInit
<1>2. ASSUME TypeOK, Accounted, WithinLimit, [Next]_vars
      PROVE  [Pool!PoolNext]_<<phase, maxConcurrency>>
  <2>1. /\ Pool!In("holding") = running /\ Pool!In("waiting") = waiters
        /\ \A k \in Keys : k \in Pool!In("idle") <=> phase[k] = "idle"
    BY <1>2 DEF Accounted, In, Pool!In
  <2>2. ASSUME NEW k \in Keys, AcquireOrWait(k)
        PROVE  Pool!Claim(k)
    <3>1. phase[k] = "idle" /\ k \notin running /\ UNCHANGED maxConcurrency
      BY <1>2, <2>2 DEF AcquireOrWait, Accounted, In
    <3>2. phase' = [phase EXCEPT ![k] =
                      IF Cardinality(running) < maxConcurrency THEN "holding"
                      ELSE "waiting"]
      BY <2>2, <3>1 DEF AcquireOrWait, Acquires
    <3>3. Pool!Cardinality(Pool!In("holding")) = Cardinality(running)
      BY <2>1 DEF Pool!Cardinality, Cardinality
    <3> QED BY <2>1, <3>1, <3>2, <3>3 DEF Pool!Claim
  <2>3. ASSUME NEW k \in Keys, Release(k)
        PROVE  Pool!GiveBack(k) \/ \E n \in Keys : Pool!HandOver(k, n)
    <3>1. phase[k] = "holding" /\ k \in running /\ UNCHANGED maxConcurrency
      BY <1>2, <2>3, ReleaseCases
    <3>2. ASSUME Served(running \ {k}) = {},
                 phase' = [phase EXCEPT ![k] = "idle"]
          PROVE  Pool!GiveBack(k)
      <4>1. /\ maxConcurrency \in Nat \ {0} /\ IsFiniteSet(running)
            /\ Cardinality(running) \in Nat
        BY <1>2, SlotAssumption, FS_Subset, FS_CardinalityType DEF TypeOK
      <4>2. Cardinality(running \ {k}) = Cardinality(running) - 1
        BY <3>1, <4>1, FS_RemoveElement
      <4>3. 1..Len(queue) = {}
        BY <1>2, <3>2, <4>1, <4>2 DEF Served, Acquires, WithinLimit
      <4>4. queue = << >>
        BY <1>2, <4>3, EmptyRange DEF TypeOK
      <4>5. waiters = {}
        BY <1>2, <4>4, EmptyQueue DEF WithinLimit
      <4> QED BY <2>1, <3>1, <3>2, <4>5 DEF Pool!GiveBack
    <3>3. ASSUME NEW i \in 1..Len(queue), queue[i] \in waiters, queue[i] \in Keys,
                 phase' = [phase EXCEPT ![k] = "idle", ![queue[i]] = "holding"]
          PROVE  Pool!HandOver(k, queue[i])
      BY <1>2, <2>1, <3>1, <3>3 DEF Pool!HandOver
    <3> QED BY <1>2, <2>3, <3>2, <3>3, ReleaseCases
  <2>4. ASSUME NEW n \in Resizes, Resize(n)
        PROVE  Pool!ChangeSize
    BY <2>4, SlotAssumption DEF Resize, Pool!ChangeSize
  <2>5. ASSUME NEW k \in Keys, Abandon(k)
        PROVE  UNCHANGED <<phase, maxConcurrency>>
    BY <2>5 DEF Abandon
  <2>6. CASE UNCHANGED vars
    BY <2>6 DEF vars
  <2> QED BY <1>2, <2>2, <2>3, <2>4, <2>5, <2>6 DEF Next, Pool!PoolNext
<1> QED BY <1>1, <1>2, LimitRespected, PTL DEF Spec, ImplementsPool, Pool!PoolSpec
=============================================================================
