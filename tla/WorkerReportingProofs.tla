------------------------- MODULE WorkerReportingProofs -------------------------
(***************************************************************************)
(* Theorems about module WorkerReporting, and the lemmas on the queue of    *)
(* IPCDrainQueue that they rest on.                                         *)
(***************************************************************************)
EXTENDS WorkerReporting, SequenceTheorems, TLAPS

(* The parts of the inductive invariant *)

NoGc(s) == \A i \in 1..Len(s) : s[i] # "gc"
OneGc(s) == \A i, j \in 1..Len(s) : s[i] = "gc" /\ s[j] = "gc" => i = j

\* The process of the name was started, and an exit event comes from its end.
ChildIsBorn ==
  child # 0 => /\ procs[child].life # "unborn"
               /\ procs[child].seen => procs[child].life = "dead"

\* The processes that are still to come.
LaterIsUnborn ==
  \A p \in Proc : p > child =>
    procs[p].life = "unborn" /\ procs[p].said = "nothing" /\ ~procs[p].seen

\* The cleanup timer runs once per process and only after its exit.
CleanupAfterExit ==
  /\ OneGc(timers)
  /\ ~NoGc(timers) => child # 0 /\ procs[child].seen /\ entry.ended

\* An entry is removed after the exit of its process only.
NoEntryNoProcess ==
  entry.status = "none" => NoGc(timers) /\ (child # 0 => procs[child].seen)

\* While an exit is handled, the entry is there and its timer is not.
ExitInHand ==
  turn.doing = "exit" =>
    /\ child # 0 /\ procs[child].seen /\ NoGc(timers)
    /\ entry.ended /\ entry.status # "none"

\* An entry that is active with an endTime has lost its process.
EndedHasExited ==
  EntryActive(entry) /\ entry.ended => child # 0 /\ procs[child].life = "dead"

\* A name that was never registered has no call either.
UnknownIsIdle == agent.status = "none" => call.at = "none"

\* Who is not stopped has neither a barrier nor an exit reason.
ActiveIsFresh == AgentActive(agent) => agent.barrier = 0 /\ agent.exit = "none"

\* ActiveIsWatched, and what it needs to survive the end of a start and the
\* end of an exit.
Watched ==
  AgentActive(agent) /\ call.at \in {"none", "resolved"} =>
    \/ entry.status = "running"
    \/ entry.status = "failed" /\ (~entry.ended \/ turn.doing = "exit")

ProcessInv == ChildIsBorn /\ LaterIsUnborn /\ OneWorkerProcess
EntryInv ==
  CleanupAfterExit /\ NoEntryNoProcess /\ ExitInHand /\ EndedHasExited
AgentInv == UnknownIsIdle /\ ActiveIsFresh /\ Watched

\* Messages come from processes that were started, and so does the barrier.
FromTheStarted ==
  /\ \A i \in 1..Len(pipe) : pipe[i].from \in 1..child
  /\ \A c \in Tiers : \A i \in 1..Len(queue[c]) : queue[c][i].from \in 1..child
BarrierIsStarted ==
  agent.barrier \in 0..child /\ (agent.exit = "completed" => agent.barrier # 0)

\* Only the start and the end of a process sort into the first tier.
TiersSorted ==
  \A c \in Tiers : \A i \in 1..Len(queue[c]) : Tier(queue[c][i].kind) = c

\* While a call waits for the start of the child, that message has not been
\* consumed: it is ahead of the completion.
AwaitsStart ==
  /\ child # 0 /\ call.at = "waiting" /\ AgentActive(agent)
  /\ EntryActive(entry)
Starts(m) == m = [kind |-> "started", from |-> child]
Completes(m) == m = [kind |-> "complete", from |-> child]
StartIsUnread == \E j \in 1..Len(queue["p0"]) : Starts(queue["p0"][j])
StartAhead ==
  AwaitsStart =>
    /\ procs[child].said # "nothing" =>
         StartIsUnread \/ \E j \in 1..Len(pipe) : Starts(pipe[j])
    /\ \A i \in 1..Len(queue["p0"]) :
         Completes(queue["p0"][i]) => \E j \in 1..i : Starts(queue["p0"][j])
    /\ \A i \in 1..Len(pipe) :
         Completes(pipe[i]) => StartIsUnread \/ \E j \in 1..i : Starts(pipe[j])

\* A completion by the process of the name is behind its entry and its call.
CompletedIsOver ==
  child # 0 /\ agent.barrier = child =>
    /\ ~EntryActive(entry) /\ call.at # "waiting"
    /\ call.at = "rejected" => agent.exit # "completed"
RejectedAtRest == call.at = "rejected" => turn = NoTurn

CompletionInv ==
  /\ FromTheStarted /\ TiersSorted /\ StartAhead
  /\ BarrierIsStarted /\ CompletedIsOver /\ RejectedAtRest

\* What is in the pipe was said by the child. It says that it started, or how it
\* ended, once; an earlier process may have left its own in the queue.
PipeIsChilds == \A i \in 1..Len(pipe) : pipe[i].from = child
ChildSaid(m, kinds) == m.from = child /\ m.kind \in kinds
SaidOnce(kinds, said) ==
  /\ \A i, j \in 1..Len(queue["p0"]) :
       ChildSaid(queue["p0"][i], kinds) /\ ChildSaid(queue["p0"][j], kinds) => i = j
  /\ \A i, j \in 1..Len(pipe) :
       pipe[i].kind \in kinds /\ pipe[j].kind \in kinds => i = j
  /\ \A i \in 1..Len(pipe), j \in 1..Len(queue["p0"]) :
       ~(pipe[i].kind \in kinds /\ ChildSaid(queue["p0"][j], kinds))
  /\ child = 0 \/ procs[child].said \notin said =>
       /\ \A i \in 1..Len(queue["p0"]) : ~ChildSaid(queue["p0"][i], kinds)
       /\ \A i \in 1..Len(pipe) : pipe[i].kind \notin kinds
OneStart == SaidOnce({"started"}, {"started", "ended"})
OneEnd == SaidOnce({"complete", "failed"}, {"ended"})

\* The start or the end of the child that the first tier is still to get.
Due(kinds, said) ==
  IF /\ child # 0
     /\ procs[child].said \notin said \/ \E i \in 1..Len(pipe) : pipe[i].kind \in kinds
  THEN 1 ELSE 0
StartDue == Due({"started"}, {"started", "ended"})
EndDue == Due({"complete", "failed"}, {"ended"})

\* Two messages of each process are all that the first tier ever gets.
FirstTierIsShort == Len(queue["p0"]) + StartDue + EndDue <= 2 * child

\* The first tier waits for nothing but the round of the loop it came in.
UrgentFirst ==
  /\ queue["p0"] # << >> => sched = "soon" \/ turn.doing \in {"drain", "exit"}
  /\ turn.doing = "drain" => Len(queue["p0"]) <= turn.left
-----------------------------------------------------------------------------
(* The queue *)

LEMMA QueueLengths ==
  ASSUME NEW q \in [Tiers -> Seq(Msg)]
  PROVE  /\ \A c \in Tiers : q[c] \in Seq(Msg) /\ Len(q[c]) \in Nat
         /\ Backlog(q) \in Nat
         /\ Backlog(q) = Len(q["p0"]) + Len(q["p1"]) + Len(q["p2"]) + Len(q["p3"])
<1>1. \A c \in Tiers : q[c] \in Seq(Msg) /\ Len(q[c]) \in Nat
  BY LenProperties
<1>2. {"p0", "p1", "p2", "p3"} \subseteq Tiers
  BY DEF Tiers
<1> QED BY <1>1, <1>2 DEF Backlog

LEMMA EmptyBacklog ==
  ASSUME NEW q \in [Tiers -> Seq(Msg)], Backlog(q) = 0
  PROVE  \A c \in Tiers : q[c] = << >> /\ Len(q[c]) = 0
<1>1. PICK a \in Nat, b \in Nat, c \in Nat, d \in Nat :
        a = Len(q["p0"]) /\ b = Len(q["p1"]) /\ c = Len(q["p2"]) /\ d = Len(q["p3"])
  BY QueueLengths DEF Tiers
<1>2. a = 0 /\ b = 0 /\ c = 0 /\ d = 0
  <2>1. a + b + c + d = 0
    BY <1>1, QueueLengths
  <2> QED BY <2>1
<1>3. \A c1 \in Tiers : Len(q[c1]) = 0
  BY <1>1, <1>2 DEF Tiers
<1> QED BY <1>3, QueueLengths, EmptySeq

LEMMA TierTypes == \A m \in Msg : Tier(m.kind) \in Tiers
BY DEF Msg, Kinds, Tier, Tiers

LEMMA AfterEffect ==
  ASSUME NEW S, NEW s \in Seq(S), NEW n \in 0..Len(s)
  PROVE  /\ After(s, n) \in Seq(S) /\ Len(After(s, n)) = Len(s) - n
         /\ \A i \in 1..Len(After(s, n)) :
              i + n \in 1..Len(s) /\ After(s, n)[i] = s[i + n]
<1>1. PICK l \in Nat : l = Len(s)
  BY LenProperties
<1>2. n \in Nat /\ n <= l /\ n \in 0..l
  BY <1>1
<1>3. \A i \in (n + 1)..l : s[i] \in S
  BY <1>1, <1>2, ElementOfSeq
<1>4. /\ After(s, n) \in Seq(S)
      /\ Len(After(s, n)) = IF n + 1 <= l THEN l - (n + 1) + 1 ELSE 0
      /\ \A i \in 1..l - (n + 1) + 1 : After(s, n)[i] = s[(n + 1) + i - 1]
  BY <1>1, <1>2, <1>3, SubSeqProperties DEF After
<1>5. Len(After(s, n)) = l - n
  BY <1>2, <1>4
<1>6. ASSUME NEW i \in 1..(l - n)
      PROVE  i + n \in 1..l /\ After(s, n)[i] = s[i + n]
  <2>1. i \in 1..l - (n + 1) + 1 /\ (n + 1) + i - 1 = i + n /\ i + n \in 1..l
    BY <1>2
  <2> QED BY <1>4, <2>1
<1> QED BY <1>1, <1>4, <1>5, <1>6

\* Messages of r are messages of q, tier by tier.
Within(r, q) ==
  \A c \in Tiers : \A i \in 1..Len(r[c]) : \E j \in 1..Len(q[c]) : r[c][i] = q[c][j]

LEMMA ShedEffect ==
  ASSUME NEW q \in [Tiers -> Seq(Msg)], NEW n \in Nat
  PROVE  /\ Shed(q, n) \in [Tiers -> Seq(Msg)]
         /\ Shed(q, n)["p0"] = q["p0"]
         /\ \/ Backlog(Shed(q, n)) <= Backlog(q) - n
            \/ Backlog(Shed(q, n)) = Len(q["p0"])
         /\ Within(Shed(q, n), q)
<1> DEFINE l1 == Len(q["p1"])  l2 == Len(q["p2"])  l3 == Len(q["p3"])
           n3 == Least(n, l3)  n2 == Least(n - n3, l2)
           n1 == Least(n - n3 - n2, l1)
           r == Shed(q, n)
<1>1. /\ l1 \in Nat /\ l2 \in Nat /\ l3 \in Nat /\ Len(q["p0"]) \in Nat
      /\ \A c \in Tiers : q[c] \in Seq(Msg)
      /\ Backlog(q) = Len(q["p0"]) + l1 + l2 + l3
  BY QueueLengths DEF Tiers
<1>2. /\ r = [q EXCEPT !["p3"] = After(q["p3"], n3), !["p2"] = After(q["p2"], n2),
                       !["p1"] = After(q["p1"], n1)]
  BY DEF Shed
<1> HIDE DEF l1, l2, l3, r
<1>3. n3 \in 0..l3 /\ n2 \in 0..l2 /\ n1 \in 0..l1 /\ n3 \in Nat /\ n2 \in Nat /\ n1 \in Nat
  BY <1>1 DEF Least
<1>4. \/ n3 + n2 + n1 = n
      \/ n3 = l3 /\ n2 = l2 /\ n1 = l1
  BY <1>1 DEF Least
<1> HIDE DEF n1, n2, n3
<1>5. /\ r["p0"] = q["p0"] /\ r["p1"] = After(q["p1"], n1)
      /\ r["p2"] = After(q["p2"], n2) /\ r["p3"] = After(q["p3"], n3)
      /\ DOMAIN r = Tiers
      /\ r = [c \in Tiers |-> r[c]]
  BY <1>2 DEF Tiers
<1>6. /\ After(q["p1"], n1) \in Seq(Msg) /\ Len(After(q["p1"], n1)) = l1 - n1
      /\ \A i \in 1..Len(r["p1"]) : i + n1 \in 1..Len(q["p1"]) /\ r["p1"][i] = q["p1"][i + n1]
  BY <1>1, <1>3, <1>5, AfterEffect DEF l1, Tiers
<1>7. /\ After(q["p2"], n2) \in Seq(Msg) /\ Len(After(q["p2"], n2)) = l2 - n2
      /\ \A i \in 1..Len(r["p2"]) : i + n2 \in 1..Len(q["p2"]) /\ r["p2"][i] = q["p2"][i + n2]
  BY <1>1, <1>3, <1>5, AfterEffect DEF l2, Tiers
<1>8. /\ After(q["p3"], n3) \in Seq(Msg) /\ Len(After(q["p3"], n3)) = l3 - n3
      /\ \A i \in 1..Len(r["p3"]) : i + n3 \in 1..Len(q["p3"]) /\ r["p3"][i] = q["p3"][i + n3]
  BY <1>1, <1>3, <1>5, AfterEffect DEF l3, Tiers
<1>9. r \in [Tiers -> Seq(Msg)]
  <2>1. \A c \in Tiers : r[c] \in Seq(Msg)
    BY <1>1, <1>5, <1>6, <1>7, <1>8 DEF Tiers
  <2> QED BY <1>5, <2>1
<1>10. Backlog(r) = Len(q["p0"]) + (l1 - n1) + (l2 - n2) + (l3 - n3)
  BY <1>5, <1>6, <1>7, <1>8 DEF Backlog
<1>11. Backlog(r) <= Backlog(q) - n \/ Backlog(r) = Len(q["p0"])
  BY <1>1, <1>3, <1>4, <1>10
<1>12. Within(r, q)
  <2>1. \A i \in 1..Len(r["p0"]) : \E j \in 1..Len(q["p0"]) : r["p0"][i] = q["p0"][j]
    BY <1>5
  <2>2. \A i \in 1..Len(r["p1"]) : \E j \in 1..Len(q["p1"]) : r["p1"][i] = q["p1"][j]
    BY <1>6
  <2>3. \A i \in 1..Len(r["p2"]) : \E j \in 1..Len(q["p2"]) : r["p2"][i] = q["p2"][j]
    BY <1>7
  <2>4. \A i \in 1..Len(r["p3"]) : \E j \in 1..Len(q["p3"]) : r["p3"][i] = q["p3"][j]
    BY <1>8
  <2>5. ASSUME NEW c \in Tiers
        PROVE  \A i \in 1..Len(r[c]) : \E j \in 1..Len(q[c]) : r[c][i] = q[c][j]
    <3>1. c = "p0" \/ c = "p1" \/ c = "p2" \/ c = "p3"
      BY DEF Tiers
    <3>2. CASE c = "p0"
      BY <2>1, <3>2
    <3>3. CASE c = "p1"
      BY <2>2, <3>3
    <3>4. CASE c = "p2"
      BY <2>3, <3>4
    <3>5. CASE c = "p3"
      BY <2>4, <3>5
    <3> QED BY <3>1, <3>2, <3>3, <3>4, <3>5
  <2> QED BY <2>5 DEF Within
<1> QED BY <1>5, <1>9, <1>11, <1>12 DEF r

\* The back-pressure leaves no more than the limit, or nothing but the first
\* tier, which it never touches.
LEMMA PushEffect ==
  ASSUME NEW q \in [Tiers -> Seq(Msg)], NEW m \in Msg
  PROVE  /\ Push(q, m) \in [Tiers -> Seq(Msg)] /\ Bounded(Push(q, m))
         /\ Push(q, m)["p0"] = IF Tier(m.kind) = "p0" THEN Append(q["p0"], m)
                               ELSE q["p0"]
         /\ \A c \in Tiers : \A i \in 1..Len(Push(q, m)[c]) :
              \/ Push(q, m)[c][i] = m /\ c = Tier(m.kind)
              \/ \E j \in 1..Len(q[c]) : Push(q, m)[c][i] = q[c][j]
<1> DEFINE t == Tier(m.kind)
           full == [q EXCEPT ![t] = Append(q[t], m)]
           over == Backlog(full) - MaxQueueSize
<1>1. Push(q, m) = IF over > 0 THEN Shed(full, over) ELSE full
  BY DEF Push
<1>2. t \in Tiers /\ q[t] \in Seq(Msg) /\ "p0" \in Tiers
  BY TierTypes DEF Tiers
<1> HIDE DEF t
<1>3. /\ Append(q[t], m) \in Seq(Msg) /\ Len(Append(q[t], m)) = Len(q[t]) + 1
      /\ \A i \in 1..Len(q[t]) : Append(q[t], m)[i] = q[t][i]
      /\ Append(q[t], m)[Len(q[t]) + 1] = m
      /\ Len(q[t]) \in Nat
  BY <1>2, AppendProperties, LenProperties
<1>4. /\ full \in [Tiers -> Seq(Msg)]
      /\ full["p0"] = IF t = "p0" THEN Append(q["p0"], m) ELSE q["p0"]
  BY <1>2, <1>3
<1>5. ASSUME NEW c \in Tiers, NEW i \in 1..Len(full[c])
      PROVE  \/ full[c][i] = m /\ c = t
             \/ \E j \in 1..Len(q[c]) : full[c][i] = q[c][j]
  <2>1. CASE c = t
    <3>1. full[c] = Append(q[t], m)
      BY <1>2, <2>1
    <3>2. i \in 1..Len(q[t]) \/ i = Len(q[t]) + 1
      BY <1>3, <3>1
    <3> QED BY <1>3, <2>1, <3>1, <3>2
  <2>2. CASE c # t
    BY <2>2
  <2> QED BY <2>1, <2>2
<1>6. Backlog(full) \in Nat /\ MaxQueueSize \in Nat /\ Len(full["p0"]) \in Nat
  BY <1>2, <1>4, QueueLengths, QueueAssumption
<1> HIDE DEF full
<1>7. CASE over > 0
  <2>1. over \in Nat /\ Push(q, m) = Shed(full, over)
    BY <1>1, <1>6, <1>7
  <2>2. /\ Push(q, m) \in [Tiers -> Seq(Msg)] /\ Push(q, m)["p0"] = full["p0"]
        /\ \/ Backlog(Push(q, m)) <= Backlog(full) - over
           \/ Backlog(Push(q, m)) = Len(full["p0"])
        /\ Within(Push(q, m), full)
    BY <1>4, <2>1, ShedEffect
  <2>3. Bounded(Push(q, m))
    <3>1. Backlog(full) - over = MaxQueueSize
      BY <1>6
    <3> QED BY <2>2, <3>1 DEF Bounded
  <2> QED BY <1>4, <1>5, <2>2, <2>3 DEF Within, t
<1>8. CASE ~(over > 0)
  <2>1. Push(q, m) = full /\ Bounded(full)
    BY <1>1, <1>6, <1>8 DEF Bounded
  <2> QED BY <1>4, <1>5, <2>1 DEF t
<1> QED BY <1>7, <1>8

\* One message is taken, from the first tier as long as it holds one.
LEMMA ShiftEffect ==
  ASSUME NEW q \in [Tiers -> Seq(Msg)], Backlog(q) > 0
  PROVE  /\ First(q) \in Tiers /\ q[First(q)] # << >> /\ Next1(q) \in Msg
         /\ 1 \in 1..Len(q[First(q)]) /\ Next1(q) = q[First(q)][1]
         /\ Shifted(q) \in [Tiers -> Seq(Msg)] /\ Within(Shifted(q), q)
         /\ Bounded(q) => Bounded(Shifted(q))
         /\ q["p0"] # << >> =>
              /\ First(q) = "p0" /\ Len(Shifted(q)["p0"]) = Len(q["p0"]) - 1
              /\ \A i \in 1..Len(Shifted(q)["p0"]) :
                   i + 1 \in 1..Len(q["p0"]) /\ Shifted(q)["p0"][i] = q["p0"][i + 1]
         /\ q["p0"] = << >> => First(q) # "p0" /\ Shifted(q)["p0"] = << >>
<1> DEFINE t == First(q)  r == Shifted(q)
<1>1. /\ \A c \in Tiers : q[c] \in Seq(Msg) /\ Len(q[c]) \in Nat
      /\ Backlog(q) = Len(q["p0"]) + Len(q["p1"]) + Len(q["p2"]) + Len(q["p3"])
      /\ Backlog(q) \in Nat
  BY QueueLengths
<1>2. \A c \in Tiers : q[c] = << >> => Len(q[c]) = 0
  BY EmptySeq
<1>3. t \in Tiers /\ q[t] # << >>
  <2>1. ~(q["p0"] = << >> /\ q["p1"] = << >> /\ q["p2"] = << >> /\ q["p3"] = << >>)
    BY <1>1, <1>2 DEF Tiers
  <2> QED BY <2>1 DEF First, Tiers
<1>4. (q["p0"] # << >> => t = "p0") /\ (q["p0"] = << >> => t # "p0")
  BY DEF First
<1>5. /\ r = [q EXCEPT ![t] = Tail(q[t])] /\ Next1(q) = Head(q[t])
  BY DEF Shifted, Next1
<1> HIDE DEF t, r
<1>6. /\ Head(q[t]) \in Msg /\ Tail(q[t]) \in Seq(Msg)
      /\ Len(Tail(q[t])) = Len(q[t]) - 1
      /\ \A i \in 1..Len(Tail(q[t])) : Tail(q[t])[i] = q[t][i + 1]
      /\ Len(q[t]) \in Nat \ {0} /\ Head(q[t]) = q[t][1]
  BY <1>1, <1>3, HeadTailProperties, EmptySeq
<1>7. /\ r \in [Tiers -> Seq(Msg)] /\ r[t] = Tail(q[t])
      /\ \A c \in Tiers \ {t} : r[c] = q[c]
  BY <1>3, <1>5, <1>6
<1>8. \A i \in 1..Len(r[t]) : i + 1 \in 1..Len(q[t]) /\ r[t][i] = q[t][i + 1]
  BY <1>6, <1>7
<1>9. Within(r, q)
  <2> SUFFICES ASSUME NEW c \in Tiers, NEW i \in 1..Len(r[c])
               PROVE  \E j \in 1..Len(q[c]) : r[c][i] = q[c][j]
    BY DEF Within
  <2>1. CASE c = t
    BY <1>8, <2>1
  <2>2. CASE c # t
    BY <1>7, <2>2
  <2> QED BY <2>1, <2>2
<1>10. Backlog(r) = Backlog(q) - 1
  <2>1. /\ Len(r[t]) = Len(q[t]) - 1 /\ \A c \in Tiers \ {t} : Len(r[c]) = Len(q[c])
    BY <1>6, <1>7
  <2>2. Backlog(r) = Len(r["p0"]) + Len(r["p1"]) + Len(r["p2"]) + Len(r["p3"])
    BY DEF Backlog
  <2>3. PICK a \in Nat, b \in Nat, c \in Nat, d \in Nat :
          a = Len(q["p0"]) /\ b = Len(q["p1"]) /\ c = Len(q["p2"]) /\ d = Len(q["p3"])
    BY <1>1 DEF Tiers
  <2>4. t = "p0" \/ t = "p1" \/ t = "p2" \/ t = "p3"
    BY <1>3 DEF Tiers
  <2>5. \/ Backlog(r) = (a - 1) + b + c + d \/ Backlog(r) = a + (b - 1) + c + d
        \/ Backlog(r) = a + b + (c - 1) + d \/ Backlog(r) = a + b + c + (d - 1)
    BY <2>1, <2>2, <2>3, <2>4 DEF Tiers
  <2>6. Backlog(q) = a + b + c + d
    BY <1>1, <2>3
  <2> QED BY <2>5, <2>6
<1>11. Bounded(q) => Bounded(r)
  <2> SUFFICES ASSUME Bounded(q) PROVE Bounded(r)
    OBVIOUS
  <2>1. CASE Backlog(q) <= MaxQueueSize
    <3>1. PICK n \in Nat : n = Backlog(q)
      BY <1>1
    <3>2. n <= MaxQueueSize /\ MaxQueueSize \in Nat /\ Backlog(r) = n - 1
      BY <1>10, <2>1, <3>1, QueueAssumption
    <3> QED BY <3>2 DEF Bounded
  <2>2. CASE Backlog(q) = Len(q["p0"])
    <3>1. q["p0"] # << >> /\ t = "p0"
      BY <1>1, <1>2, <1>4, <2>2 DEF Tiers
    <3> QED BY <1>1, <1>6, <1>7, <1>10, <2>2, <3>1 DEF Bounded
  <2> QED BY <2>1, <2>2 DEF Bounded
<1> QED BY <1>3, <1>4, <1>5, <1>6, <1>7, <1>8, <1>9, <1>11 DEF t, r, Tiers

-----------------------------------------------------------------------------
(* The timers *)

\* t has no cleanup timer that s did not have.
KeptTimers(s, t) ==
  /\ t \in Seq(Timers)
  /\ NoGc(s) => NoGc(t)
  /\ OneGc(s) => OneGc(t)

LEMMA WithoutEffect ==
  ASSUME NEW s \in Seq(Timers), NEW x
  PROVE  KeptTimers(s, Without(s, x))
<1> DEFINE at == {i \in 1..Len(s) : s[i] = x}
<1>1. CASE at = {}
  <2>1. Without(s, x) = s
    BY <1>1 DEF Without
  <2> QED BY <2>1 DEF KeptTimers
<1>2. CASE at # {}
  <2> DEFINE i == CHOOSE i \in at : TRUE
             a == SubSeq(s, 1, i - 1)
             b == SubSeq(s, i + 1, Len(s))
  <2>1. Without(s, x) = a \o b
    BY <1>2 DEF Without
  <2>2. i \in 1..Len(s)
    BY <1>2
  <2> HIDE DEF i
  <2>3. PICK l \in Nat : l = Len(s)
    BY LenProperties
  <2>4. i \in 1..l /\ \A j \in 1..l : s[j] \in Timers
    BY <2>2, <2>3, ElementOfSeq
  <2>5. /\ a \in Seq(Timers) /\ Len(a) = i - 1
        /\ \A j \in 1..i - 1 : a[j] = s[j]
    <3>1. /\ a \in Seq(Timers)
          /\ Len(a) = IF 1 <= i - 1 THEN (i - 1) - 1 + 1 ELSE 0
          /\ \A j \in 1..(i - 1) - 1 + 1 : a[j] = s[1 + j - 1]
      <4>1. \A j \in 1..i - 1 : s[j] \in Timers
        BY <2>4
      <4> QED BY <2>4, <4>1, SubSeqProperties
    <3>2. (i - 1) - 1 + 1 = i - 1 /\ \A j \in 1..i - 1 : 1 + j - 1 = j
      BY <2>4
    <3> QED BY <2>4, <3>1, <3>2
  <2>6. /\ b \in Seq(Timers) /\ Len(b) = l - i
        /\ \A j \in 1..l - i : b[j] = s[i + j]
    BY <2>3, <2>4, AfterEffect DEF After
  <2> HIDE DEF a, b
  <2>7. /\ a \o b \in Seq(Timers) /\ Len(a \o b) = (i - 1) + (l - i)
        /\ \A j \in 1..(i - 1) + (l - i) :
             (a \o b)[j] = IF j <= i - 1 THEN a[j] ELSE b[j - (i - 1)]
    <3>1. /\ a \o b \in Seq(Timers) /\ Len(a \o b) = Len(a) + Len(b)
          /\ \A j \in 1..Len(a) + Len(b) :
               (a \o b)[j] = IF j <= Len(a) THEN a[j] ELSE b[j - Len(a)]
      BY <2>5, <2>6, ConcatProperties
    <3> QED BY <2>5, <2>6, <3>1
  <2>8. (i - 1) + (l - i) = l - 1
    BY <2>4
  <2>9. \A j \in 1..l - 1 :
          /\ j < i => j \in 1..l /\ (a \o b)[j] = s[j]
          /\ ~(j < i) => j + 1 \in 1..l /\ (a \o b)[j] = s[j + 1]
    <3> SUFFICES ASSUME NEW j \in 1..l - 1
                 PROVE  /\ j < i => j \in 1..l /\ (a \o b)[j] = s[j]
                        /\ ~(j < i) => j + 1 \in 1..l /\ (a \o b)[j] = s[j + 1]
      OBVIOUS
    <3>1. CASE j < i
      <4>1. j <= i - 1 /\ j \in 1..i - 1 /\ j \in 1..l
        BY <2>4, <3>1
      <4> QED BY <2>5, <2>7, <2>8, <3>1, <4>1
    <3>2. CASE ~(j < i)
      <4>1. /\ ~(j <= i - 1) /\ j - (i - 1) \in 1..l - i /\ j + 1 \in 1..l
            /\ i + (j - (i - 1)) = j + 1
        BY <2>4, <3>2
      <4> QED BY <2>6, <2>7, <2>8, <3>2, <4>1
    <3> QED BY <3>1, <3>2
  <2>10. NoGc(s) => NoGc(a \o b)
    BY <2>3, <2>7, <2>8, <2>9 DEF NoGc
  <2>11. OneGc(s) => OneGc(a \o b)
    <3> SUFFICES ASSUME OneGc(s), NEW j \in 1..l - 1, NEW k \in 1..l - 1,
                        (a \o b)[j] = "gc", (a \o b)[k] = "gc"
                 PROVE  j = k
      BY <2>7, <2>8 DEF OneGc
    <3>1. \A m, n \in 1..l : s[m] = "gc" /\ s[n] = "gc" => m = n
      BY <2>3 DEF OneGc
    <3>2. CASE j < i /\ k < i
      BY <2>9, <3>1, <3>2
    <3>3. CASE j < i /\ ~(k < i)
      <4>1. j = k + 1
        BY <2>9, <3>1, <3>3
      <4> QED BY <2>4, <3>3, <4>1
    <3>4. CASE ~(j < i) /\ k < i
      <4>1. j + 1 = k
        BY <2>9, <3>1, <3>4
      <4> QED BY <2>4, <3>4, <4>1
    <3>5. CASE ~(j < i) /\ ~(k < i)
      <4>1. j + 1 = k + 1
        BY <2>9, <3>1, <3>5
      <4> QED BY <4>1
    <3> QED BY <3>2, <3>3, <3>4, <3>5
  <2> QED BY <2>1, <2>7, <2>10, <2>11 DEF KeptTimers
<1> QED BY <1>1, <1>2

LEMMA AppendTimer ==
  ASSUME NEW s \in Seq(Timers)
  PROVE  /\ KeptTimers(s, Append(s, "kill"))
         /\ Append(s, "gc") \in Seq(Timers)
         /\ NoGc(s) => OneGc(Append(s, "gc"))
<1>1. PICK l \in Nat : l = Len(s)
  BY LenProperties
<1>2. ASSUME NEW x \in Timers
      PROVE  /\ Append(s, x) \in Seq(Timers) /\ Len(Append(s, x)) = l + 1
             /\ \A i \in 1..l : Append(s, x)[i] = s[i]
             /\ Append(s, x)[l + 1] = x
             /\ \A i \in 1..l + 1 : i \in 1..l \/ i = l + 1
  BY <1>1, AppendProperties
<1>3. "kill" \in Timers /\ "gc" \in Timers
  BY DEF Timers
<1>4. NoGc(s) => NoGc(Append(s, "kill"))
  BY <1>1, <1>2, <1>3 DEF NoGc
<1>5. OneGc(s) => OneGc(Append(s, "kill"))
  BY <1>1, <1>2, <1>3 DEF OneGc
<1>6. NoGc(s) => OneGc(Append(s, "gc"))
  BY <1>1, <1>2, <1>3 DEF NoGc, OneGc
<1> QED BY <1>2, <1>3, <1>4, <1>5, <1>6 DEF KeptTimers

LEMMA TailTimers ==
  ASSUME NEW s \in Seq(Timers), s # << >>
  PROVE  /\ KeptTimers(s, Tail(s)) /\ (NoGc(s) => Head(s) = "kill")
         /\ OneGc(s) /\ Head(s) = "gc" => NoGc(Tail(s))
<1>1. PICK l \in Nat \ {0} : l = Len(s)
  BY EmptySeq
<1>2. /\ Tail(s) \in Seq(Timers) /\ Len(Tail(s)) = l - 1
      /\ \A i \in 1..l - 1 : Tail(s)[i] = s[i + 1]
  BY <1>1, HeadTailProperties
<1>3. /\ \A i \in 1..l - 1 : i + 1 \in 1..l /\ i + 1 # 1
      /\ \A i, j \in 1..l - 1 : i + 1 = j + 1 => i = j
      /\ 1 \in 1..l
  BY <1>1
<1>4. Head(s) = s[1] /\ Head(s) \in Timers
  BY HeadTailProperties
<1>5. NoGc(s) => NoGc(Tail(s))
  BY <1>1, <1>2, <1>3 DEF NoGc
<1>6. OneGc(s) => OneGc(Tail(s))
  BY <1>1, <1>2, <1>3 DEF OneGc
<1>7. OneGc(s) /\ Head(s) = "gc" => NoGc(Tail(s))
  BY <1>1, <1>2, <1>3, <1>4 DEF NoGc, OneGc
<1>8. NoGc(s) => Head(s) = "kill"
  BY <1>1, <1>3, <1>4 DEF NoGc, Timers
<1> QED BY <1>2, <1>5, <1>6, <1>7, <1>8 DEF KeptTimers

-----------------------------------------------------------------------------
(* The handlers *)

World == [procs : [Proc -> Process], entry : Entry, timers : Seq(Timers),
          agent : Agent, call : Call]

\* Signals apart, the processes are as before; no SIGKILL is taken back.
Quiet(P, Q) ==
  \A p \in Proc :
    /\ Q[p].life = P[p].life /\ Q[p].said = P[p].said
    /\ Q[p].code = P[p].code /\ Q[p].seen = P[p].seen
    /\ P[p].told = "kill" => Q[p].told = "kill"

\* v comes after w in a handler.
Follows(w, v) ==
  v \in World /\ Quiet(w.procs, v.procs) /\ KeptTimers(w.timers, v.timers)

LEMMA FollowsReflexive == \A w \in World : Follows(w, w)
BY DEF Follows, World, Quiet, KeptTimers

LEMMA FollowsTransitive ==
  \A u, v, w : Follows(u, v) /\ Follows(v, w) => Follows(u, w)
BY DEF Follows, Quiet, KeptTimers

LEMMA SignalledEffect ==
  ASSUME NEW P \in [Proc -> Process], NEW sig \in {"term", "kill"},
         child \in 0..MaxProcs
  PROVE  /\ Signalled(P, sig) \in [Proc -> Process]
         /\ Quiet(P, Signalled(P, sig))
         /\ child # 0 /\ P[child].life = "up" /\ sig = "kill" =>
              Signalled(P, sig)[child].told = "kill"
<1>1. CASE child # 0 /\ P[child].life = "up" /\ P[child].told # "kill"
  <2>1. child \in Proc
    BY <1>1, WorkerAssumption DEF Proc
  <2>2. Signalled(P, sig) = [P EXCEPT ![child].told = sig]
    BY <1>1 DEF Signalled
  <2>3. Signalled(P, sig) \in [Proc -> Process]
    BY <2>1, <2>2 DEF Process
  <2>4. /\ \A p \in Proc \ {child} : Signalled(P, sig)[p] = P[p]
        /\ Signalled(P, sig)[child] = [P[child] EXCEPT !.told = sig]
    BY <2>1, <2>2
  <2>5. P[child] \in Process
    BY <2>1
  <2> QED BY <1>1, <2>1, <2>3, <2>4, <2>5 DEF Quiet, Process
<1>2. CASE ~(child # 0 /\ P[child].life = "up" /\ P[child].told # "kill")
  <2>1. Signalled(P, sig) = P
    BY <1>2 DEF Signalled
  <2> QED BY <1>2, <2>1 DEF Quiet
<1> QED BY <1>1, <1>2

LEMMA KillEffect ==
  ASSUME NEW w \in World, child \in 0..MaxProcs
  PROVE  /\ Follows(w, Kill(w)) /\ Kill(w).entry = w.entry
         /\ Kill(w).agent = w.agent /\ Kill(w).call = w.call
<1>1. CASE w.entry.status = "none"
  BY <1>1, FollowsReflexive DEF Kill
<1>2. CASE w.entry.status # "none"
  <2> DEFINE P == Signalled(w.procs, "term")
             s == Append(Without(w.timers, "kill"), "kill")
  <2>1. w.procs \in [Proc -> Process] /\ w.timers \in Seq(Timers)
    BY DEF World
  <2>2. P \in [Proc -> Process] /\ Quiet(w.procs, P)
    BY <2>1, SignalledEffect
  <2>3. KeptTimers(w.timers, s)
    <3>1. KeptTimers(w.timers, Without(w.timers, "kill"))
      BY <2>1, WithoutEffect
    <3>2. KeptTimers(Without(w.timers, "kill"), s)
      BY <3>1, AppendTimer DEF KeptTimers
    <3> QED BY <3>1, <3>2 DEF KeptTimers
  <2>4. Kill(w) = [w EXCEPT !.procs = P, !.timers = s]
    BY <1>2 DEF Kill
  <2> HIDE DEF P, s
  <2>5. Kill(w) \in World
    BY <2>2, <2>3, <2>4 DEF World, KeptTimers
  <2> QED BY <2>2, <2>3, <2>4, <2>5 DEF World, Follows
<1> QED BY <1>1, <1>2

Exits == {"completed", "failed", "recovering", "terminated"}

LEMMA StopEffect ==
  ASSUME NEW w \in World, NEW reason \in Exits
  PROVE  /\ Follows(w, Stop(w, reason)) /\ Stop(w, reason).entry = w.entry
         /\ Stop(w, reason).call = w.call
         /\ Stop(w, reason).agent.status = "stopped"
         /\ Stop(w, reason).agent.exit = reason
         /\ Stop(w, reason).agent.barrier = w.agent.barrier
<1> DEFINE b == FALSE
           a == [status |-> "stopped", exit |-> reason,
                 barrier |-> w.agent.barrier, attached |-> b]
<1>1. Stop(w, reason) = [w EXCEPT !.agent.status = "stopped",
                                  !.agent.exit = reason, !.agent.attached = b]
  BY DEF Stop
<1>2. b \in BOOLEAN
  OBVIOUS
<1> HIDE DEF b
<1>3. a \in Agent /\ w.agent \in Agent
  BY <1>2 DEF World, Agent, Exits
<1>4. Stop(w, reason) = [w EXCEPT !.agent = a]
  BY <1>1, <1>3 DEF World, Agent
<1> HIDE DEF a
<1>5. Stop(w, reason) \in World /\ Stop(w, reason).agent = a
  BY <1>3, <1>4 DEF World
<1>6. Follows(w, Stop(w, reason))
  BY <1>4, <1>5 DEF Follows, World, Quiet, KeptTimers
<1> QED BY <1>4, <1>5, <1>6 DEF World, a

LEMMA AgentFailedEffect ==
  ASSUME NEW w \in World, child \in 0..MaxProcs
  PROVE  LET v == MarkAgentFailed(w)
         IN  /\ Follows(w, v) /\ v.entry = w.entry /\ v.call = w.call
             /\ v.agent.status = "stopped" /\ v.agent.exit = "failed"
             /\ v.agent.barrier = w.agent.barrier
<1>1. Follows(w, Kill(w)) /\ Kill(w) \in World /\ "failed" \in Exits
  BY KillEffect DEF Follows, Exits
<1> QED BY <1>1, KillEffect, StopEffect, FollowsTransitive DEF MarkAgentFailed

LEMMA AgentRecoveringEffect ==
  ASSUME NEW w \in World
  PROVE  LET v == MarkAgentRecovering(w)
         IN  /\ Follows(w, v) /\ v.entry = w.entry /\ v.call = w.call
             /\ v.agent.status = "stopped" /\ v.agent.exit = "recovering"
             /\ v.agent.barrier = w.agent.barrier
<1> DEFINE b == w.agent.attached /\ AutoRetry
           a == [status |-> "stopped", exit |-> "recovering",
                 barrier |-> w.agent.barrier, attached |-> b]
<1>1. b \in BOOLEAN
  BY WorkerAssumption DEF World, Agent
<1>2. MarkAgentRecovering(w) =
        [w EXCEPT !.agent.status = "stopped", !.agent.exit = "recovering",
                  !.agent.attached = b]
  BY DEF MarkAgentRecovering
<1> HIDE DEF b
<1>3. a \in Agent /\ w.agent \in Agent
  BY <1>1 DEF World, Agent
<1>4. MarkAgentRecovering(w) = [w EXCEPT !.agent = a]
  BY <1>2, <1>3 DEF World, Agent
<1> HIDE DEF a
<1>5. MarkAgentRecovering(w) \in World /\ MarkAgentRecovering(w).agent = a
  BY <1>3, <1>4 DEF World
<1>6. Follows(w, MarkAgentRecovering(w))
  BY <1>4, <1>5 DEF Follows, World, Quiet, KeptTimers
<1> QED BY <1>4, <1>5, <1>6 DEF World, a

CallStates == {"none", "await_exit", "loading", "preparing", "waiting",
               "resolved", "rejected"}

LEMMA SettleEffect ==
  ASSUME NEW w \in World, NEW from, NEW to \in CallStates
  PROVE  LET v == Settle(w, from, to)
         IN  /\ Follows(w, v) /\ v.entry = w.entry /\ v.agent = w.agent
             /\ v.call.at = IF w.call.at = from THEN to ELSE w.call.at
<1>1. CASE w.call.at # from
  BY <1>1, FollowsReflexive DEF Settle
<1>2. CASE w.call.at = from
  <2> DEFINE c == [w.call EXCEPT !.at = to]
  <2>1. c \in Call /\ c.at = to
    BY DEF World, Call, CallStates
  <2>2. Settle(w, from, to) = [w EXCEPT !.call = c]
    BY <1>2 DEF Settle, World
  <2> HIDE DEF c
  <2>3. Settle(w, from, to) \in World
    BY <2>1, <2>2 DEF World
  <2> QED BY <1>2, <2>1, <2>2, <2>3 DEF World, Follows, Quiet, KeptTimers
<1> QED BY <1>1, <1>2

\* A new entry in the world of a handler.
LEMMA EntryEffect ==
  ASSUME NEW w \in World, NEW e \in Entry
  PROVE  LET v == [w EXCEPT !.entry = e]
         IN  /\ Follows(w, v) /\ v.entry = e /\ v.agent = w.agent
             /\ v.call = w.call
BY DEF World, Follows, Quiet, KeptTimers

LEMMA OnStartedEffect ==
  ASSUME NEW w \in World
  PROVE  LET v == OnStarted(w)
         IN  /\ Follows(w, v) /\ v.entry = w.entry
             /\ ~AgentActive(w.agent) => v = w
             /\ AgentActive(w.agent) =>
                  /\ v.agent.status = "running" /\ v.agent.exit = w.agent.exit
                  /\ v.agent.barrier = w.agent.barrier
                  /\ v.call.at = IF w.call.at = "waiting" THEN "resolved"
                                 ELSE w.call.at
<1>1. CASE ~AgentActive(w.agent)
  BY <1>1, FollowsReflexive DEF OnStarted
<1>2. CASE AgentActive(w.agent)
  <2> DEFINE a == [w.agent EXCEPT !.status = "running"]
             u == [w EXCEPT !.agent = a]
  <2>1. /\ a \in Agent /\ a.status = "running" /\ a.exit = w.agent.exit
        /\ a.barrier = w.agent.barrier
    BY DEF World, Agent
  <2>2. OnStarted(w) = Settle(u, "waiting", "resolved")
    BY <1>2 DEF OnStarted, World
  <2> HIDE DEF a
  <2>3. u \in World /\ Follows(w, u) /\ u.entry = w.entry /\ u.agent = a
        /\ u.call = w.call
    BY <2>1 DEF World, Follows, Quiet, KeptTimers
  <2> HIDE DEF u
  <2>4. "resolved" \in CallStates
    BY DEF CallStates
  <2>5. LET v == Settle(u, "waiting", "resolved")
        IN  /\ Follows(u, v) /\ v.entry = u.entry /\ v.agent = u.agent
            /\ v.call.at = IF u.call.at = "waiting" THEN "resolved" ELSE u.call.at
    BY <2>3, <2>4, SettleEffect
  <2> QED BY <1>2, <2>1, <2>2, <2>3, <2>5, FollowsTransitive
<1> QED BY <1>1, <1>2

LEMMA OnCompleteEffect ==
  ASSUME NEW w \in World, NEW p \in Proc, NEW parses \in BOOLEAN,
         child \in 0..MaxProcs
  PROVE  LET v == OnComplete(w, p, parses)
         IN  /\ Follows(w, v) /\ v.entry = w.entry /\ v.call = w.call
             /\ ~AgentActive(w.agent) => v = w
             /\ AgentActive(w.agent) =>
                  /\ v.agent.status = "stopped" /\ v.agent.barrier = p
                  /\ v.agent.exit \in {"completed", "failed"}
<1>1. CASE ~AgentActive(w.agent)
  BY <1>1, FollowsReflexive DEF OnComplete
<1>2. CASE AgentActive(w.agent)
  <2> DEFINE a == [w.agent EXCEPT !.barrier = p]
             b == [w EXCEPT !.agent = a]
  <2>1. a \in Agent /\ a.barrier = p
    BY WorkerAssumption DEF World, Agent, Proc
  <2>2. OnComplete(w, p, parses) =
          IF parses THEN Stop(b, "completed") ELSE MarkAgentFailed(b)
    BY <1>2 DEF OnComplete, World
  <2> HIDE DEF a
  <2>3. /\ b \in World /\ Follows(w, b) /\ b.entry = w.entry
        /\ b.agent.barrier = p /\ b.call = w.call
    BY <2>1 DEF World, Follows, Quiet, KeptTimers
  <2> HIDE DEF b
  <2>4. /\ Follows(b, Stop(b, "completed")) /\ Stop(b, "completed").entry = b.entry
        /\ Stop(b, "completed").call = b.call
        /\ Stop(b, "completed").agent.status = "stopped"
        /\ Stop(b, "completed").agent.exit = "completed"
        /\ Stop(b, "completed").agent.barrier = p
    BY <2>3, StopEffect DEF Exits
  <2>5. LET v == MarkAgentFailed(b)
        IN  /\ Follows(b, v) /\ v.entry = b.entry /\ v.call = b.call
            /\ v.agent.status = "stopped" /\ v.agent.exit = "failed"
            /\ v.agent.barrier = p
    BY <2>3, AgentFailedEffect
  <2>6. CASE parses
    BY <1>2, <2>2, <2>3, <2>4, <2>6, FollowsTransitive
  <2>7. CASE ~parses
    BY <1>2, <2>2, <2>3, <2>5, <2>7, FollowsTransitive
  <2> QED BY <2>6, <2>7
<1> QED BY <1>1, <1>2

LEMMA OnFailedEffect ==
  ASSUME NEW w \in World, NEW recoverable \in BOOLEAN, child \in 0..MaxProcs
  PROVE  LET v == OnFailed(w, recoverable)
         IN  /\ Follows(w, v) /\ v.entry = w.entry /\ v.call = w.call
             /\ v.agent.barrier = w.agent.barrier
             /\ ~AgentActive(w.agent) => v = w
             /\ AgentActive(w.agent) =>
                  /\ v.agent.status = "stopped"
                  /\ v.agent.exit \in {"failed", "recovering"}
<1>1. CASE ~AgentActive(w.agent)
  BY <1>1, FollowsReflexive DEF OnFailed
<1>2. CASE AgentActive(w.agent) /\ recoverable
  BY <1>2, AgentRecoveringEffect DEF OnFailed
<1>3. CASE AgentActive(w.agent) /\ ~recoverable
  BY <1>3, AgentFailedEffect DEF OnFailed
<1> QED BY <1>1, <1>2, <1>3

\* An exit stops an active agent, unless its process completed or its entry is
\* still active or completed.
LEMMA ExitOfAgentEffect ==
  ASSUME NEW w \in World, child \in 0..MaxProcs
  PROVE  LET v == ExitOfAgent(w)
         IN  /\ Follows(w, v) /\ v.entry = w.entry /\ v.call = w.call
             /\ v.agent.barrier = w.agent.barrier
             /\ ~AgentActive(w.agent) \/ Completed(w) => v = w
             /\ \/ v.agent = w.agent
                \/ /\ v.agent.status = "stopped"
                   /\ v.agent.exit \in {"failed", "recovering"}
             /\ /\ w.agent.barrier = 0 /\ w.agent.exit = "none"
                /\ w.entry.status \in {"crashed", "timeout", "terminated", "failed"}
                => ~AgentActive(v.agent)
<1>1. CASE Completed(w) \/ ~AgentActive(w.agent) \/ ~EntryTerminal(w.entry)
  <2>1. ExitOfAgent(w) = w
    BY <1>1 DEF ExitOfAgent
  <2> QED BY <1>1, <2>1, FollowsReflexive DEF Completed, EntryTerminal
<1>2. CASE ~(Completed(w) \/ ~AgentActive(w.agent) \/ ~EntryTerminal(w.entry))
  <2>1. CASE w.entry.status \in {"crashed", "timeout", "terminated"}
    <3>1. ExitOfAgent(w) = MarkAgentRecovering(w)
      BY <1>2, <2>1 DEF ExitOfAgent
    <3> QED BY <1>2, <3>1, AgentRecoveringEffect DEF AgentActive
  <2>2. CASE w.entry.status = "failed"
    <3>1. ExitOfAgent(w) = MarkAgentFailed(w)
      BY <1>2, <2>2 DEF ExitOfAgent
    <3> QED BY <1>2, <3>1, AgentFailedEffect DEF AgentActive
  <2>3. CASE w.entry.status \notin {"crashed", "timeout", "terminated", "failed"}
    <3>1. ExitOfAgent(w) = w
      BY <1>2, <2>3 DEF ExitOfAgent
    <3> QED BY <1>2, <2>3, <3>1, FollowsReflexive
  <2> QED BY <2>1, <2>2, <2>3
<1> QED BY <1>1, <1>2

LEMMA OnExitEffect ==
  ASSUME NEW w \in World, child \in 0..MaxProcs
  PROVE  LET v == OnExit(w)
         IN  /\ Follows(w, v) /\ v.entry = w.entry
             /\ v.agent = ExitOfAgent(w).agent
             /\ v.call.at = CASE w.call.at = "waiting" -> "rejected"
                              [] w.call.at = "await_exit" -> "loading"
                              [] OTHER -> w.call.at
<1> DEFINE u == ExitOfAgent(w)
           s == Settle(u, "waiting", "rejected")
           v == Settle(s, "await_exit", "loading")
<1>1. OnExit(w) = v
  BY DEF OnExit
<1>2. /\ "rejected" \in CallStates /\ "loading" \in CallStates
  BY DEF CallStates
<1>3. Follows(w, u) /\ u \in World /\ u.entry = w.entry /\ u.call = w.call
  BY ExitOfAgentEffect DEF Follows
<1> HIDE DEF u
<1>4. /\ Follows(u, s) /\ s \in World /\ s.entry = u.entry /\ s.agent = u.agent
      /\ s.call.at = IF u.call.at = "waiting" THEN "rejected" ELSE u.call.at
  BY <1>2, <1>3, SettleEffect DEF Follows
<1> HIDE DEF s
<1>5. /\ Follows(s, v) /\ v.entry = s.entry /\ v.agent = s.agent
      /\ v.call.at = IF s.call.at = "await_exit" THEN "loading" ELSE s.call.at
  BY <1>2, <1>4, SettleEffect
<1> HIDE DEF v
<1>6. Follows(w, v)
  BY <1>3, <1>4, <1>5, FollowsTransitive
<1> QED BY <1>1, <1>3, <1>4, <1>5, <1>6 DEF u

LEMMA TimeoutEffect ==
  ASSUME NEW w \in World, child \in 0..MaxProcs
  PROVE  LET v == MarkWorkerTimeout(w)
         IN  /\ Follows(w, v) /\ v.call = w.call
             /\ v.agent.barrier = w.agent.barrier
             /\ ~EntryActive(w.entry) => v = w
             /\ EntryActive(w.entry) =>
                  /\ v.entry = [status |-> "timeout", ended |-> TRUE]
                  /\ Completed(w) => v.agent = w.agent
                  /\ ~Completed(w) => /\ v.agent.status = "stopped"
                                      /\ v.agent.exit = "recovering"
<1>1. CASE ~EntryActive(w.entry)
  BY <1>1, FollowsReflexive DEF MarkWorkerTimeout
<1>2. CASE EntryActive(w.entry)
  <2> DEFINE e == [status |-> "timeout", ended |-> TRUE]
             u == [w EXCEPT !.entry = e]
  <2>1. e \in Entry
    BY DEF Entry, EntryStates
  <2>2. MarkWorkerTimeout(w) = OnTimeout(u)
    BY <1>2 DEF MarkWorkerTimeout
  <2> HIDE DEF e
  <2>3. /\ u \in World /\ Follows(w, u) /\ u.entry = e /\ u.agent = w.agent
        /\ u.call = w.call
    BY <2>1, EntryEffect DEF Follows
  <2> HIDE DEF u
  <2>4. Completed(u) <=> Completed(w)
    BY <2>3 DEF Completed
  <2>5. CASE Completed(u)
    BY <1>2, <2>2, <2>3, <2>4, <2>5 DEF OnTimeout, e
  <2>6. CASE ~Completed(u)
    BY <1>2, <2>2, <2>3, <2>4, <2>6, AgentRecoveringEffect, FollowsTransitive
       DEF OnTimeout, e
  <2> QED BY <2>5, <2>6
<1> QED BY <1>1, <1>2

\* What one message of the queue can do.
LEMMA MessageEffect ==
  ASSUME NEW w \in World, NEW m \in Msg, NEW fine \in BOOLEAN,
         child \in 0..MaxProcs
  PROVE  LET v == HandleWorkerMessage(w, m, fine)
         IN  /\ Follows(w, v)
             /\ \/ v = w /\ (~EntryActive(w.entry) \/ Tier(m.kind) # "p0")
                \/ /\ EntryActive(w.entry) /\ m.kind = "started"
                   /\ v.entry = [status |-> "running", ended |-> w.entry.ended]
                   /\ ~AgentActive(w.agent) =>
                        v.agent = w.agent /\ v.call = w.call
                   /\ AgentActive(w.agent) =>
                        /\ v.agent.status = "running"
                        /\ v.agent.exit = w.agent.exit
                        /\ v.agent.barrier = w.agent.barrier
                        /\ v.call.at = IF w.call.at = "waiting" THEN "resolved"
                                       ELSE w.call.at
                \/ /\ EntryActive(w.entry) /\ m.kind = "complete"
                   /\ v.entry = [status |-> "completed", ended |-> TRUE]
                   /\ v.call = w.call
                   /\ ~AgentActive(w.agent) => v.agent = w.agent
                   /\ AgentActive(w.agent) =>
                        /\ v.agent.status = "stopped"
                        /\ v.agent.barrier = m.from
                        /\ v.agent.exit \in {"completed", "failed"}
                \/ /\ EntryActive(w.entry) /\ m.kind = "failed"
                   /\ v.entry = [status |-> "failed", ended |-> TRUE]
                   /\ v.call = w.call
                   /\ v.agent.barrier = w.agent.barrier
                   /\ ~AgentActive(w.agent) => v.agent = w.agent
                   /\ AgentActive(w.agent) =>
                        /\ v.agent.status = "stopped"
                        /\ v.agent.exit \in {"failed", "recovering"}
<1> DEFINE v == HandleWorkerMessage(w, m, fine)
<1>1. CASE ~EntryActive(w.entry)
  <2>1. v = w
    BY <1>1 DEF HandleWorkerMessage
  <2> QED BY <1>1, <2>1, FollowsReflexive
<1>2. CASE EntryActive(w.entry) /\ m.kind = "started"
  <2> DEFINE e == [status |-> "running", ended |-> w.entry.ended]
             u == [w EXCEPT !.entry = e]
  <2>1. e \in Entry
    BY DEF World, Entry, EntryStates
  <2>2. v = OnStarted(u)
    BY <1>2 DEF HandleWorkerMessage, World, Entry
  <2> HIDE DEF e
  <2>3. /\ u \in World /\ Follows(w, u) /\ u.entry = e /\ u.agent = w.agent
        /\ u.call = w.call
    BY <2>1, EntryEffect DEF Follows
  <2> HIDE DEF u
  <2>4. /\ Follows(u, v) /\ v.entry = u.entry
        /\ ~AgentActive(u.agent) => v = u
        /\ AgentActive(u.agent) =>
             /\ v.agent.status = "running" /\ v.agent.exit = u.agent.exit
             /\ v.agent.barrier = u.agent.barrier
             /\ v.call.at = IF u.call.at = "waiting" THEN "resolved" ELSE u.call.at
    BY <2>2, <2>3, OnStartedEffect
  <2>5. Follows(w, v)
    BY <2>3, <2>4, FollowsTransitive
  <2> HIDE DEF v
  <2> QED BY <1>2, <2>3, <2>4, <2>5 DEF v, e
<1>3. CASE EntryActive(w.entry) /\ m.kind = "complete"
  <2> DEFINE e == [status |-> "completed", ended |-> TRUE]
             u == [w EXCEPT !.entry = e]
  <2>1. e \in Entry /\ m.from \in Proc
    BY DEF Entry, EntryStates, Msg
  <2>2. v = OnComplete(u, m.from, fine)
    BY <1>3 DEF HandleWorkerMessage
  <2> HIDE DEF e
  <2>3. /\ u \in World /\ Follows(w, u) /\ u.entry = e /\ u.agent = w.agent
        /\ u.call = w.call
    BY <2>1, EntryEffect DEF Follows
  <2> HIDE DEF u
  <2>4. /\ Follows(u, v) /\ v.entry = u.entry /\ v.call = u.call
        /\ ~AgentActive(u.agent) => v = u
        /\ AgentActive(u.agent) =>
             /\ v.agent.status = "stopped" /\ v.agent.barrier = m.from
             /\ v.agent.exit \in {"completed", "failed"}
    BY <2>1, <2>2, <2>3, OnCompleteEffect
  <2>5. Follows(w, v)
    BY <2>3, <2>4, FollowsTransitive
  <2> HIDE DEF v
  <2> QED BY <1>3, <2>3, <2>4, <2>5 DEF v, e
<1>4. CASE EntryActive(w.entry) /\ m.kind = "failed"
  <2> DEFINE e == [status |-> "failed", ended |-> TRUE]
             u == [w EXCEPT !.entry = e]
  <2>1. e \in Entry
    BY DEF Entry, EntryStates
  <2>2. v = OnFailed(u, fine)
    BY <1>4 DEF HandleWorkerMessage
  <2> HIDE DEF e
  <2>3. /\ u \in World /\ Follows(w, u) /\ u.entry = e /\ u.agent = w.agent
        /\ u.call = w.call
    BY <2>1, EntryEffect DEF Follows
  <2> HIDE DEF u
  <2>4. /\ Follows(u, v) /\ v.entry = u.entry /\ v.call = u.call
        /\ v.agent.barrier = u.agent.barrier
        /\ ~AgentActive(u.agent) => v = u
        /\ AgentActive(u.agent) =>
             /\ v.agent.status = "stopped"
             /\ v.agent.exit \in {"failed", "recovering"}
    BY <2>2, <2>3, OnFailedEffect
  <2>5. Follows(w, v)
    BY <2>3, <2>4, FollowsTransitive
  <2> HIDE DEF v
  <2> QED BY <1>4, <2>3, <2>4, <2>5 DEF v, e
<1>5. CASE EntryActive(w.entry) /\ m.kind \notin {"started", "complete", "failed"}
  <2>1. v = w
    BY <1>5 DEF HandleWorkerMessage
  <2>2. Tier(m.kind) # "p0"
    BY <1>5 DEF Tier, Msg, Kinds
  <2> QED BY <1>5, <2>1, <2>2, FollowsReflexive
<1> QED BY <1>1, <1>2, <1>3, <1>4, <1>5

-----------------------------------------------------------------------------
(* The steps that run a handler, in terms of the variables *)

\* What every such step leaves behind.
Handled ==
  /\ procs' \in [Proc -> Process] /\ entry' \in Entry /\ agent' \in Agent
  /\ call' \in Call
  /\ Quiet(procs, procs') /\ KeptTimers(timers, timers')

AgentEnds(exits) ==
  /\ agent'.status = "stopped" /\ agent'.exit \in exits
  /\ agent'.barrier = agent.barrier

LEMMA NowIsWorld ==
  ASSUME TypeOK
  PROVE  /\ Now \in World /\ child \in 0..MaxProcs
         /\ Now.procs = procs /\ Now.entry = entry /\ Now.timers = timers
         /\ Now.agent = agent /\ Now.call = call
BY DEF TypeOK, Now, World

LEMMA BecomesEffect ==
  ASSUME TypeOK, NEW w, Follows(Now, w), Becomes(w)
  PROVE  /\ Handled /\ w \in World
         /\ procs' = w.procs /\ entry' = w.entry /\ timers' = w.timers
         /\ agent' = w.agent /\ call' = w.call
<1>1. w \in World /\ Quiet(procs, w.procs) /\ KeptTimers(timers, w.timers)
  BY NowIsWorld DEF Follows
<1>2. /\ procs' = w.procs /\ entry' = w.entry /\ timers' = w.timers
      /\ agent' = w.agent /\ call' = w.call
  BY DEF Becomes
<1> QED BY <1>1, <1>2 DEF Handled, World

LEMMA CompletedNow ==
  ASSUME TypeOK
  PROVE  Completed(Now) <=> agent.barrier # 0 \/ agent.exit = "completed"
BY NowIsWorld DEF Completed

LEMMA ConsumeStep ==
  ASSUME TypeOK, Consume
  PROVE  \E m \in Msg :
           /\ Handled /\ Backlog(queue) > 0 /\ m = Next1(queue)
           /\ queue' = Shifted(queue)
           /\ UNCHANGED <<child, pipe, chatter, sched>>
           /\ \/ turn.doing = "exit" /\ turn' = turn
              \/ /\ turn.doing = "drain" /\ turn.left > 0
                 /\ turn' = [turn EXCEPT !.left = @ - 1]
           /\ \/ /\ ~EntryActive(entry) \/ Tier(m.kind) # "p0"
                 /\ UNCHANGED <<procs, entry, timers, agent, call>>
              \/ /\ EntryActive(entry) /\ m.kind = "started"
                 /\ entry' = [status |-> "running", ended |-> entry.ended]
                 /\ ~AgentActive(agent) => UNCHANGED <<agent, call>>
                 /\ AgentActive(agent) =>
                      /\ agent'.status = "running" /\ agent'.exit = agent.exit
                      /\ agent'.barrier = agent.barrier
                      /\ call'.at = IF call.at = "waiting" THEN "resolved"
                                    ELSE call.at
              \/ /\ EntryActive(entry) /\ m.kind = "complete"
                 /\ entry' = [status |-> "completed", ended |-> TRUE]
                 /\ call' = call
                 /\ ~AgentActive(agent) => UNCHANGED agent
                 /\ AgentActive(agent) =>
                      /\ agent'.status = "stopped" /\ agent'.barrier = m.from
                      /\ agent'.exit \in {"completed", "failed"}
              \/ /\ EntryActive(entry) /\ m.kind = "failed"
                 /\ entry' = [status |-> "failed", ended |-> TRUE]
                 /\ call' = call /\ agent'.barrier = agent.barrier
                 /\ ~AgentActive(agent) => UNCHANGED agent
                 /\ AgentActive(agent) => AgentEnds({"failed", "recovering"})
<1>1. /\ queue \in [Tiers -> Seq(Msg)] /\ Backlog(queue) > 0
      /\ queue' = Shifted(queue) /\ UNCHANGED <<child, pipe, chatter, sched>>
      /\ \/ turn.doing = "exit" /\ turn' = turn
         \/ /\ turn.doing = "drain" /\ turn.left > 0
            /\ turn' = [turn EXCEPT !.left = @ - 1]
  BY DEF Consume, TypeOK
<1>2. PICK m \in Msg : m = Next1(queue)
  BY <1>1, ShiftEffect
<1>3. PICK fine \in BOOLEAN : Becomes(HandleWorkerMessage(Now, m, fine))
  BY <1>2 DEF Consume
<1> DEFINE v == HandleWorkerMessage(Now, m, fine)
<1>4. Follows(Now, v)
  BY NowIsWorld, MessageEffect
<1>5. /\ Handled /\ procs' = v.procs /\ entry' = v.entry /\ timers' = v.timers
      /\ agent' = v.agent /\ call' = v.call
  BY <1>3, <1>4, BecomesEffect
<1>6. \/ v = Now /\ (~EntryActive(entry) \/ Tier(m.kind) # "p0")
      \/ /\ EntryActive(entry) /\ m.kind = "started"
         /\ v.entry = [status |-> "running", ended |-> entry.ended]
         /\ ~AgentActive(agent) => v.agent = agent /\ v.call = call
         /\ AgentActive(agent) =>
              /\ v.agent.status = "running" /\ v.agent.exit = agent.exit
              /\ v.agent.barrier = agent.barrier
              /\ v.call.at = IF call.at = "waiting" THEN "resolved" ELSE call.at
      \/ /\ EntryActive(entry) /\ m.kind = "complete"
         /\ v.entry = [status |-> "completed", ended |-> TRUE]
         /\ v.call = call
         /\ ~AgentActive(agent) => v.agent = agent
         /\ AgentActive(agent) =>
              /\ v.agent.status = "stopped" /\ v.agent.barrier = m.from
              /\ v.agent.exit \in {"completed", "failed"}
      \/ /\ EntryActive(entry) /\ m.kind = "failed"
         /\ v.entry = [status |-> "failed", ended |-> TRUE]
         /\ v.call = call /\ v.agent.barrier = agent.barrier
         /\ ~AgentActive(agent) => v.agent = agent
         /\ AgentActive(agent) => /\ v.agent.status = "stopped"
                                  /\ v.agent.exit \in {"failed", "recovering"}
  BY NowIsWorld, MessageEffect
<1> HIDE DEF v
<1> WITNESS m \in Msg
<1>7. v = Now => UNCHANGED <<procs, entry, timers, agent, call>>
  BY <1>5, NowIsWorld
<1> QED BY <1>1, <1>2, <1>5, <1>6, <1>7 DEF AgentEnds

\* What the exit event and the monitor's zombie share.
AfterExit(status) ==
  /\ agent'.barrier = agent.barrier
  /\ agent' = agent \/ AgentEnds({"failed", "recovering"})
  /\ ~AgentActive(agent) \/ agent.barrier # 0 \/ agent.exit = "completed" =>
       agent' = agent
  /\ /\ agent.barrier = 0 /\ agent.exit = "none"
     /\ status \in {"crashed", "timeout", "terminated", "failed"}
     => ~AgentActive(agent')
  /\ call'.at = CASE call.at = "waiting" -> "rejected"
                  [] call.at = "await_exit" -> "loading"
                  [] OTHER -> call.at

LEMMA OnExitOfEntry ==
  ASSUME TypeOK, NEW e \in Entry, NEW v, v = OnExit([Now EXCEPT !.entry = e]),
         agent' = v.agent, call' = v.call
  PROVE  Follows(Now, v) /\ v.entry = e /\ AfterExit(e.status)
<1> DEFINE u == [Now EXCEPT !.entry = e]
           x == ExitOfAgent(u)
<1>1. /\ u \in World /\ Follows(Now, u) /\ u.entry = e /\ u.agent = agent
      /\ u.call = call
  BY NowIsWorld, EntryEffect DEF Follows
<1>2. v = OnExit(u)
  OBVIOUS
<1> HIDE DEF u
<1>3. Completed(u) <=> agent.barrier # 0 \/ agent.exit = "completed"
  BY <1>1 DEF Completed
<1>4. /\ x.agent.barrier = u.agent.barrier
      /\ ~AgentActive(u.agent) \/ Completed(u) => x = u
      /\ \/ x.agent = u.agent
         \/ x.agent.status = "stopped" /\ x.agent.exit \in {"failed", "recovering"}
      /\ /\ u.agent.barrier = 0 /\ u.agent.exit = "none"
         /\ u.entry.status \in {"crashed", "timeout", "terminated", "failed"}
         => ~AgentActive(x.agent)
  BY <1>1, NowIsWorld, ExitOfAgentEffect
<1>5. /\ Follows(u, v) /\ v.entry = u.entry /\ v.agent = x.agent
      /\ v.call.at = CASE u.call.at = "waiting" -> "rejected"
                       [] u.call.at = "await_exit" -> "loading"
                       [] OTHER -> u.call.at
  BY <1>1, <1>2, NowIsWorld, OnExitEffect
<1> HIDE DEF x
<1>6. Follows(Now, v)
  BY <1>1, <1>5, FollowsTransitive
<1> QED BY <1>1, <1>3, <1>4, <1>5, <1>6 DEF AfterExit, AgentEnds

LEMMA ZombieStep ==
  ASSUME TypeOK, ZombieFound
  PROVE  /\ Handled /\ entry.status = "running" /\ procs[child].seen
         /\ TimersRun /\ entry' = [status |-> "crashed", ended |-> TRUE]
         /\ AfterExit("crashed")
         /\ UNCHANGED <<child, pipe, chatter, queue, sched, turn>>
<1> DEFINE e == [status |-> "crashed", ended |-> TRUE]
           v == OnExit([Now EXCEPT !.entry = e])
<1>1. e \in Entry /\ e.status = "crashed"
  BY DEF Entry, EntryStates
<1>2. Becomes(v)
  BY DEF ZombieFound
<1>3. agent' = v.agent /\ call' = v.call
  BY <1>2 DEF Becomes
<1> HIDE DEF e
<1>4. Follows(Now, v) /\ v.entry = e /\ AfterExit(e.status)
  BY <1>1, <1>3, OnExitOfEntry
<1>5. Handled /\ entry' = v.entry
  BY <1>2, <1>4, BecomesEffect
<1> QED BY <1>1, <1>4, <1>5 DEF ZombieFound, e

LEMMA ExitHandledStep ==
  ASSUME TypeOK, ExitHandled
  PROVE  /\ procs' \in [Proc -> Process] /\ entry' \in Entry /\ agent' \in Agent
         /\ call' \in Call /\ timers' \in Seq(Timers) /\ Quiet(procs, procs')
         /\ NoGc(timers) => OneGc(timers')
         /\ entry' = ExitStatus(entry, procs[child].code)
         /\ AfterExit(entry'.status)
         /\ turn.doing = "exit" /\ Backlog(queue) = 0 /\ turn' = NoTurn
         /\ UNCHANGED <<child, pipe, chatter, queue, sched>>
<1> DEFINE e == ExitStatus(entry, procs[child].code)
           w == OnExit([Now EXCEPT !.entry = e])
           t == Append(w.timers, "gc")
           v == [w EXCEPT !.timers = t]
<1>1. e \in Entry
  BY DEF TypeOK, Entry, EntryStates, ExitStatus
<1>2. Becomes(v)
  BY NowIsWorld DEF ExitHandled
<1> HIDE DEF e
<1>3. w \in World
  BY <1>1, NowIsWorld, EntryEffect, OnExitEffect DEF Follows
<1>4. agent' = w.agent /\ call' = w.call /\ procs' = w.procs /\ entry' = w.entry
      /\ timers' = t
  BY <1>2, <1>3 DEF Becomes, World
<1>5. Follows(Now, w) /\ w.entry = e /\ AfterExit(e.status)
  BY <1>1, <1>4, OnExitOfEntry
<1> HIDE DEF w
<1>6. /\ w.timers \in Seq(Timers) /\ NoGc(timers) => NoGc(w.timers)
      /\ Quiet(procs, w.procs)
  BY <1>5, NowIsWorld DEF Follows, KeptTimers
<1>7. t \in Seq(Timers) /\ (NoGc(w.timers) => OneGc(t))
  BY <1>3, AppendTimer DEF World
<1> QED BY <1>3, <1>4, <1>5, <1>6, <1>7 DEF ExitHandled, World, e

LEMMA WatchdogStep ==
  ASSUME TypeOK, Watchdog
  PROVE  /\ Handled /\ TimersRun /\ entry.status = "running" /\ ~procs[child].seen
         /\ entry' = [status |-> "timeout", ended |-> TRUE] /\ call' = call
         /\ agent.barrier # 0 \/ agent.exit = "completed" => agent' = agent
         /\ agent.barrier = 0 /\ agent.exit # "completed" =>
              AgentEnds({"recovering"})
         /\ UNCHANGED <<child, pipe, chatter, queue, sched, turn>>
<1> DEFINE u == MarkWorkerTimeout(Now)
           v == Kill(u)
<1>1. EntryActive(entry) /\ Becomes(v)
  BY DEF Watchdog, EntryActive
<1>2. /\ Follows(Now, u) /\ u \in World /\ u.call = call
      /\ u.agent.barrier = agent.barrier
      /\ u.entry = [status |-> "timeout", ended |-> TRUE]
      /\ Completed(Now) => u.agent = agent
      /\ ~Completed(Now) => /\ u.agent.status = "stopped"
                            /\ u.agent.exit = "recovering"
  BY <1>1, NowIsWorld, TimeoutEffect DEF Follows
<1> HIDE DEF u
<1>3. /\ Follows(u, v) /\ v.entry = u.entry /\ v.agent = u.agent /\ v.call = u.call
  BY <1>2, NowIsWorld, KillEffect
<1> HIDE DEF v
<1>4. Follows(Now, v)
  BY <1>2, <1>3, FollowsTransitive
<1>5. Handled /\ entry' = v.entry /\ agent' = v.agent /\ call' = v.call
  BY <1>1, <1>4, BecomesEffect
<1> QED BY <1>2, <1>3, <1>5, CompletedNow DEF Watchdog, AgentEnds

LEMMA SpawnTimeoutStep ==
  ASSUME TypeOK, SpawnTimeout
  PROVE  /\ Handled /\ TimersRun /\ call.at = "waiting" /\ call'.at = "rejected"
         /\ ~EntryActive(entry) => UNCHANGED <<entry, agent>>
         /\ EntryActive(entry) =>
              entry' = [status |-> "timeout", ended |-> TRUE]
         /\ agent' = agent \/ AgentEnds({"recovering"})
         /\ agent.barrier # 0 \/ agent.exit = "completed" => agent' = agent
         /\ UNCHANGED <<child, pipe, chatter, queue, sched, turn>>
<1> DEFINE u == MarkWorkerTimeout(Now)
           k == Kill(u)
           v == Settle(k, "waiting", "rejected")
<1>1. Becomes(v) /\ call.at = "waiting"
  BY DEF SpawnTimeout
<1>2. /\ Follows(Now, u) /\ u \in World /\ u.call = call
      /\ u.agent.barrier = agent.barrier
      /\ ~EntryActive(entry) => u = Now
      /\ EntryActive(entry) =>
           /\ u.entry = [status |-> "timeout", ended |-> TRUE]
           /\ Completed(Now) => u.agent = agent
           /\ ~Completed(Now) => /\ u.agent.status = "stopped"
                                 /\ u.agent.exit = "recovering"
  BY NowIsWorld, TimeoutEffect DEF Follows
<1> HIDE DEF u
<1>3. /\ Follows(u, k) /\ k \in World /\ k.entry = u.entry /\ k.agent = u.agent
      /\ k.call = u.call
  BY <1>2, NowIsWorld, KillEffect DEF Follows
<1> HIDE DEF k
<1>4. /\ Follows(k, v) /\ v.entry = k.entry /\ v.agent = k.agent
      /\ v.call.at = "rejected"
  <2>1. "rejected" \in CallStates
    BY DEF CallStates
  <2> QED BY <1>1, <1>2, <1>3, <2>1, SettleEffect
<1> HIDE DEF v
<1>5. Follows(Now, v)
  BY <1>2, <1>3, <1>4, FollowsTransitive
<1>6. Handled /\ entry' = v.entry /\ agent' = v.agent /\ call' = v.call
  BY <1>1, <1>5, BecomesEffect
<1>7. ~EntryActive(entry) => u.entry = entry /\ u.agent = agent
  BY <1>2, NowIsWorld
<1> QED BY <1>1, <1>2, <1>3, <1>4, <1>6, <1>7, CompletedNow DEF SpawnTimeout, AgentEnds

LEMMA SpawnRejectedStep ==
  ASSUME TypeOK, SpawnRejected
  PROVE  /\ Handled /\ turn = NoTurn /\ call.at = "rejected" /\ call' = NoCall
         /\ entry' = entry /\ AgentEnds({"failed", "recovering"})
         /\ UNCHANGED <<child, pipe, chatter, queue, sched, turn>>
<1> DEFINE u == [Now EXCEPT !.call = NoCall]
           v == IF call.mode = "fail" THEN MarkAgentFailed(u)
                ELSE Stop(u, "recovering")
<1>1. Becomes(v)
  BY DEF SpawnRejected
<1>2. NoCall \in Call
  BY DEF NoCall, Call
<1>3. /\ u \in World /\ Follows(Now, u) /\ u.entry = entry /\ u.agent = agent
      /\ u.call = NoCall
  BY <1>2, NowIsWorld DEF World, Follows, Quiet, KeptTimers
<1> HIDE DEF u
<1>4. /\ Follows(u, v) /\ v.entry = u.entry /\ v.call = u.call
      /\ v.agent.status = "stopped" /\ v.agent.exit \in {"failed", "recovering"}
      /\ v.agent.barrier = u.agent.barrier
  <2>1. CASE call.mode = "fail"
    BY <1>3, <2>1, NowIsWorld, AgentFailedEffect
  <2>2. CASE call.mode # "fail"
    BY <1>3, <2>2, StopEffect DEF Exits
  <2> QED BY <2>1, <2>2
<1> HIDE DEF v
<1>5. Follows(Now, v)
  BY <1>3, <1>4, FollowsTransitive
<1>6. Handled /\ entry' = v.entry /\ agent' = v.agent /\ call' = v.call
  BY <1>1, <1>5, BecomesEffect
<1> QED BY <1>3, <1>4, <1>6 DEF SpawnRejected, AgentEnds

LEMMA StopAgentStep ==
  ASSUME TypeOK, StopAgent
  PROVE  /\ Handled /\ Idle /\ UNCHANGED <<entry, call>>
         /\ AgentEnds({"terminated"})
         /\ UNCHANGED <<child, pipe, chatter, queue, sched, turn>>
<1> DEFINE u == IF agent.attached THEN Kill(Now) ELSE Now
           v == Stop(u, "terminated")
<1>1. Becomes(v)
  BY DEF StopAgent
<1>2. /\ Follows(Now, u) /\ u \in World /\ u.entry = entry /\ u.agent = agent
      /\ u.call = call
  <2>1. CASE agent.attached
    BY <2>1, NowIsWorld, KillEffect DEF Follows
  <2>2. CASE ~agent.attached
    BY <2>2, NowIsWorld, FollowsReflexive
  <2> QED BY <2>1, <2>2
<1> HIDE DEF u
<1>3. /\ Follows(u, v) /\ v.entry = u.entry /\ v.call = u.call
      /\ v.agent.status = "stopped" /\ v.agent.exit = "terminated"
      /\ v.agent.barrier = u.agent.barrier
  BY <1>2, StopEffect DEF Exits
<1> HIDE DEF v
<1>4. Follows(Now, v)
  BY <1>2, <1>3, FollowsTransitive
<1>5. Handled /\ entry' = v.entry /\ agent' = v.agent /\ call' = v.call
  BY <1>1, <1>4, BecomesEffect
<1> QED BY <1>2, <1>3, <1>5 DEF StopAgent, AgentEnds

LEMMA StopAllStep ==
  ASSUME TypeOK, StopAll
  PROVE  /\ Handled /\ Idle /\ UNCHANGED <<entry, call>>
         /\ AgentActive(agent) => AgentEnds({"terminated"})
         /\ ~AgentActive(agent) => agent' = agent
         /\ UNCHANGED <<child, pipe, chatter, queue, sched, turn>>
<1> DEFINE u == IF AgentActive(agent) THEN Stop(Now, "terminated") ELSE Now
           v == Kill(u)
<1>1. Becomes(v)
  BY DEF StopAll
<1>2. /\ Follows(Now, u) /\ u \in World /\ u.entry = entry /\ u.call = call
      /\ ~AgentActive(agent) => u.agent = agent
      /\ AgentActive(agent) =>
           /\ u.agent.status = "stopped" /\ u.agent.exit = "terminated"
           /\ u.agent.barrier = agent.barrier
  <2>1. CASE AgentActive(agent)
    <3>1. "terminated" \in Exits
      BY DEF Exits
    <3> QED BY <2>1, <3>1, NowIsWorld, StopEffect DEF Follows
  <2>2. CASE ~AgentActive(agent)
    BY <2>2, NowIsWorld, FollowsReflexive
  <2> QED BY <2>1, <2>2
<1> HIDE DEF u
<1>3. Follows(u, v) /\ v.entry = u.entry /\ v.call = u.call /\ v.agent = u.agent
  BY <1>2, NowIsWorld, KillEffect
<1> HIDE DEF v
<1>4. Follows(Now, v)
  BY <1>2, <1>3, FollowsTransitive
<1>5. Handled /\ entry' = v.entry /\ agent' = v.agent /\ call' = v.call
  BY <1>1, <1>4, BecomesEffect
<1> QED BY <1>2, <1>3, <1>5 DEF StopAll, AgentEnds

LEMMA ChannelErrorStep ==
  ASSUME TypeOK, ChannelError
  PROVE  /\ Handled /\ Idle /\ EntryActive(entry) /\ procs[child].life = "up"
         /\ entry' = [status |-> "failed", ended |-> entry.ended]
         /\ agent' = agent
         /\ call'.at = IF call.at = "waiting" THEN "rejected" ELSE call.at
         /\ UNCHANGED <<child, pipe, chatter, queue, sched, turn>>
<1> DEFINE e == [status |-> "failed", ended |-> entry.ended]
           u == [Now EXCEPT !.entry = e]
           v == Settle(u, "waiting", "rejected")
<1>1. e \in Entry
  BY DEF TypeOK, Entry, EntryStates
<1>2. [Now EXCEPT !.entry.status = "failed"] = u
  BY NowIsWorld DEF World, Entry
<1>3. Becomes(v)
  BY <1>2 DEF ChannelError
<1> HIDE DEF e
<1>4. /\ u \in World /\ Follows(Now, u) /\ u.entry = e /\ u.agent = agent
      /\ u.call = call
  BY <1>1, NowIsWorld, EntryEffect DEF Follows
<1> HIDE DEF u
<1>5. /\ Follows(u, v) /\ v.entry = u.entry /\ v.agent = u.agent
      /\ v.call.at = IF u.call.at = "waiting" THEN "rejected" ELSE u.call.at
  <2>1. "rejected" \in CallStates
    BY DEF CallStates
  <2> QED BY <1>4, <2>1, SettleEffect
<1> HIDE DEF v
<1>6. Follows(Now, v)
  BY <1>4, <1>5, FollowsTransitive
<1>7. Handled /\ entry' = v.entry /\ agent' = v.agent /\ call' = v.call
  BY <1>3, <1>6, BecomesEffect
<1> QED BY <1>4, <1>5, <1>7 DEF ChannelError, e

-----------------------------------------------------------------------------
(* Type correctness *)

LEMMA NewAgentType == NewAgent \in Agent /\ [NewAgent EXCEPT !.status = "none"] \in Agent
<1>1. 0 \in 0..MaxProcs
  BY WorkerAssumption
<1>2. NewAgent \in Agent
  BY <1>1 DEF NewAgent, Agent
<1> QED BY <1>2 DEF Agent

LEMMA InitTypeOK == Init => TypeOK
<1> SUFFICES ASSUME Init PROVE TypeOK
  OBVIOUS
<1>1. procs \in [Proc -> Process] /\ child \in 0..MaxProcs
  BY WorkerAssumption DEF Init, Unborn, Process
<1>2. /\ pipe \in Seq(Msg) /\ timers \in Seq(Timers) /\ chatter \in 0..MaxChatter
  BY WorkerAssumption, EmptySeq DEF Init
<1>3. entry \in Entry /\ agent \in Agent /\ call \in Call /\ turn \in Turn
  <2>1. 0 \in 0..BatchSize
    BY QueueAssumption
  <2>2. entry \in Entry /\ call \in Call /\ turn \in Turn
    BY <2>1 DEF Init, NoEntry, Entry, EntryStates, NoCall, Call, NoTurn, Turn
  <2> QED BY <2>2, NewAgentType DEF Init
<1>4. queue \in [Tiers -> Seq(Msg)] /\ Bounded(queue)
  <2>1. /\ << >> \in Seq(Msg) /\ Len(<< >>) = 0
    BY EmptySeq
  <2>2. queue \in [Tiers -> Seq(Msg)]
    BY <2>1 DEF Init, EmptyQueue
  <2>3. Backlog(queue) = 0
    BY <2>1 DEF Init, EmptyQueue, Backlog, Tiers
  <2> QED BY <2>2, <2>3, QueueAssumption DEF Bounded
<1> QED BY <1>1, <1>2, <1>3, <1>4 DEF TypeOK, Init

LEMMA ChildIsProc == child \in 0..MaxProcs /\ child # 0 => child \in Proc
BY WorkerAssumption DEF Proc

LEMMA SendTypes ==
  ASSUME TypeOK, NEW kind \in Kinds, Send(kind), child # 0
  PROVE  /\ pipe' \in Seq(Msg) /\ pipe' = Append(pipe, [kind |-> kind, from |-> child])
         /\ [kind |-> kind, from |-> child] \in Msg
<1>1. [kind |-> kind, from |-> child] \in Msg
  BY ChildIsProc DEF TypeOK, Msg
<1> QED BY <1>1, AppendProperties DEF TypeOK, Send

LEMMA StepTypeOK ==
  ASSUME TypeOK, [Next]_vars
  PROVE  TypeOK'
<1>1. ASSUME SayStarted PROVE TypeOK'
  <2>1. child \in Proc /\ "started" \in Kinds
    BY <1>1, ChildIsProc DEF SayStarted, Speaks, TypeOK, Kinds
  <2>2. pipe' \in Seq(Msg)
    BY <1>1, <2>1, SendTypes DEF SayStarted, Speaks
  <2>3. procs' \in [Proc -> Process]
    BY <1>1, <2>1 DEF SayStarted, TypeOK, Process
  <2> QED BY <1>1, <2>2, <2>3 DEF SayStarted, TypeOK
<1>2. ASSUME Chat PROVE TypeOK'
  <2>1. pipe' \in Seq(Msg)
    BY <1>2, SendTypes DEF Chat, Speaks, Kinds
  <2>2. chatter' \in 0..MaxChatter
    BY <1>2, WorkerAssumption DEF Chat, TypeOK
  <2> QED BY <1>2, <2>1, <2>2 DEF Chat, TypeOK
<1>3. ASSUME NEW kind \in {"complete", "failed"}, NEW arrives \in BOOLEAN,
             SayEnd(kind, arrives)
      PROVE  TypeOK'
  <2>1. child \in Proc /\ kind \in Kinds
    BY <1>3, ChildIsProc DEF SayEnd, Speaks, TypeOK, Kinds
  <2>2. pipe' \in Seq(Msg)
    <3>1. CASE arrives
      BY <1>3, <2>1, <3>1, SendTypes DEF SayEnd, Speaks
    <3>2. CASE ~arrives
      BY <1>3, <3>2 DEF SayEnd, TypeOK
    <3> QED BY <3>1, <3>2
  <2>3. procs' \in [Proc -> Process]
    BY <1>3, <2>1 DEF SayEnd, TypeOK, Process
  <2> QED BY <1>3, <2>2, <2>3 DEF SayEnd, TypeOK
<1>4. ASSUME NEW p \in Proc, NEW code \in {"zero", "crash", "sigterm"}, Die(p, code)
      PROVE  TypeOK'
  <2>1. procs' \in [Proc -> Process]
    <3>1. [procs[p] EXCEPT !.life = "dead", !.code = code] \in Process
      BY DEF TypeOK, Process
    <3>2. procs' = [procs EXCEPT ![p] = [procs[p] EXCEPT !.life = "dead", !.code = code]]
      BY <1>4 DEF Die, TypeOK, Process
    <3> QED BY <3>1, <3>2 DEF TypeOK
  <2> QED BY <1>4, <2>1 DEF Die, TypeOK
<1>5. ASSUME ReceiveMessage PROVE TypeOK'
  <2>1. Tail(pipe) \in Seq(Msg) /\ Head(pipe) \in Msg
    BY <1>5, HeadTailProperties DEF ReceiveMessage, TypeOK
  <2>2. queue' \in [Tiers -> Seq(Msg)] /\ Bounded(queue')
    BY <1>5, <2>1, PushEffect DEF ReceiveMessage, TypeOK
  <2> QED BY <1>5, <2>1, <2>2 DEF ReceiveMessage, TypeOK
<1>6. ASSUME DrainBegins PROVE TypeOK'
  <2>1. turn' \in Turn
    BY <1>6, QueueAssumption DEF DrainBegins, Turn
  <2> QED BY <1>6, <2>1 DEF DrainBegins, TypeOK
<1>7. ASSUME Consume PROVE TypeOK'
  <2>1. /\ Handled /\ Backlog(queue) > 0 /\ queue' = Shifted(queue)
        /\ UNCHANGED <<child, pipe, chatter, sched>>
        /\ \/ turn.doing = "exit" /\ turn' = turn
           \/ /\ turn.doing = "drain" /\ turn.left > 0
              /\ turn' = [turn EXCEPT !.left = @ - 1]
    BY <1>7, ConsumeStep
  <2>2. queue' \in [Tiers -> Seq(Msg)] /\ Bounded(queue')
    BY <2>1, ShiftEffect DEF TypeOK
  <2>3. turn' \in Turn
    <3>1. turn.left - 1 \in 0..BatchSize \/ ~(turn.left > 0)
      BY QueueAssumption DEF TypeOK, Turn
    <3> QED BY <2>1, <3>1 DEF TypeOK, Turn
  <2> QED BY <2>1, <2>2, <2>3 DEF Handled, KeptTimers, TypeOK
<1>8. ASSUME DrainEnds PROVE TypeOK'
  BY <1>8, QueueAssumption DEF DrainEnds, NoTurn, Turn, TypeOK
<1>9. ASSUME ExitEvent PROVE TypeOK'
  <2>1. child \in Proc
    BY <1>9, ChildIsProc DEF ExitEvent, TypeOK
  <2>2. procs' \in [Proc -> Process]
    BY <1>9, <2>1 DEF ExitEvent, TypeOK, Process
  <2>3. timers' \in Seq(Timers)
    BY <1>9, WithoutEffect DEF ExitEvent, TypeOK, KeptTimers
  <2>4. entry' \in Entry
    BY <1>9 DEF ExitEvent, TypeOK, Entry
  <2>5. turn' \in Turn
    BY <1>9, QueueAssumption DEF ExitEvent, Turn
  <2> QED BY <1>9, <2>2, <2>3, <2>4, <2>5 DEF ExitEvent, TypeOK
<1>10. ASSUME ExitHandled PROVE TypeOK'
  <2>1. NoTurn \in Turn
    BY QueueAssumption DEF NoTurn, Turn
  <2> QED BY <1>10, <2>1, ExitHandledStep DEF TypeOK
<1>11. ASSUME ZombieFound PROVE TypeOK'
  BY <1>11, ZombieStep DEF Handled, KeptTimers, TypeOK
<1>12. ASSUME Watchdog PROVE TypeOK'
  BY <1>12, WatchdogStep DEF Handled, KeptTimers, TypeOK
<1>13. ASSUME SpawnTimeout PROVE TypeOK'
  BY <1>13, SpawnTimeoutStep DEF Handled, KeptTimers, TypeOK
<1>14. ASSUME AwaitTimeout PROVE TypeOK'
  BY <1>14 DEF AwaitTimeout, TypeOK, Call
<1>15. ASSUME KillTimer PROVE TypeOK'
  <2>1. timers' \in Seq(Timers)
    BY <1>15, TailTimers DEF KillTimer, TypeOK, KeptTimers
  <2>2. procs' \in [Proc -> Process]
    BY <1>15, SignalledEffect DEF KillTimer, TypeOK
  <2> QED BY <1>15, <2>1, <2>2 DEF KillTimer, TypeOK
<1>16. ASSUME CleanupTimer PROVE TypeOK'
  <2>1. timers' \in Seq(Timers)
    BY <1>16, TailTimers DEF CleanupTimer, TypeOK, KeptTimers
  <2> QED BY <1>16, <2>1 DEF CleanupTimer, TypeOK, NoEntry, Entry, EntryStates
<1>17. ASSUME Register \/ RespawnResets PROVE TypeOK'
  BY <1>17, NewAgentType DEF Register, RespawnResets, TypeOK, Call
<1>18. ASSUME NEW mode \in {"fail", "recover"}, RespawnBegins(mode) PROVE TypeOK'
  BY <1>18 DEF RespawnBegins, TypeOK, Call
<1>19. ASSUME SpawnRefused PROVE TypeOK'
  BY <1>19 DEF SpawnRefused, TypeOK, Call
<1>20. ASSUME SpawnWorker PROVE TypeOK'
  <2>1. child + 1 \in Proc /\ child' \in 0..MaxProcs
    BY <1>20, WorkerAssumption DEF SpawnWorker, TypeOK, Proc
  <2>2. procs' \in [Proc -> Process]
    <3>1. Reaped(procs) \in [Proc -> Process]
      <4> DEFINE K == IF entry.status = "none" THEN procs ELSE Signalled(procs, "kill")
      <4>1. K \in [Proc -> Process]
        BY SignalledEffect DEF TypeOK
      <4> HIDE DEF K
      <4>2. \A p \in Proc : K[p] \in Process /\ Forgotten(K[p]) \in Process
        BY <4>1 DEF Forgotten, Unborn, Process
      <4>3. Reaped(procs) = [p \in Proc |-> IF p = child THEN Forgotten(K[p]) ELSE K[p]]
        BY DEF Reaped, K
      <4> QED BY <4>2, <4>3
    <3> QED BY <1>20, <2>1, <3>1 DEF SpawnWorker, Process
  <2>3. << >> \in Seq(Msg) /\ << >> \in Seq(Timers)
    BY EmptySeq
  <2>4. entry' \in Entry /\ call' \in Call
    BY <1>20 DEF SpawnWorker, TypeOK, Entry, EntryStates, Call
  <2> QED BY <1>20, <2>1, <2>2, <2>3, <2>4 DEF SpawnWorker, TypeOK
<1>21. ASSUME SpawnResolved PROVE TypeOK'
  <2>1. agent' \in Agent
    <3> DEFINE s == IF agent.status = "stopped" THEN agent.status ELSE "running"
    <3>1. s \in {"none", "starting", "running", "stopped"}
      BY DEF TypeOK, Agent
    <3>2. agent' = [agent EXCEPT !.attached = TRUE, !.status = s]
      BY <1>21 DEF SpawnResolved
    <3> HIDE DEF s
    <3> QED BY <3>1, <3>2 DEF TypeOK, Agent
  <2> QED BY <1>21, <2>1 DEF SpawnResolved, TypeOK, NoCall, Call
<1>22. ASSUME SpawnRejected PROVE TypeOK'
  BY <1>22, SpawnRejectedStep DEF Handled, KeptTimers, TypeOK
<1>23. ASSUME StopAgent PROVE TypeOK'
  BY <1>23, StopAgentStep DEF Handled, KeptTimers, TypeOK
<1>24. ASSUME StopAll PROVE TypeOK'
  BY <1>24, StopAllStep DEF Handled, KeptTimers, TypeOK
<1>25. ASSUME ChannelError PROVE TypeOK'
  BY <1>25, ChannelErrorStep DEF Handled, KeptTimers, TypeOK
<1>26. CASE UNCHANGED vars
  BY <1>26 DEF vars, TypeOK
<1> QED BY <1>1, <1>2, <1>3, <1>4, <1>5, <1>6, <1>7, <1>8, <1>9, <1>10, <1>11,
           <1>12, <1>13, <1>14, <1>15, <1>16, <1>17, <1>18, <1>19, <1>20, <1>21,
           <1>22, <1>23, <1>24, <1>25, <1>26
       DEF Next, Processes, EventLoop, TimerPhase, Starting, Commands

-----------------------------------------------------------------------------
(* One process, one entry, one watcher *)

LEMMA UnchangedIsQuiet ==
  /\ \A P \in [Proc -> Process] : Quiet(P, P)
  /\ \A s \in Seq(Timers) : KeptTimers(s, s)
BY DEF Quiet, KeptTimers

LEMMA InitParts == Init => ProcessInv /\ EntryInv /\ AgentInv
<1> SUFFICES ASSUME Init PROVE ProcessInv /\ EntryInv /\ AgentInv
  OBVIOUS
<1>1. ProcessInv
  BY WorkerAssumption
     DEF Init, ProcessInv, ChildIsBorn, LaterIsUnborn, OneWorkerProcess, Proc, Unborn
<1>2. Len(timers) = 0
  BY EmptySeq DEF Init
<1>3. NoGc(timers) /\ OneGc(timers)
  BY <1>2 DEF NoGc, OneGc
<1>4. EntryInv
  BY <1>3 DEF Init, EntryInv, CleanupAfterExit, NoEntryNoProcess, ExitInHand,
              EndedHasExited, NoEntry, NoTurn, EntryActive
<1>5. agent.status = "none" /\ ~AgentActive(agent)
  BY DEF Init, NewAgent, AgentActive
<1>6. AgentInv
  BY <1>5 DEF AgentInv, UnknownIsIdle, ActiveIsFresh, Watched, Init, NoCall
<1> QED BY <1>1, <1>4, <1>6

LEMMA QuietKeepsProcesses ==
  ASSUME TypeOK, ProcessInv, child' = child, Quiet(procs, procs')
  PROVE  ProcessInv'
BY ChildIsProc DEF TypeOK, ProcessInv, ChildIsBorn, LaterIsUnborn, OneWorkerProcess, Quiet

\* The process that spawnWorker starts.
LEMMA SpawnedEffect ==
  ASSUME TypeOK, ProcessInv, SpawnWorker
  PROVE  /\ child' = child + 1 /\ child' \in Proc /\ procs'[child'].life = "up"
         /\ procs'[child'].said = "nothing" /\ ~procs'[child'].seen
<1> DEFINE K == IF entry.status = "none" THEN procs ELSE Signalled(procs, "kill")
<1>1. child + 1 \in Proc /\ child' = child + 1 /\ child + 1 # child /\ child + 1 > child
  BY WorkerAssumption DEF SpawnWorker, TypeOK, Proc
<1>2. K \in [Proc -> Process] /\ Quiet(procs, K)
  BY SignalledEffect, UnchangedIsQuiet DEF TypeOK
<1>3. procs' = [[p \in Proc |-> IF p = child THEN Forgotten(K[p]) ELSE K[p]]
                  EXCEPT ![child + 1].life = "up"]
  BY DEF SpawnWorker, Reaped
<1> HIDE DEF K
<1>4. procs'[child + 1] = [K[child + 1] EXCEPT !.life = "up"]
  BY <1>1, <1>3
<1>5. K[child + 1] \in Process
  BY <1>1, <1>2
<1>6. K[child + 1].said = "nothing" /\ ~K[child + 1].seen
  BY <1>1, <1>2 DEF ProcessInv, LaterIsUnborn, Quiet
<1> QED BY <1>1, <1>4, <1>5, <1>6 DEF Process

LEMMA StepProcessInv ==
  ASSUME TypeOK, ProcessInv, EntryInv, [Next]_vars
  PROVE  ProcessInv'
<1>1. ASSUME UNCHANGED <<procs, child>> PROVE ProcessInv'
  BY <1>1, UnchangedIsQuiet, QuietKeepsProcesses DEF TypeOK
<1>2. ASSUME SayStarted \/ \E kind \in {"complete", "failed"}, arrives \in BOOLEAN :
                             SayEnd(kind, arrives)
      PROVE  ProcessInv'
  <2>1. child \in Proc /\ child' = child
    BY <1>2, ChildIsProc DEF SayStarted, SayEnd, Speaks, TypeOK
  <2>2. \A p \in Proc : /\ procs'[p].life = procs[p].life
                        /\ procs'[p].seen = procs[p].seen
                        /\ procs'[p].told = procs[p].told
                        /\ p # child => procs'[p].said = procs[p].said
    BY <1>2, <2>1 DEF SayStarted, SayEnd, TypeOK, Process
  <2> QED BY <2>1, <2>2 DEF ProcessInv, ChildIsBorn, LaterIsUnborn, OneWorkerProcess
<1>3. ASSUME NEW p \in Proc, NEW code \in {"zero", "crash", "sigterm"}, Die(p, code)
      PROVE  ProcessInv'
  <2>1. \A q \in Proc : /\ procs'[q].life = IF q = p THEN "dead" ELSE procs[q].life
                        /\ procs'[q].seen = procs[q].seen
                        /\ procs'[q].told = procs[q].told
                        /\ procs'[q].said = procs[q].said
    <3>1. procs[p] \in Process
      BY DEF TypeOK
    <3>2. procs' = [procs EXCEPT ![p] = [procs[p] EXCEPT !.life = "dead", !.code = code]]
      BY <1>3, <3>1 DEF Die, TypeOK, Process
    <3> QED BY <3>1, <3>2 DEF TypeOK, Process
  <2>2. child' = child /\ (child # 0 => child \in Proc)
    BY <1>3, ChildIsProc DEF Die, TypeOK
  <2>3. procs[p].life = "up"
    BY <1>3 DEF Die
  <2> QED BY <2>1, <2>2, <2>3 DEF ProcessInv, ChildIsBorn, LaterIsUnborn, OneWorkerProcess
<1>4. ASSUME ExitEvent PROVE ProcessInv'
  <2>1. child \in Proc /\ child' = child /\ procs[child].life = "dead"
    BY <1>4, ChildIsProc DEF ExitEvent, TypeOK
  <2>2. \A q \in Proc : /\ procs'[q].life = procs[q].life
                        /\ procs'[q].told = procs[q].told
                        /\ procs'[q].said = procs[q].said
                        /\ q # child => procs'[q].seen = procs[q].seen
    BY <1>4, <2>1 DEF ExitEvent, TypeOK, Process
  <2> QED BY <2>1, <2>2 DEF ProcessInv, ChildIsBorn, LaterIsUnborn, OneWorkerProcess
<1>5. ASSUME Consume PROVE ProcessInv'
  BY <1>5, ConsumeStep, QuietKeepsProcesses DEF Handled
<1>6. ASSUME ZombieFound PROVE ProcessInv'
  BY <1>6, ZombieStep, QuietKeepsProcesses DEF Handled
<1>7. ASSUME Watchdog PROVE ProcessInv'
  BY <1>7, WatchdogStep, QuietKeepsProcesses DEF Handled
<1>8. ASSUME SpawnTimeout PROVE ProcessInv'
  BY <1>8, SpawnTimeoutStep, QuietKeepsProcesses DEF Handled
<1>9. ASSUME SpawnRejected PROVE ProcessInv'
  BY <1>9, SpawnRejectedStep, QuietKeepsProcesses DEF Handled
<1>10. ASSUME StopAgent PROVE ProcessInv'
  BY <1>10, StopAgentStep, QuietKeepsProcesses DEF Handled
<1>11. ASSUME StopAll PROVE ProcessInv'
  BY <1>11, StopAllStep, QuietKeepsProcesses DEF Handled
<1>12. ASSUME ChannelError PROVE ProcessInv'
  BY <1>12, ChannelErrorStep, QuietKeepsProcesses DEF Handled
<1>13. ASSUME ExitHandled PROVE ProcessInv'
  BY <1>13, ExitHandledStep, QuietKeepsProcesses
<1>14. ASSUME KillTimer PROVE ProcessInv'
  <2>1. Quiet(procs, procs') /\ child' = child
    BY <1>14, SignalledEffect, UnchangedIsQuiet DEF KillTimer, TypeOK
  <2> QED BY <2>1, QuietKeepsProcesses
<1>15. ASSUME SpawnWorker PROVE ProcessInv'
  <2> DEFINE K == IF entry.status = "none" THEN procs ELSE Signalled(procs, "kill")
  <2>1. /\ child + 1 \in Proc /\ child' = child + 1 /\ child \in Nat
        /\ child # 0 => child \in Proc
    BY <1>15, ChildIsProc, WorkerAssumption DEF SpawnWorker, TypeOK, Proc
  <2>2. K \in [Proc -> Process] /\ Quiet(procs, K)
    BY SignalledEffect, UnchangedIsQuiet DEF TypeOK
  <2>3. child # 0 => K[child].life = "dead" \/ K[child].told = "kill"
    <3>1. CASE entry.status = "none"
      BY <2>1, <2>2, <3>1
         DEF EntryInv, NoEntryNoProcess, ProcessInv, ChildIsBorn, Quiet
    <3>2. CASE entry.status # "none"
      <4>1. child # 0 => procs[child] \in Process
        BY <2>1 DEF TypeOK
      <4>2. child # 0 => procs[child].life \in {"up", "dead"}
        BY <4>1 DEF ProcessInv, ChildIsBorn, Process
      <4> QED BY <2>1, <2>2, <3>2, <4>2, SignalledEffect DEF TypeOK, Quiet
    <3> QED BY <3>1, <3>2
  <2> HIDE DEF K
  <2>4. procs' = [[p \in Proc |-> IF p = child THEN Forgotten(K[p]) ELSE K[p]]
                    EXCEPT ![child + 1].life = "up"]
    BY <1>15 DEF SpawnWorker, Reaped, K
  <2>5. \A p \in Proc : p # child + 1 =>
          procs'[p].life = K[p].life /\ procs'[p].told = K[p].told
    BY <2>1, <2>2, <2>4 DEF Forgotten, Unborn, Process
  <2>6. OneWorkerProcess'
    <3> SUFFICES ASSUME NEW p \in Proc, p < child + 1
                 PROVE  procs'[p].life = "dead" \/ procs'[p].told = "kill"
      BY <2>1 DEF OneWorkerProcess
    <3>1. p # child + 1 /\ p \in Nat /\ (p = child \/ p < child)
      BY <2>1 DEF Proc
    <3>2. CASE p = child
      <4>1. child # 0
        BY <3>2 DEF Proc
      <4> QED BY <2>3, <2>5, <3>1, <3>2, <4>1
    <3>3. CASE p < child
      BY <2>2, <2>5, <3>1, <3>3 DEF ProcessInv, OneWorkerProcess, Quiet
    <3> QED BY <3>1, <3>2, <3>3
  <2>7. ChildIsBorn'
    BY <1>15, <2>1, SpawnedEffect DEF ChildIsBorn
  <2>8. LaterIsUnborn'
    <3> SUFFICES ASSUME NEW p \in Proc, p > child + 1
                 PROVE  /\ procs'[p].life = "unborn" /\ procs'[p].said = "nothing"
                        /\ ~procs'[p].seen
      BY <2>1 DEF LaterIsUnborn
    <3>1. p # child + 1 /\ p # child /\ p > child
      BY <2>1 DEF Proc
    <3>2. procs'[p] = K[p]
      BY <2>1, <2>2, <2>4, <3>1
    <3> QED BY <2>2, <3>1, <3>2 DEF ProcessInv, LaterIsUnborn, Quiet
  <2> QED BY <2>6, <2>7, <2>8 DEF ProcessInv
<1> QED
  BY <1>1, <1>2, <1>3, <1>4, <1>5, <1>6, <1>7, <1>8, <1>9, <1>10, <1>11, <1>12,
     <1>13, <1>14, <1>15
     DEF Next, Processes, EventLoop, TimerPhase, Starting, Commands, vars, Chat,
         ReceiveMessage, DrainBegins, DrainEnds, AwaitTimeout, CleanupTimer,
         Register, RespawnBegins, RespawnResets, SpawnRefused, SpawnResolved

\* The steps that keep the child and its entry.
LEMMA KeepsEntryInv ==
  ASSUME TypeOK, EntryInv, child' = child, KeptTimers(timers, timers'),
         child # 0 => /\ procs[child].seen => procs'[child].seen
                      /\ procs[child].life = "dead" => procs'[child].life = "dead",
         turn'.doing = "exit" => turn.doing = "exit",
         entry'.status = "none" => entry.status = "none",
         entry.ended => entry'.ended,
         EntryActive(entry') /\ entry'.ended => EntryActive(entry) /\ entry.ended
  PROVE  EntryInv'
<1>1. CleanupAfterExit'
  BY DEF EntryInv, CleanupAfterExit, KeptTimers
<1>2. NoEntryNoProcess'
  BY DEF EntryInv, NoEntryNoProcess, KeptTimers
<1>3. ExitInHand'
  BY DEF EntryInv, ExitInHand, KeptTimers
<1>4. EndedHasExited'
  BY DEF EntryInv, EndedHasExited
<1> QED BY <1>1, <1>2, <1>3, <1>4 DEF EntryInv

LEMMA QuietKeepsEntryInv ==
  ASSUME TypeOK, EntryInv, Handled, child' = child,
         turn'.doing = "exit" => turn.doing = "exit",
         entry'.status = "none" => entry.status = "none",
         entry.ended => entry'.ended,
         EntryActive(entry') /\ entry'.ended => EntryActive(entry) /\ entry.ended
  PROVE  EntryInv'
<1>1. child # 0 => child \in Proc
  BY ChildIsProc DEF TypeOK
<1>2. child # 0 => /\ procs'[child].seen = procs[child].seen
                   /\ procs'[child].life = procs[child].life
  BY <1>1 DEF Handled, Quiet
<1> QED BY <1>2, KeepsEntryInv DEF Handled

LEMMA StepEntryInv ==
  ASSUME TypeOK, ProcessInv, EntryInv, [Next]_vars
  PROVE  EntryInv'
<1>1. ASSUME UNCHANGED <<procs, child, timers, entry>>,
             turn'.doing = "exit" => turn.doing = "exit"
      PROVE  EntryInv'
  BY <1>1, UnchangedIsQuiet, KeepsEntryInv DEF TypeOK
<1>2. ASSUME SayStarted \/ \E kind \in {"complete", "failed"}, arrives \in BOOLEAN :
                             SayEnd(kind, arrives)
      PROVE  EntryInv'
  <2>1. child \in Proc /\ UNCHANGED <<child, timers, entry, turn>>
    BY <1>2, ChildIsProc DEF SayStarted, SayEnd, Speaks, TypeOK
  <2>2. /\ procs'[child].life = procs[child].life
        /\ procs'[child].seen = procs[child].seen
    BY <1>2, <2>1 DEF SayStarted, SayEnd, TypeOK, Process
  <2> QED BY <2>1, <2>2, UnchangedIsQuiet, KeepsEntryInv DEF TypeOK
<1>3. ASSUME NEW p \in Proc, NEW code \in {"zero", "crash", "sigterm"}, Die(p, code)
      PROVE  EntryInv'
  <2>1. \A q \in Proc : /\ procs'[q].seen = procs[q].seen
                        /\ procs[q].life = "dead" => procs'[q].life = "dead"
    <3>1. procs[p] \in Process
      BY DEF TypeOK
    <3>2. procs' = [procs EXCEPT ![p] = [procs[p] EXCEPT !.life = "dead", !.code = code]]
      BY <1>3, <3>1 DEF Die, TypeOK, Process
    <3> QED BY <3>1, <3>2 DEF TypeOK, Process
  <2>2. UNCHANGED <<child, timers, entry, turn>> /\ (child # 0 => child \in Proc)
    BY <1>3, ChildIsProc DEF Die, TypeOK
  <2> QED BY <2>1, <2>2, UnchangedIsQuiet, KeepsEntryInv DEF TypeOK
<1>4. ASSUME ExitEvent PROVE EntryInv'
  <2>1. child \in Proc /\ child # 0 /\ child' = child /\ procs[child].life = "dead"
        /\ ~procs[child].seen
    BY <1>4, ChildIsProc DEF ExitEvent, TypeOK
  <2>2. procs'[child].seen /\ procs'[child].life = "dead"
    BY <1>4, <2>1 DEF ExitEvent, TypeOK, Process
  <2>3. NoGc(timers) /\ entry.status # "none"
    BY <2>1 DEF EntryInv, CleanupAfterExit, NoEntryNoProcess
  <2>4. OneGc(timers') /\ NoGc(timers')
    BY <1>4, <2>3, WithoutEffect
       DEF ExitEvent, TypeOK, KeptTimers, EntryInv, CleanupAfterExit
  <2>5. entry'.status # "none" /\ entry'.ended
    BY <1>4, <2>3 DEF ExitEvent, TypeOK, Entry
  <2> QED BY <2>1, <2>2, <2>4, <2>5
          DEF EntryInv, CleanupAfterExit, NoEntryNoProcess, ExitInHand, EndedHasExited
<1>5. ASSUME ExitHandled PROVE EntryInv'
  <2>1. /\ child # 0 /\ procs[child].seen /\ NoGc(timers) /\ entry.ended
        /\ entry.status # "none"
    BY <1>5, ExitHandledStep DEF EntryInv, ExitInHand
  <2>2. child \in Proc /\ child' = child /\ procs[child].life = "dead"
    BY <1>5, <2>1, ChildIsProc, ExitHandledStep DEF TypeOK, ProcessInv, ChildIsBorn
  <2>3. procs'[child].seen /\ procs'[child].life = "dead"
    BY <1>5, <2>1, <2>2, ExitHandledStep DEF Quiet
  <2>4. entry'.ended /\ entry'.status # "none"
    BY <1>5, <2>1, ExitHandledStep DEF ExitStatus, TypeOK, Entry
  <2>5. OneGc(timers') /\ turn'.doing # "exit"
    BY <1>5, <2>1, ExitHandledStep DEF NoTurn
  <2> QED BY <2>1, <2>2, <2>3, <2>4, <2>5
          DEF EntryInv, CleanupAfterExit, NoEntryNoProcess, ExitInHand, EndedHasExited
<1>6. ASSUME Consume PROVE EntryInv'
  <2>1. Handled /\ child' = child /\ (turn'.doing = "exit" => turn.doing = "exit")
    BY <1>6, ConsumeStep DEF TypeOK, Turn
  <2>2. \/ entry' = entry
        \/ /\ EntryActive(entry)
           /\ entry' = [status |-> "running", ended |-> entry.ended]
        \/ entry' = [status |-> "completed", ended |-> TRUE]
        \/ entry' = [status |-> "failed", ended |-> TRUE]
    BY <1>6, ConsumeStep
  <2> QED BY <2>1, <2>2, QuietKeepsEntryInv DEF EntryActive, TypeOK, Entry
<1>7. ASSUME ZombieFound PROVE EntryInv'
  BY <1>7, ZombieStep, QuietKeepsEntryInv DEF EntryActive
<1>8. ASSUME Watchdog PROVE EntryInv'
  BY <1>8, WatchdogStep, QuietKeepsEntryInv DEF EntryActive
<1>9. ASSUME SpawnTimeout PROVE EntryInv'
  BY <1>9, SpawnTimeoutStep, QuietKeepsEntryInv DEF EntryActive
<1>10. ASSUME SpawnRejected PROVE EntryInv'
  BY <1>10, SpawnRejectedStep, QuietKeepsEntryInv
<1>11. ASSUME StopAgent PROVE EntryInv'
  BY <1>11, StopAgentStep, QuietKeepsEntryInv
<1>12. ASSUME StopAll PROVE EntryInv'
  BY <1>12, StopAllStep, QuietKeepsEntryInv
<1>13. ASSUME ChannelError PROVE EntryInv'
  BY <1>13, ChannelErrorStep, QuietKeepsEntryInv DEF EntryActive
<1>14. ASSUME KillTimer PROVE EntryInv'
  <2>1. Quiet(procs, procs') /\ UNCHANGED <<child, entry, turn>>
    BY <1>14, SignalledEffect, UnchangedIsQuiet DEF KillTimer, TypeOK
  <2>2. KeptTimers(timers, timers')
    <3>1. timers \in Seq(Timers) /\ timers # << >> /\ timers' = Tail(timers)
      BY <1>14 DEF KillTimer, TypeOK
    <3> QED BY <3>1, TailTimers
  <2>3. child # 0 => child \in Proc
    BY ChildIsProc DEF TypeOK
  <2> QED BY <2>1, <2>2, <2>3, KeepsEntryInv DEF Quiet
<1>15. ASSUME CleanupTimer PROVE EntryInv'
  <2>1. /\ timers # << >> /\ Head(timers) = "gc" /\ timers' = Tail(timers)
        /\ turn.doing # "exit" /\ entry' = NoEntry /\ UNCHANGED <<procs, child, turn>>
    BY <1>15 DEF CleanupTimer, TimersRun, Idle, NoTurn
  <2>2. timers \in Seq(Timers)
    BY DEF TypeOK
  <2>3. ~NoGc(timers) /\ NoGc(timers') /\ OneGc(timers')
    BY <2>1, <2>2, TailTimers DEF EntryInv, CleanupAfterExit, KeptTimers
  <2>4. child # 0 /\ procs[child].seen
    BY <2>3 DEF EntryInv, CleanupAfterExit
  <2> QED BY <2>1, <2>3, <2>4
          DEF EntryInv, CleanupAfterExit, NoEntryNoProcess, ExitInHand,
              EndedHasExited, NoEntry, EntryActive
<1>16. ASSUME SpawnWorker PROVE EntryInv'
  <2>1. NoGc(timers') /\ OneGc(timers')
    <3>1. CASE entry.status = "none"
      BY <1>16, <3>1 DEF SpawnWorker, EntryInv, NoEntryNoProcess, CleanupAfterExit
    <3>2. CASE entry.status # "none"
      <4>1. timers' = << >> /\ Len(timers') = 0
        BY <1>16, <3>2, EmptySeq DEF SpawnWorker
      <4> QED BY <4>1 DEF NoGc, OneGc
    <3> QED BY <3>1, <3>2
  <2>2. entry'.status = "starting" /\ ~entry'.ended /\ turn'.doing # "exit"
    BY <1>16 DEF SpawnWorker, Idle, NoTurn
  <2> QED BY <2>1, <2>2
          DEF EntryInv, CleanupAfterExit, NoEntryNoProcess, ExitInHand, EndedHasExited
<1>17. ASSUME DrainBegins \/ DrainEnds PROVE EntryInv'
  BY <1>17, <1>1 DEF DrainBegins, DrainEnds, NoTurn
<1> QED
  BY <1>1, <1>2, <1>3, <1>4, <1>5, <1>6, <1>7, <1>8, <1>9, <1>10, <1>11, <1>12,
     <1>13, <1>14, <1>15, <1>16, <1>17
     DEF Next, Processes, EventLoop, TimerPhase, Starting, Commands, vars, Chat,
         ReceiveMessage, AwaitTimeout,
         Register, RespawnBegins, RespawnResets, SpawnRefused, SpawnResolved

\* An agent that is stopped needs no watcher.
LEMMA StoppedKeepsAgentInv ==
  ASSUME agent'.status = "stopped"
  PROVE  AgentInv'
BY DEF AgentInv, UnknownIsIdle, ActiveIsFresh, Watched, AgentActive

LEMMA StepAgentInv ==
  ASSUME TypeOK, EntryInv, AgentInv, [Next]_vars
  PROVE  AgentInv'
<1>1. ASSUME UNCHANGED <<agent, call, entry>>,
             turn.doing = "exit" => turn'.doing = "exit"
      PROVE  AgentInv'
  BY <1>1 DEF AgentInv, UnknownIsIdle, ActiveIsFresh, Watched, AgentActive
<1>2. ASSUME UNCHANGED agent, agent.status # "none",
             call'.at \notin {"none", "resolved"}
      PROVE  AgentInv'
  BY <1>2 DEF AgentInv, UnknownIsIdle, ActiveIsFresh, Watched, AgentActive
<1>3. call.at # "none" => agent.status # "none"
  BY DEF AgentInv, UnknownIsIdle
<1>4. ASSUME Consume PROVE AgentInv'
  <2>1. turn'.doing = turn.doing
    BY <1>4, ConsumeStep DEF TypeOK, Turn
  <2>2. \/ UNCHANGED <<agent, call, entry>>
        \/ /\ entry'.status = "running"
           /\ ~AgentActive(agent) => UNCHANGED <<agent, call>>
           /\ AgentActive(agent) =>
                /\ agent'.status = "running" /\ agent'.exit = agent.exit
                /\ agent'.barrier = agent.barrier
        \/ /\ call' = call /\ ~AgentActive(agent) /\ UNCHANGED agent
        \/ agent'.status = "stopped"
    BY <1>4, ConsumeStep DEF AgentEnds
  <2> QED BY <1>1, <2>1, <2>2, StoppedKeepsAgentInv
          DEF AgentInv, UnknownIsIdle, ActiveIsFresh, Watched, AgentActive
<1>5. ASSUME ExitEvent PROVE AgentInv'
  <2>1. /\ UNCHANGED <<agent, call>> /\ entry'.status = entry.status
        /\ turn'.doing = "exit"
    BY <1>5 DEF ExitEvent, TypeOK, Entry
  <2> QED BY <2>1 DEF AgentInv, UnknownIsIdle, ActiveIsFresh, Watched, AgentActive
<1>6. ASSUME ExitHandled PROVE AgentInv'
  <2>1. /\ AfterExit(entry'.status) /\ entry' = ExitStatus(entry, procs[child].code)
        /\ call.at \in CallStates
    BY <1>6, ExitHandledStep DEF TypeOK, Call, CallStates
  <2>2. CASE agent' # agent
    BY <2>1, <2>2, StoppedKeepsAgentInv DEF AfterExit, AgentEnds
  <2>3. CASE agent' = agent /\ AgentActive(agent)
    <3>1. /\ agent.barrier = 0 /\ agent.exit = "none"
          /\ entry'.status \notin {"crashed", "timeout", "terminated", "failed"}
      BY <2>1, <2>3 DEF AgentInv, ActiveIsFresh, AfterExit
    <3>2. \/ entry' = entry
          \/ entry'.status \in {"terminated", "crashed"}
      BY <2>1 DEF ExitStatus, TypeOK, Entry
    <3>3. call'.at \in {"none", "resolved"} => call'.at = call.at
      BY <2>1 DEF AfterExit, CallStates
    <3> QED BY <2>3, <3>1, <3>2, <3>3
            DEF AgentInv, UnknownIsIdle, ActiveIsFresh, Watched, AgentActive
  <2>4. CASE agent' = agent /\ ~AgentActive(agent)
    <3>1. call.at = "none" => call'.at = "none"
      BY <2>1 DEF AfterExit
    <3> QED BY <2>4, <3>1
            DEF AgentInv, UnknownIsIdle, ActiveIsFresh, Watched, AgentActive
  <2> QED BY <2>2, <2>3, <2>4
<1>7. ASSUME ZombieFound PROVE AgentInv'
  <2>1. AfterExit("crashed")
    BY <1>7, ZombieStep
  <2>2. CASE agent' # agent
    BY <2>1, <2>2, StoppedKeepsAgentInv DEF AfterExit, AgentEnds
  <2>3. CASE agent' = agent
    <3>1. ~AgentActive(agent)
      BY <2>1, <2>3 DEF AgentInv, ActiveIsFresh, AfterExit
    <3>2. call.at = "none" => call'.at = "none"
      BY <2>1 DEF AfterExit
    <3> QED BY <2>3, <3>1, <3>2
            DEF AgentInv, UnknownIsIdle, ActiveIsFresh, Watched, AgentActive
  <2> QED BY <2>2, <2>3
<1>8. ASSUME Watchdog PROVE AgentInv'
  <2>1. /\ call' = call
        /\ agent.barrier # 0 \/ agent.exit = "completed" => agent' = agent
        /\ agent.barrier = 0 /\ agent.exit # "completed" => agent'.status = "stopped"
    BY <1>8, WatchdogStep DEF AgentEnds
  <2>2. CASE agent.barrier = 0 /\ agent.exit # "completed"
    BY <2>1, <2>2, StoppedKeepsAgentInv
  <2>3. CASE ~(agent.barrier = 0 /\ agent.exit # "completed")
    BY <2>1, <2>3 DEF AgentInv, UnknownIsIdle, ActiveIsFresh, Watched, AgentActive
  <2> QED BY <2>2, <2>3
<1>9. ASSUME SpawnTimeout PROVE AgentInv'
  <2>1. /\ call.at = "waiting" /\ call'.at = "rejected"
        /\ agent' = agent \/ agent'.status = "stopped"
    BY <1>9, SpawnTimeoutStep DEF AgentEnds
  <2> QED BY <2>1, <1>2, <1>3, StoppedKeepsAgentInv
<1>10. ASSUME AwaitTimeout PROVE AgentInv'
  <2>1. call.at = "await_exit" /\ call'.at = "loading" /\ agent' = agent
    BY <1>10 DEF AwaitTimeout, TypeOK, Call
  <2> QED BY <2>1, <1>2, <1>3
<1>11. ASSUME CleanupTimer PROVE AgentInv'
  <2>1. /\ timers # << >> /\ Head(timers) = "gc" /\ timers \in Seq(Timers)
        /\ turn = NoTurn /\ call.at # "resolved" /\ entry.status # "running"
        /\ UNCHANGED <<agent, call>>
    BY <1>11 DEF CleanupTimer, TimersRun, Idle, TypeOK
  <2>2. entry.ended
    BY <2>1, TailTimers DEF EntryInv, CleanupAfterExit
  <2> QED BY <2>1, <2>2
          DEF AgentInv, UnknownIsIdle, ActiveIsFresh, Watched, AgentActive, NoTurn
<1>12. ASSUME Register \/ RespawnResets PROVE AgentInv'
  <2>1. agent' = NewAgent /\ call'.at = "preparing"
    BY <1>12 DEF Register, RespawnResets, TypeOK, Call
  <2> QED BY <2>1
          DEF AgentInv, UnknownIsIdle, ActiveIsFresh, Watched, AgentActive, NewAgent
<1>13. ASSUME NEW mode \in {"fail", "recover"}, RespawnBegins(mode) PROVE AgentInv'
  BY <1>13, StoppedKeepsAgentInv DEF RespawnBegins
<1>14. ASSUME SpawnRefused \/ SpawnWorker PROVE AgentInv'
  <2>1. /\ call.at = "preparing" /\ call'.at \in {"rejected", "waiting"}
        /\ agent' = agent
    BY <1>14 DEF SpawnRefused, SpawnWorker, TypeOK, Call
  <2> QED BY <2>1, <1>2, <1>3
<1>15. ASSUME SpawnResolved PROVE AgentInv'
  <2>1. /\ call.at = "resolved" /\ call' = NoCall /\ UNCHANGED <<entry, turn>>
        /\ agent'.status = IF agent.status = "stopped" THEN "stopped" ELSE "running"
        /\ agent'.exit = agent.exit /\ agent'.barrier = agent.barrier
    BY <1>15 DEF SpawnResolved, TypeOK, Agent
  <2>2. agent.status \in {"starting", "running", "stopped"}
    BY <2>1, <1>3 DEF TypeOK, Agent
  <2> QED BY <2>1, <2>2, StoppedKeepsAgentInv
          DEF AgentInv, UnknownIsIdle, ActiveIsFresh, Watched, AgentActive
<1>16. ASSUME SpawnRejected PROVE AgentInv'
  BY <1>16, SpawnRejectedStep, StoppedKeepsAgentInv DEF AgentEnds
<1>17. ASSUME StopAgent PROVE AgentInv'
  BY <1>17, StopAgentStep, StoppedKeepsAgentInv DEF AgentEnds
<1>18. ASSUME StopAll PROVE AgentInv'
  <2>1. /\ UNCHANGED <<entry, call, turn>>
        /\ AgentActive(agent) => agent'.status = "stopped"
        /\ ~AgentActive(agent) => agent' = agent
    BY <1>18, StopAllStep DEF AgentEnds
  <2> QED BY <2>1, <1>1, StoppedKeepsAgentInv
<1>19. ASSUME ChannelError PROVE AgentInv'
  <2>1. /\ turn' = NoTurn /\ call.at # "resolved" /\ agent' = agent
        /\ entry' = [status |-> "failed", ended |-> entry.ended]
        /\ EntryActive(entry) /\ procs[child].life = "up"
        /\ call'.at = IF call.at = "waiting" THEN "rejected" ELSE call.at
    BY <1>19, ChannelErrorStep DEF Idle
  <2>2. ~entry'.ended
    BY <2>1 DEF EntryInv, EndedHasExited
  <2>3. ~AgentActive(agent) \/ entry'.status = "failed"
    BY <2>1
  <2> QED BY <2>1, <2>2
          DEF AgentInv, UnknownIsIdle, ActiveIsFresh, Watched, AgentActive
<1>20. ASSUME SayStarted \/ Chat \/ KillTimer \/ ReceiveMessage \/ UNCHANGED vars
              \/ (\E kind \in {"complete", "failed"}, arrives \in BOOLEAN :
                    SayEnd(kind, arrives))
              \/ (\E p \in Proc, code \in {"zero", "crash", "sigterm"} : Die(p, code))
       PROVE  AgentInv'
  BY <1>20, <1>1 DEF SayStarted, Chat, KillTimer, ReceiveMessage, vars, SayEnd, Die
<1>21. ASSUME DrainBegins \/ DrainEnds PROVE AgentInv'
  BY <1>21, <1>1 DEF DrainBegins, DrainEnds, Idle, NoTurn
<1> QED
  BY <1>4, <1>5, <1>6, <1>7, <1>8, <1>9, <1>10, <1>11, <1>12, <1>13, <1>14, <1>15,
     <1>16, <1>17, <1>18, <1>19, <1>20, <1>21
     DEF Next, Processes, EventLoop, TimerPhase, Starting, Commands

\* The child processes, the entry, the handle and the call keep their types,
\* and the back-pressure of the queue keeps its bound.
THEOREM TypeCorrect == Spec => []TypeOK
BY InitTypeOK, StepTypeOK, PTL DEF Spec

WorkerInv == TypeOK /\ ProcessInv /\ EntryInv /\ AgentInv

LEMMA WorkerInvHolds == Spec => []WorkerInv
<1>1. Init => WorkerInv
  BY InitTypeOK, InitParts DEF WorkerInv
<1>2. WorkerInv /\ [Next]_vars => WorkerInv'
  BY StepTypeOK, StepProcessInv, StepEntryInv, StepAgentInv DEF WorkerInv
<1> QED BY <1>1, <1>2, PTL DEF Spec

\* spawnWorker never leaves two processes of a name to work side by side,
\* however often the name is started again and whatever timer or exit is late.
THEOREM OneProcess == Spec => []OneWorkerProcess
<1>1. WorkerInv => OneWorkerProcess
  BY DEF WorkerInv, ProcessInv
<1> QED BY <1>1, WorkerInvHolds, PTL

\* An agent that is not stopped is never left without anybody who will report
\* its end; after an error of the channel it is only its exit.
THEOREM ActiveWatched == Spec => []ActiveIsWatched
<1>1. WorkerInv => ActiveIsWatched
  BY DEF WorkerInv, AgentInv, Watched, ActiveIsWatched, ChannelLost
<1> QED BY <1>1, WorkerInvHolds, PTL

-----------------------------------------------------------------------------
(* The way of the messages *)

LEMMA AppendView ==
  ASSUME NEW s \in Seq(Msg), NEW m \in Msg
  PROVE  /\ \A i \in 1..Len(s) : i \in 1..Len(Append(s, m)) /\ Append(s, m)[i] = s[i]
         /\ \A i \in 1..Len(Append(s, m)) : i \in 1..Len(s) \/ i = Len(s) + 1
         /\ Len(s) + 1 \in 1..Len(Append(s, m)) /\ Append(s, m)[Len(s) + 1] = m
         /\ \A i \in 1..Len(s) : i \in 1..Len(s) + 1
<1>1. PICK l \in Nat : l = Len(s)
  BY LenProperties
<1>2. /\ Len(Append(s, m)) = l + 1 /\ Append(s, m)[l + 1] = m
      /\ \A i \in 1..l : Append(s, m)[i] = s[i]
  BY <1>1, AppendProperties
<1>3. \A i \in 1..l + 1 : i \in 1..l \/ i = l + 1
  BY <1>1
<1>4. l + 1 \in 1..l + 1 /\ \A i \in 1..l : i \in 1..l + 1
  BY <1>1
<1> QED BY <1>1, <1>2, <1>3, <1>4

\* t is s without its first element.
Rest(s, t) ==
  /\ \A i \in 1..Len(t) : i + 1 \in 1..Len(s) /\ t[i] = s[i + 1]
  /\ \A i \in 1..Len(s) : i # 1 => i - 1 \in 1..Len(t) /\ t[i - 1] = s[i]

LEMMA RestOf ==
  ASSUME NEW s \in Seq(Msg), NEW t, s # << >>, Len(t) = Len(s) - 1,
         \A i \in 1..Len(t) : t[i] = s[i + 1]
  PROVE  Rest(s, t) /\ 1 \in 1..Len(s)
<1>1. PICK l \in Nat \ {0} : l = Len(s)
  BY EmptySeq
<1>2. /\ \A i \in 1..l - 1 : i + 1 \in 1..l
      /\ \A i \in 1..l : i # 1 => i - 1 \in 1..l - 1 /\ (i - 1) + 1 = i
      /\ 1 \in 1..l
  BY <1>1
<1> QED BY <1>1, <1>2 DEF Rest

\* The ways in which a step touches the pipe and the queue.
Sends ==
  \E kind \in Kinds :
    /\ child # 0 /\ child' = child /\ queue' = queue
    /\ [kind |-> kind, from |-> child] \in Msg
    /\ \/ pipe' = Append(pipe, [kind |-> kind, from |-> child])
       \/ pipe' = pipe /\ kind \in {"complete", "failed"}
    /\ kind = "started" =>
         procs[child].said = "nothing" /\ procs'[child].said = "started"
    /\ kind \in {"complete", "failed"} =>
         procs[child].said = "started" /\ procs'[child].said = "ended"
    /\ kind \notin {"started", "complete", "failed"} =>
         procs'[child].said = procs[child].said

Receives ==
  /\ pipe # << >> /\ pipe' = Tail(pipe) /\ queue' = Push(queue, Head(pipe))
  /\ UNCHANGED <<child, procs>>

\* What is left of the queue is what was in it.
Shifts ==
  /\ UNCHANGED <<child, pipe>> /\ Backlog(queue) > 0 /\ queue' = Shifted(queue)
  /\ child # 0 => procs'[child].said = procs[child].said

Spawns ==
  /\ child' = child + 1 /\ child' # 0 /\ pipe' = << >> /\ queue' = queue
  /\ procs'[child'].said = "nothing"

Passes ==
  /\ UNCHANGED <<child, pipe, queue>>
  /\ child # 0 => procs'[child].said = procs[child].said

LEMMA QuietPasses ==
  ASSUME TypeOK, Quiet(procs, procs'), UNCHANGED <<child, pipe, queue>>
  PROVE  Passes
BY ChildIsProc DEF TypeOK, Quiet, Passes

LEMMA ConsumeShifts ==
  ASSUME TypeOK, Consume
  PROVE  Shifts
<1>1. /\ Handled /\ Backlog(queue) > 0 /\ queue' = Shifted(queue)
      /\ UNCHANGED <<child, pipe>>
  BY ConsumeStep
<1>2. child # 0 => procs'[child].said = procs[child].said
  BY <1>1, ChildIsProc DEF TypeOK, Handled, Quiet
<1> QED BY <1>1, <1>2 DEF Shifts

LEMMA Traffic ==
  ASSUME TypeOK, ProcessInv, [Next]_vars
  PROVE  Passes \/ Sends \/ Receives \/ (Shifts /\ Consume) \/ Spawns
<1>1. ASSUME SayStarted PROVE Sends
  <2>1. /\ child \in Proc /\ child # 0 /\ "started" \in Kinds /\ Send("started")
        /\ procs[child].said = "nothing" /\ UNCHANGED <<child, queue>>
    BY <1>1, ChildIsProc DEF SayStarted, Speaks, TypeOK, Kinds
  <2>2. procs'[child].said = "started"
    BY <1>1, <2>1 DEF SayStarted, TypeOK, Process
  <2> QED BY <2>1, <2>2, SendTypes DEF Sends
<1>2. ASSUME Chat PROVE Sends
  <2>1. /\ child \in Proc /\ child # 0 /\ "beat" \in Kinds /\ Send("beat")
        /\ UNCHANGED <<procs, child, queue>>
    BY <1>2, ChildIsProc DEF Chat, Speaks, TypeOK, Kinds
  <2> QED BY <2>1, SendTypes DEF Sends
<1>3. ASSUME NEW kind \in {"complete", "failed"}, NEW arrives \in BOOLEAN,
             SayEnd(kind, arrives)
      PROVE  Sends
  <2>1. /\ child \in Proc /\ child # 0 /\ kind \in Kinds
        /\ Send(kind) \/ pipe' = pipe
        /\ procs[child].said = "started" /\ UNCHANGED <<child, queue>>
    BY <1>3, ChildIsProc DEF SayEnd, Speaks, TypeOK, Kinds
  <2>2. procs'[child].said = "ended"
    BY <1>3, <2>1 DEF SayEnd, TypeOK, Process
  <2>3. [kind |-> kind, from |-> child] \in Msg
    BY <2>1 DEF Msg
  <2> QED BY <2>1, <2>2, <2>3 DEF Sends, Send
<1>4. ASSUME ReceiveMessage PROVE Receives
  BY <1>4 DEF ReceiveMessage, Receives
<1>5. ASSUME Consume PROVE Shifts
  BY <1>5, ConsumeShifts
<1>6. ASSUME SpawnWorker PROVE Spawns
  <2>1. child' = child + 1 /\ child' # 0 /\ procs'[child'].said = "nothing"
    BY <1>6, SpawnedEffect DEF Proc
  <2> QED BY <1>6, <2>1 DEF SpawnWorker, Spawns
<1>7. ASSUME NEW p \in Proc, NEW code \in {"zero", "crash", "sigterm"}, Die(p, code)
      PROVE  Passes
  <2>1. \A q \in Proc : procs'[q].said = procs[q].said
    <3>1. procs[p] \in Process
      BY DEF TypeOK
    <3>2. procs' = [procs EXCEPT ![p] = [procs[p] EXCEPT !.life = "dead", !.code = code]]
      BY <1>7, <3>1 DEF Die, TypeOK, Process
    <3> QED BY <3>1, <3>2 DEF TypeOK, Process
  <2> QED BY <1>7, <2>1, ChildIsProc DEF Die, TypeOK, Passes
<1>8. ASSUME ExitEvent PROVE Passes
  <2>1. child \in Proc /\ UNCHANGED <<child, pipe, queue>>
    BY <1>8, ChildIsProc DEF ExitEvent, TypeOK
  <2>2. procs'[child].said = procs[child].said
    BY <1>8, <2>1 DEF ExitEvent, TypeOK, Process
  <2> QED BY <2>1, <2>2 DEF Passes
<1>9. ASSUME ExitHandled \/ ZombieFound \/ Watchdog \/ SpawnTimeout \/ SpawnRejected
             \/ StopAgent \/ StopAll \/ ChannelError
      PROVE  Passes
  <2>1. Quiet(procs, procs') /\ UNCHANGED <<child, pipe, queue>>
    BY <1>9, ExitHandledStep, ZombieStep, WatchdogStep, SpawnTimeoutStep,
       SpawnRejectedStep, StopAgentStep, StopAllStep, ChannelErrorStep DEF Handled
  <2> QED BY <2>1, QuietPasses
<1>10. ASSUME KillTimer PROVE Passes
  <2>1. Quiet(procs, procs') /\ UNCHANGED <<child, pipe, queue>>
    BY <1>10, SignalledEffect, UnchangedIsQuiet DEF KillTimer, TypeOK
  <2> QED BY <2>1, QuietPasses
<1>11. ASSUME UNCHANGED <<procs, child, pipe, queue>> PROVE Passes
  BY <1>11 DEF Passes
<1> QED
  BY <1>1, <1>2, <1>3, <1>4, <1>5, <1>6, <1>7, <1>8, <1>9, <1>10, <1>11
     DEF Next, Processes, EventLoop, TimerPhase, Starting, Commands, vars,
         DrainBegins, DrainEnds, AwaitTimeout, CleanupTimer,
         Register, RespawnBegins, RespawnResets, SpawnRefused, SpawnResolved

\* What a reception does to the first tier and to the pipe.
LEMMA ReceivesEffect ==
  ASSUME TypeOK, Receives
  PROVE  /\ Head(pipe) \in Msg /\ Head(pipe) = pipe[1] /\ 1 \in 1..Len(pipe)
         /\ Rest(pipe, pipe')
         /\ queue'["p0"] = IF Tier(Head(pipe).kind) = "p0"
                           THEN Append(queue["p0"], Head(pipe)) ELSE queue["p0"]
         /\ queue["p0"] \in Seq(Msg)
         /\ \A c \in Tiers : \A i \in 1..Len(queue'[c]) :
              \/ queue'[c][i] = Head(pipe) /\ c = Tier(Head(pipe).kind)
              \/ \E j \in 1..Len(queue[c]) : queue'[c][i] = queue[c][j]
<1>1. pipe \in Seq(Msg) /\ pipe # << >> /\ pipe' = Tail(pipe)
  BY DEF TypeOK, Receives
<1>2. /\ Head(pipe) \in Msg /\ Head(pipe) = pipe[1]
      /\ Len(pipe') = Len(pipe) - 1 /\ \A i \in 1..Len(pipe') : pipe'[i] = pipe[i + 1]
  BY <1>1, HeadTailProperties
<1>3. Rest(pipe, pipe') /\ 1 \in 1..Len(pipe)
  BY <1>1, <1>2, RestOf
<1>4. queue' = Push(queue, Head(pipe)) /\ queue \in [Tiers -> Seq(Msg)]
  BY DEF Receives, TypeOK
<1>5. queue["p0"] \in Seq(Msg)
  BY <1>4 DEF Tiers
<1> QED BY <1>2, <1>3, <1>4, <1>5, PushEffect

\* What a message that is taken leaves in the first tier.
LEMMA ShiftsEffect ==
  ASSUME TypeOK, TiersSorted, Shifts
  PROVE  /\ Within(queue', queue) /\ Next1(queue) \in Msg
         /\ \E c \in Tiers : 1 \in 1..Len(queue[c]) /\ Next1(queue) = queue[c][1]
         /\ \/ /\ queue["p0"] # << >> /\ Rest(queue["p0"], queue'["p0"])
               /\ Len(queue'["p0"]) = Len(queue["p0"]) - 1
               /\ 1 \in 1..Len(queue["p0"]) /\ Next1(queue) = queue["p0"][1]
               /\ Tier(Next1(queue).kind) = "p0"
            \/ /\ queue["p0"] = << >> /\ queue'["p0"] = << >>
               /\ Tier(Next1(queue).kind) # "p0"
<1> DEFINE t == First(queue)
<1>1. /\ queue \in [Tiers -> Seq(Msg)] /\ queue["p0"] \in Seq(Msg)
      /\ Backlog(queue) > 0 /\ queue' = Shifted(queue)
  BY DEF TypeOK, Tiers, Shifts
<1>2. /\ t \in Tiers /\ 1 \in 1..Len(queue[t]) /\ Next1(queue) = queue[t][1]
      /\ Next1(queue) \in Msg /\ Within(queue', queue)
      /\ queue["p0"] # << >> =>
           /\ t = "p0" /\ Len(queue'["p0"]) = Len(queue["p0"]) - 1
           /\ \A i \in 1..Len(queue'["p0"]) : queue'["p0"][i] = queue["p0"][i + 1]
      /\ queue["p0"] = << >> => t # "p0" /\ queue'["p0"] = << >>
  BY <1>1, ShiftEffect
<1> HIDE DEF t
<1>3. Tier(Next1(queue).kind) = t
  BY <1>2 DEF TiersSorted
<1>4. queue["p0"] # << >> => Rest(queue["p0"], queue'["p0"])
  BY <1>1, <1>2, RestOf
<1> QED BY <1>2, <1>3, <1>4

-----------------------------------------------------------------------------
(* A completion is final *)

LEMMA InitCompletion == Init => CompletionInv
<1> SUFFICES ASSUME Init PROVE CompletionInv
  OBVIOUS
<1>1. Len(pipe) = 0 /\ \A c \in Tiers : Len(queue[c]) = 0
  BY EmptySeq DEF Init, EmptyQueue
<1>2. child = 0 /\ call.at = "none" /\ agent.barrier = 0 /\ agent.exit = "none"
  BY DEF Init, NoCall, NewAgent
<1>3. FromTheStarted /\ TiersSorted
  BY <1>1 DEF FromTheStarted, TiersSorted
<1> QED BY <1>2, <1>3
        DEF CompletionInv, StartAhead, AwaitsStart, BarrierIsStarted,
            CompletedIsOver, RejectedAtRest

LEMMA StepFromTheStarted ==
  ASSUME TypeOK, ProcessInv, TiersSorted, FromTheStarted, [Next]_vars
  PROVE  FromTheStarted'
<1>1. CASE Passes
  BY <1>1 DEF Passes, FromTheStarted
<1>2. CASE Sends
  <2>1. PICK kind \in Kinds :
          /\ child # 0 /\ child' = child /\ queue' = queue
          /\ [kind |-> kind, from |-> child] \in Msg
          /\ pipe' = Append(pipe, [kind |-> kind, from |-> child]) \/ pipe' = pipe
    BY <1>2 DEF Sends
  <2>2. child \in 1..child /\ pipe \in Seq(Msg)
    BY <2>1 DEF TypeOK
  <2>3. \A i \in 1..Len(pipe') : pipe'[i].from \in 1..child
    <3>1. CASE pipe' = pipe
      BY <3>1 DEF FromTheStarted
    <3>2. CASE pipe' = Append(pipe, [kind |-> kind, from |-> child])
      BY <2>1, <2>2, <3>2, AppendView DEF FromTheStarted
    <3> QED BY <2>1, <3>1, <3>2
  <2> QED BY <2>1, <2>3 DEF FromTheStarted
<1>3. CASE Receives
  <2>1. child' = child
    BY <1>3 DEF Receives
  <2> QED BY <1>3, <2>1, ReceivesEffect DEF FromTheStarted, Rest
<1>4. CASE Shifts
  <2>1. UNCHANGED <<child, pipe>>
    BY <1>4 DEF Shifts
  <2> QED BY <1>4, <2>1, ShiftsEffect DEF FromTheStarted, Within
<1>5. CASE Spawns
  <2>1. child' = child + 1 /\ Len(pipe') = 0 /\ queue' = queue
    BY <1>5, EmptySeq DEF Spawns
  <2>2. \A n \in 1..child : n \in 1..child + 1
    BY DEF TypeOK
  <2> QED BY <2>1, <2>2 DEF FromTheStarted
<1> QED BY <1>1, <1>2, <1>3, <1>4, <1>5, Traffic

LEMMA StepTiersSorted ==
  ASSUME TypeOK, ProcessInv, TiersSorted, [Next]_vars
  PROVE  TiersSorted'
<1>1. CASE queue' = queue
  BY <1>1 DEF TiersSorted
<1>2. CASE Receives
  BY <1>2, ReceivesEffect DEF TiersSorted
<1>3. CASE Shifts
  BY <1>3, ShiftsEffect DEF TiersSorted, Within
<1> QED BY <1>1, <1>2, <1>3, Traffic DEF Passes, Sends, Spawns

\* Only spawnWorker begins the wait for a start.
LEMMA AwaitedBefore ==
  ASSUME TypeOK, [Next]_vars, child' = child, AwaitsStart'
  PROVE  AwaitsStart
<1> DEFINE Before == /\ call'.at = "waiting" => call.at = "waiting"
                     /\ AgentActive(agent') => AgentActive(agent) \/ call'.at # "waiting"
                     /\ EntryActive(entry') => EntryActive(entry)
<1>1. ASSUME UNCHANGED <<entry, agent, call>> PROVE Before
  BY <1>1
<1>2. ASSUME Consume PROVE Before
  BY <1>2, ConsumeStep DEF AgentActive, EntryActive, AgentEnds
<1>3. ASSUME ExitEvent PROVE Before
  BY <1>3 DEF ExitEvent, EntryActive, TypeOK, Entry
<1>4. ASSUME ExitHandled PROVE Before
  <2>1. EntryActive(entry') => EntryActive(entry)
    BY <1>4, ExitHandledStep DEF ExitStatus
  <2> QED BY <1>4, <2>1, ExitHandledStep DEF AfterExit, AgentEnds, AgentActive
<1>5. ASSUME ZombieFound PROVE Before
  BY <1>5, ZombieStep DEF AfterExit, AgentEnds, AgentActive, EntryActive
<1>6. ASSUME Watchdog PROVE Before
  <2>1. /\ EntryActive(entry) /\ call' = call
        /\ agent' = agent \/ ~AgentActive(agent')
    BY <1>6, WatchdogStep DEF AgentEnds, AgentActive, EntryActive, TypeOK, Agent
  <2> QED BY <2>1
<1>7. ASSUME SpawnTimeout PROVE Before
  BY <1>7, SpawnTimeoutStep DEF EntryActive
<1>8. ASSUME SpawnRejected PROVE Before
  BY <1>8, SpawnRejectedStep DEF NoCall
<1>9. ASSUME StopAgent PROVE Before
  BY <1>9, StopAgentStep DEF AgentEnds, AgentActive
<1>10. ASSUME StopAll PROVE Before
  BY <1>10, StopAllStep DEF AgentEnds, AgentActive
<1>11. ASSUME ChannelError PROVE Before
  BY <1>11, ChannelErrorStep DEF EntryActive
<1>12. ASSUME AwaitTimeout \/ Register \/ RespawnResets \/ SpawnRefused \/ SpawnResolved
              \/ \E mode \in {"fail", "recover"} : RespawnBegins(mode)
       PROVE  Before
  <2>1. call'.at # "waiting" /\ entry' = entry
    BY <1>12 DEF AwaitTimeout, Register, RespawnResets, SpawnRefused, SpawnResolved,
                 RespawnBegins, NoCall, TypeOK, Call
  <2> QED BY <2>1
<1>13. ASSUME CleanupTimer PROVE Before
  BY <1>13 DEF CleanupTimer, NoEntry, EntryActive
<1>14. ~SpawnWorker
  BY DEF SpawnWorker, TypeOK
<1>15. Before
  BY <1>1, <1>2, <1>3, <1>4, <1>5, <1>6, <1>7, <1>8, <1>9, <1>10, <1>11, <1>12,
     <1>13, <1>14
     DEF Next, Processes, EventLoop, TimerPhase, Starting, Commands, vars, SayStarted,
         Chat, SayEnd, Die, ReceiveMessage, DrainBegins, DrainEnds, KillTimer
<1> QED BY <1>15 DEF AwaitsStart

\* While a start is awaited, nothing of the first tier is consumed.
LEMMA AwaitedIsNotConsumed ==
  ASSUME TypeOK, TiersSorted, Shifts, Consume, AwaitsStart, AwaitsStart'
  PROVE  queue["p0"] = << >> /\ queue'["p0"] = << >>
<1>1. Tier(Next1(queue).kind) # "p0"
  BY ConsumeStep DEF AwaitsStart, EntryActive, AgentActive
<1> QED BY <1>1, ShiftsEffect

LEMMA StepStartAhead ==
  ASSUME TypeOK, ProcessInv, FromTheStarted, TiersSorted, StartAhead, [Next]_vars
  PROVE  StartAhead'
<1> SUFFICES ASSUME AwaitsStart'
             PROVE  /\ procs'[child'].said # "nothing" =>
                         StartIsUnread' \/ \E j \in 1..Len(pipe') : Starts(pipe[j])'
                    /\ \A i \in 1..Len(queue'["p0"]) :
                         Completes(queue["p0"][i])' =>
                           \E j \in 1..i : Starts(queue["p0"][j])'
                    /\ \A i \in 1..Len(pipe') :
                         Completes(pipe[i])' =>
                           StartIsUnread' \/ \E j \in 1..i : Starts(pipe[j])'
  BY DEF StartAhead
<1> DEFINE a == queue["p0"]
           S(m) == m = [kind |-> "started", from |-> child]
           C(m) == m = [kind |-> "complete", from |-> child]
           SIU == \E j \in 1..Len(a) : S(a[j])
<1>0. ASSUME child' = child
      PROVE  /\ procs[child].said # "nothing" =>
                  SIU \/ \E j \in 1..Len(pipe) : S(pipe[j])
             /\ \A i \in 1..Len(a) : C(a[i]) => \E j \in 1..i : S(a[j])
             /\ \A i \in 1..Len(pipe) : C(pipe[i]) => SIU \/ \E j \in 1..i : S(pipe[j])
  BY <1>0, AwaitedBefore DEF StartAhead, StartIsUnread, Starts, Completes
<1>1. CASE Passes
  <2>1. UNCHANGED <<child, pipe, queue>> /\ child # 0
        /\ procs'[child].said = procs[child].said
    BY <1>1 DEF Passes, AwaitsStart
  <2> QED BY <2>1, <1>0 DEF Starts, Completes, StartIsUnread
<1>2. CASE Sends
  <2>1. PICK kind \in Kinds :
          /\ child' = child /\ queue' = queue
          /\ [kind |-> kind, from |-> child] \in Msg
          /\ \/ pipe' = Append(pipe, [kind |-> kind, from |-> child])
             \/ pipe' = pipe /\ kind \in {"complete", "failed"}
          /\ kind = "started" =>
               procs[child].said = "nothing" /\ procs'[child].said = "started"
          /\ kind \in {"complete", "failed"} =>
               procs[child].said = "started" /\ procs'[child].said = "ended"
          /\ kind \notin {"started", "complete", "failed"} =>
               procs'[child].said = procs[child].said
    BY <1>2 DEF Sends
  <2>2. pipe \in Seq(Msg)
    BY DEF TypeOK
  <2>3. CASE pipe' = pipe
    BY <2>1, <2>3, <1>0 DEF Starts, Completes, StartIsUnread
  <2>4. CASE pipe' = Append(pipe, [kind |-> kind, from |-> child])
    <3>1. /\ \A i \in 1..Len(pipe) : i \in 1..Len(pipe') /\ pipe'[i] = pipe[i]
          /\ \A i \in 1..Len(pipe') : i \in 1..Len(pipe) \/ i = Len(pipe) + 1
          /\ Len(pipe) + 1 \in 1..Len(pipe')
          /\ pipe'[Len(pipe) + 1] = [kind |-> kind, from |-> child]
          /\ \A i \in 1..Len(pipe) : i \in 1..Len(pipe) + 1
      BY <2>1, <2>2, <2>4, AppendView
    <3>2. procs'[child].said # "nothing" =>
            SIU \/ \E j \in 1..Len(pipe') : S(pipe'[j])
      <4>1. CASE kind = "started"
        BY <3>1, <4>1
      <4>2. CASE kind # "started"
        <5>1. procs'[child].said # "nothing" => procs[child].said # "nothing"
          BY <2>1, <4>2
        <5> QED BY <2>1, <3>1, <5>1, <1>0
      <4> QED BY <4>1, <4>2
    <3>3. \A i \in 1..Len(pipe') :
            C(pipe'[i]) => SIU \/ \E j \in 1..i : S(pipe'[j])
      <4> SUFFICES ASSUME NEW i \in 1..Len(pipe'), C(pipe'[i])
                   PROVE  SIU \/ \E j \in 1..i : S(pipe'[j])
        OBVIOUS
      <4>1. CASE i \in 1..Len(pipe)
        <5>1. \A j \in 1..i : j \in 1..Len(pipe)
          BY <4>1, <2>2, LenProperties
        <5> QED BY <2>1, <3>1, <4>1, <5>1, <1>0
      <4>2. CASE i = Len(pipe) + 1
        <5>1. kind = "complete"
          BY <3>1, <4>2
        <5>2. procs[child].said # "nothing"
          BY <2>1, <5>1
        <5> QED BY <2>1, <3>1, <4>2, <5>2, <1>0
      <4> QED BY <3>1, <4>1, <4>2
    <3> QED BY <2>1, <3>2, <3>3, <1>0 DEF Starts, Completes, StartIsUnread
  <2> QED BY <2>1, <2>3, <2>4
<1>3. CASE Receives
  <2>1. child' = child /\ procs' = procs
    BY <1>3 DEF Receives
  <2> DEFINE h == Head(pipe)
             b == queue'["p0"]
  <2>2. /\ h \in Msg /\ h = pipe[1] /\ 1 \in 1..Len(pipe) /\ Rest(pipe, pipe')
        /\ a \in Seq(Msg) /\ b = IF Tier(h.kind) = "p0" THEN Append(a, h) ELSE a
    BY <1>3, ReceivesEffect
  <2>3. \A j \in 1..Len(a) : j \in 1..Len(b) /\ b[j] = a[j]
    BY <2>2, AppendView
  <2>4. \A j \in 1..Len(b) : j \in 1..Len(a) \/ (j = Len(a) + 1 /\ b[j] = h)
    BY <2>2, AppendView
  <2>5. S(h) => \E j \in 1..Len(b) : S(b[j])
    BY <2>2, AppendView DEF Tier
  <2> HIDE DEF h, b
  <2>6. SIU => \E j \in 1..Len(b) : S(b[j])
    BY <2>3
  <2>7. procs[child].said # "nothing" =>
          (\E j \in 1..Len(b) : S(b[j])) \/ \E j \in 1..Len(pipe') : S(pipe'[j])
    <3> SUFFICES ASSUME procs[child].said # "nothing", ~SIU
                 PROVE  (\E j \in 1..Len(b) : S(b[j])) \/ \E j \in 1..Len(pipe') : S(pipe'[j])
      BY <2>6
    <3>1. PICK j \in 1..Len(pipe) : S(pipe[j])
      BY <2>1, <1>0
    <3>2. CASE j = 1
      BY <2>2, <2>5, <3>1, <3>2
    <3>3. CASE j # 1
      BY <2>2, <3>1, <3>3 DEF Rest
    <3> QED BY <3>2, <3>3
  <2>8. \A i \in 1..Len(b) : C(b[i]) => \E j \in 1..i : S(b[j])
    <3> SUFFICES ASSUME NEW i \in 1..Len(b), C(b[i])
                 PROVE  \E j \in 1..i : S(b[j])
      OBVIOUS
    <3>1. CASE i \in 1..Len(a)
      <4>1. \A j \in 1..i : j \in 1..Len(a)
        BY <2>2, <3>1, LenProperties
      <4> QED BY <2>1, <2>3, <3>1, <4>1, <1>0
    <3>2. CASE i = Len(a) + 1 /\ b[i] = h
      <4>1. C(pipe[1]) /\ ~S(pipe[1])
        BY <2>2, <3>2
      <4>2. SIU
        <5>1. \A j \in 1..1 : j = 1
          OBVIOUS
        <5> QED BY <2>1, <2>2, <4>1, <5>1, <1>0
      <4>3. \A j \in 1..Len(a) : j \in 1..i
        BY <2>2, <3>2, LenProperties
      <4> QED BY <2>3, <4>2, <4>3
    <3> QED BY <2>4, <3>1, <3>2
  <2>9. \A i \in 1..Len(pipe') : C(pipe'[i]) =>
          (\E j \in 1..Len(b) : S(b[j])) \/ \E j \in 1..i : S(pipe'[j])
    <3> SUFFICES ASSUME NEW i \in 1..Len(pipe'), C(pipe'[i]), ~SIU
                 PROVE  (\E j \in 1..Len(b) : S(b[j])) \/ \E j \in 1..i : S(pipe'[j])
      BY <2>6
    <3>1. i + 1 \in 1..Len(pipe) /\ C(pipe[i + 1])
      BY <2>2 DEF Rest
    <3>2. PICK j \in 1..i + 1 : S(pipe[j])
      BY <2>1, <3>1, <1>0
    <3>3. CASE j = 1
      BY <2>2, <2>5, <3>2, <3>3
    <3>4. CASE j # 1
      <4>1. pipe \in Seq(Msg) /\ Len(pipe) \in Nat
        BY LenProperties DEF TypeOK
      <4>2. PICK l \in Nat : l = Len(pipe)
        BY <4>1
      <4>3. j \in 1..Len(pipe) /\ j - 1 \in 1..i
        BY <3>1, <3>4, <4>2
      <4> QED BY <2>2, <3>2, <3>4, <4>3 DEF Rest
    <3> QED BY <3>3, <3>4
  <2> QED BY <2>1, <2>7, <2>8, <2>9 DEF Starts, Completes, StartIsUnread, b
<1>4. CASE Shifts /\ Consume
  <2>1. UNCHANGED <<child, pipe>> /\ child # 0
        /\ procs'[child].said = procs[child].said
    BY <1>4 DEF Shifts, AwaitsStart
  <2>2. queue["p0"] = << >> /\ queue'["p0"] = << >>
    BY <1>4, <2>1, AwaitedBefore, AwaitedIsNotConsumed
  <2>3. queue'["p0"] = a
    BY <2>2
  <2> QED BY <2>1, <2>3, <1>0 DEF Starts, Completes, StartIsUnread
<1>5. CASE Spawns
  <2>1. /\ child' = child + 1 /\ Len(pipe') = 0 /\ queue' = queue
        /\ procs'[child'].said = "nothing"
    BY <1>5, EmptySeq DEF Spawns
  <2>2. \A i \in 1..Len(a) : a[i].from # child + 1
    <3>1. \A n \in 1..child : n # child + 1
      BY DEF TypeOK
    <3> QED BY <3>1 DEF FromTheStarted, Tiers
  <2>3. \A i \in 1..Len(queue'["p0"]) : ~Completes(queue["p0"][i])'
    BY <2>1, <2>2 DEF Completes
  <2> QED BY <2>1, <2>3
<1> QED BY <1>1, <1>2, <1>3, <1>4, <1>5, Traffic

\* The steps that end no run as completed and start no process.
LEMMA KeepsCompleted ==
  ASSUME TypeOK, BarrierIsStarted, CompletedIsOver, child' = child,
         agent'.barrier = agent.barrier,
         agent'.exit = "completed" => agent.exit = "completed",
         EntryActive(entry') => EntryActive(entry),
         call'.at = "waiting" => call.at = "waiting",
         call'.at = "rejected" =>
           /\ turn' = NoTurn
           /\ call.at \in {"rejected", "waiting"} \/ EntryActive(entry)
  PROVE  BarrierIsStarted' /\ CompletedIsOver' /\ RejectedAtRest'
BY DEF BarrierIsStarted, CompletedIsOver, RejectedAtRest

LEMMA StepCompleted ==
  ASSUME TypeOK, ProcessInv, AgentInv, CompletionInv, [Next]_vars
  PROVE  BarrierIsStarted' /\ CompletedIsOver' /\ RejectedAtRest'
<1> DEFINE Goal == BarrierIsStarted' /\ CompletedIsOver' /\ RejectedAtRest'
<1> USE DEF CompletionInv
<1>1. ASSUME UNCHANGED <<child, agent, call, entry, turn>> PROVE Goal
  BY <1>1 DEF BarrierIsStarted, CompletedIsOver, RejectedAtRest
<1>2. ASSUME Consume PROVE Goal
  <2>1. /\ child' = child /\ turn # NoTurn /\ call.at # "rejected"
    BY <1>2 DEF Consume, RejectedAtRest, NoTurn
  <2>2. CASE UNCHANGED <<entry, agent, call>>
    BY <2>1, <2>2, KeepsCompleted
  <2>3. CASE entry'.status = "running"
    BY <1>2, <2>1, <2>3, ConsumeStep, KeepsCompleted DEF EntryActive
  <2>4. CASE entry'.status = "failed" /\ ~UNCHANGED <<entry, agent, call>>
    BY <1>2, <2>1, <2>4, ConsumeStep, KeepsCompleted DEF EntryActive, AgentEnds
  <2>5. CASE ~AgentActive(agent)
    BY <1>2, <2>1, <2>5, ConsumeStep, KeepsCompleted DEF EntryActive
  <2>6. CASE AgentActive(agent) /\ entry'.status = "completed"
             /\ ~UNCHANGED <<entry, agent, call>>
    <3>1. PICK m \in Msg :
            /\ m = Next1(queue) /\ m.kind = "complete" /\ EntryActive(entry)
            /\ entry' = [status |-> "completed", ended |-> TRUE] /\ call' = call
            /\ agent'.barrier = m.from
      BY <1>2, <2>6, ConsumeStep
    <3>2. /\ 1 \in 1..Len(queue["p0"]) /\ m = queue["p0"][1]
          /\ m.from \in 1..child
      <4>1. Shifts /\ Tier(m.kind) = "p0"
        BY <1>2, <3>1, ConsumeShifts DEF Tier
      <4> QED BY <3>1, <4>1, ShiftsEffect DEF FromTheStarted, Tiers
    <3>3. ~EntryActive(entry') /\ agent'.barrier # 0 /\ agent'.barrier \in 0..child
      BY <3>1, <3>2 DEF EntryActive, TypeOK
    <3>4. m.from = child => call.at # "waiting"
      <4> SUFFICES ASSUME m.from = child, call.at = "waiting" PROVE FALSE
        OBVIOUS
      <4>1. AwaitsStart
        BY <2>6, <3>1, <3>2 DEF AwaitsStart, TypeOK
      <4>2. m = [kind |-> "complete", from |-> child]
        BY <3>1 DEF Msg
      <4>3. \E j \in 1..1 : queue["p0"][j] = [kind |-> "started", from |-> child]
        BY <3>2, <4>1, <4>2 DEF StartAhead, Completes, Starts
      <4>4. PICK j \in 1..1 : queue["p0"][j] = [kind |-> "started", from |-> child]
        BY <4>3
      <4>5. j = 1
        OBVIOUS
      <4>6. m = [kind |-> "started", from |-> child]
        BY <3>2, <4>4, <4>5
      <4> QED BY <3>1, <4>6
    <3> QED BY <2>1, <3>1, <3>3, <3>4
            DEF BarrierIsStarted, CompletedIsOver, RejectedAtRest
  <2>7. \/ UNCHANGED <<entry, agent, call>>
        \/ entry'.status \in {"running", "failed", "completed"}
    BY <1>2, ConsumeStep
  <2> QED BY <2>2, <2>3, <2>4, <2>5, <2>6, <2>7
<1>3. ASSUME ExitEvent PROVE Goal
  <2>1. /\ UNCHANGED <<child, agent, call>> /\ call.at # "rejected"
        /\ EntryActive(entry') => EntryActive(entry)
    BY <1>3 DEF ExitEvent, Idle, EntryActive, TypeOK, Entry
  <2> QED BY <2>1, KeepsCompleted
<1>4. ASSUME ExitHandled PROVE Goal
  <2>1. EntryActive(entry') => EntryActive(entry)
    BY <1>4, ExitHandledStep DEF ExitStatus
  <2> QED BY <1>4, <2>1, ExitHandledStep, KeepsCompleted DEF AfterExit, AgentEnds
<1>5. ASSUME ZombieFound PROVE Goal
  BY <1>5, ZombieStep, KeepsCompleted
     DEF AfterExit, AgentEnds, EntryActive, TimersRun, Idle
<1>6. ASSUME Watchdog PROVE Goal
  <2>1. /\ child' = child /\ turn' = NoTurn /\ call' = call /\ call.at # "rejected"
        /\ EntryActive(entry)
        /\ agent' = agent \/ AgentEnds({"recovering"})
    BY <1>6, WatchdogStep DEF TimersRun, Idle, EntryActive, TypeOK, Agent
  <2> QED BY <2>1, KeepsCompleted DEF AgentEnds
<1>7. ASSUME SpawnTimeout PROVE Goal
  BY <1>7, SpawnTimeoutStep, KeepsCompleted
     DEF AgentEnds, EntryActive, TimersRun, Idle
<1>8. ASSUME SpawnRejected PROVE Goal
  BY <1>8, SpawnRejectedStep, KeepsCompleted DEF AgentEnds, NoCall
<1>9. ASSUME StopAgent PROVE Goal
  BY <1>9, StopAgentStep, KeepsCompleted DEF AgentEnds, Idle
<1>10. ASSUME StopAll PROVE Goal
  BY <1>10, StopAllStep, KeepsCompleted DEF AgentEnds, Idle
<1>11. ASSUME ChannelError PROVE Goal
  BY <1>11, ChannelErrorStep, KeepsCompleted DEF EntryActive, Idle
<1>12. ASSUME Register \/ RespawnResets PROVE Goal
  <2>1. /\ agent'.barrier = 0 /\ agent'.exit = "none" /\ child' = child
        /\ call'.at = "preparing"
    BY <1>12 DEF Register, RespawnResets, NewAgent, TypeOK, Call
  <2> QED BY <2>1 DEF BarrierIsStarted, CompletedIsOver, RejectedAtRest, TypeOK
<1>13. ASSUME AwaitTimeout \/ \E mode \in {"fail", "recover"} : RespawnBegins(mode)
       PROVE  Goal
  <2>1. /\ call'.at \in {"loading", "await_exit"} /\ UNCHANGED <<child, agent, entry>>
    BY <1>13 DEF AwaitTimeout, RespawnBegins, TypeOK, Call
  <2> QED BY <2>1, KeepsCompleted
<1>14. ASSUME SpawnRefused PROVE Goal
  <2>1. /\ call'.at = "rejected" /\ UNCHANGED <<child, agent, entry>>
        /\ turn' = NoTurn /\ EntryActive(entry)
    BY <1>14 DEF SpawnRefused, Idle, TypeOK, Call
  <2> QED BY <2>1, KeepsCompleted
<1>15. ASSUME SpawnResolved PROVE Goal
  <2>1. /\ call' = NoCall /\ UNCHANGED <<child, entry>>
        /\ agent'.exit = agent.exit /\ agent'.barrier = agent.barrier
    BY <1>15 DEF SpawnResolved, TypeOK, Agent
  <2> QED BY <2>1, KeepsCompleted DEF NoCall
<1>16. ASSUME SpawnWorker PROVE Goal
  <2>1. child' = child + 1 /\ agent' = agent /\ call'.at = "waiting"
    BY <1>16 DEF SpawnWorker, TypeOK, Call
  <2>2. \A n \in 0..child : n # child + 1 /\ n \in 0..child + 1
    BY DEF TypeOK
  <2> QED BY <2>1, <2>2 DEF BarrierIsStarted, CompletedIsOver, RejectedAtRest
<1>17. ASSUME CleanupTimer PROVE Goal
  <2>1. UNCHANGED <<child, agent, call>> /\ ~EntryActive(entry') /\ call.at # "rejected"
    BY <1>17 DEF CleanupTimer, TimersRun, Idle, NoEntry, EntryActive
  <2> QED BY <2>1, KeepsCompleted
<1>18. ASSUME DrainBegins \/ DrainEnds PROVE Goal
  <2>1. UNCHANGED <<child, agent, call, entry>> /\ call.at # "rejected"
    BY <1>18 DEF DrainBegins, DrainEnds, Idle, RejectedAtRest, NoTurn
  <2> QED BY <2>1, KeepsCompleted
<1> QED
  BY <1>1, <1>2, <1>3, <1>4, <1>5, <1>6, <1>7, <1>8, <1>9, <1>10, <1>11, <1>12,
     <1>13, <1>14, <1>15, <1>16, <1>17, <1>18
     DEF Next, Processes, EventLoop, TimerPhase, Starting, Commands, vars, SayStarted,
         Chat, SayEnd, Die, ReceiveMessage, KillTimer

LEMMA CompletionInvHolds == Spec => [](WorkerInv /\ CompletionInv)
<1>1. Init => WorkerInv /\ CompletionInv
  BY InitTypeOK, InitParts, InitCompletion DEF WorkerInv
<1>2. WorkerInv /\ CompletionInv /\ [Next]_vars => (WorkerInv /\ CompletionInv)'
  <2> SUFFICES ASSUME WorkerInv, CompletionInv, [Next]_vars
               PROVE  WorkerInv' /\ CompletionInv'
    OBVIOUS
  <2> USE DEF WorkerInv
  <2>1. WorkerInv'
    BY StepTypeOK, StepProcessInv, StepEntryInv, StepAgentInv
  <2>2. FromTheStarted' /\ TiersSorted' /\ StartAhead'
    BY StepFromTheStarted, StepTiersSorted, StepStartAhead DEF CompletionInv
  <2>3. BarrierIsStarted' /\ CompletedIsOver' /\ RejectedAtRest'
    BY StepCompleted
  <2> QED BY <2>1, <2>2, <2>3 DEF CompletionInv
<1> QED BY <1>1, <1>2, PTL DEF Spec

LEMMA StoppedWorkerIsSilent ==
  ASSUME WorkerInv, [Next]_vars, agent.exit = "terminated"
  PROVE  \/ agent'.exit = "terminated" \/ agent'.status = "starting"
         \/ entry.status # "timeout" /\ entry'.status = "timeout"
         \/ call.at = "rejected"
<1> USE DEF WorkerInv
<1>1. ~AgentActive(agent)
  BY DEF AgentInv, ActiveIsFresh
<1>2. ASSUME UNCHANGED agent PROVE agent'.exit = "terminated"
  BY <1>2
<1>3. ASSUME Consume PROVE agent'.exit = "terminated"
  BY <1>1, <1>3, ConsumeStep
<1>4. ASSUME ExitHandled PROVE agent'.exit = "terminated"
  BY <1>1, <1>4, ExitHandledStep DEF AfterExit
<1>5. ASSUME ZombieFound PROVE agent'.exit = "terminated"
  BY <1>1, <1>5, ZombieStep DEF AfterExit
<1>6. ASSUME Watchdog PROVE entry.status # "timeout" /\ entry'.status = "timeout"
  BY <1>6, WatchdogStep
<1>7. ASSUME SpawnTimeout
      PROVE  \/ agent'.exit = "terminated"
             \/ entry.status # "timeout" /\ entry'.status = "timeout"
  BY <1>7, SpawnTimeoutStep DEF EntryActive
<1>8. ASSUME Register \/ RespawnResets PROVE agent'.status = "starting"
  BY <1>8 DEF Register, RespawnResets, NewAgent
<1>9. ASSUME SpawnResolved PROVE agent'.exit = "terminated"
  BY <1>9 DEF SpawnResolved, TypeOK, Agent
<1>10. ASSUME SpawnRejected PROVE call.at = "rejected"
  BY <1>10, SpawnRejectedStep
<1>11. ASSUME StopAgent PROVE agent'.exit = "terminated"
  BY <1>11, StopAgentStep DEF AgentEnds
<1>12. ASSUME StopAll PROVE agent'.exit = "terminated"
  BY <1>1, <1>12, StopAllStep
<1>13. ASSUME ChannelError PROVE agent'.exit = "terminated"
  BY <1>13, ChannelErrorStep
<1> QED
  BY <1>2, <1>3, <1>4, <1>5, <1>6, <1>7, <1>8, <1>9, <1>10, <1>11, <1>12, <1>13
     DEF Next, Processes, EventLoop, TimerPhase, Starting, Commands, vars, SayStarted,
         Chat, SayEnd, Die, ReceiveMessage, DrainBegins, DrainEnds, ExitEvent,
         AwaitTimeout, KillTimer, CleanupTimer, RespawnBegins, SpawnRefused,
         SpawnWorker

LEMMA CompletedRunIsOver ==
  ASSUME WorkerInv, CompletionInv, [Next]_vars,
         agent.exit = "completed", agent.barrier = child
  PROVE  agent'.exit \in {"completed", "terminated"} \/ agent'.status = "starting"
<1> USE DEF WorkerInv
<1>1. ~AgentActive(agent)
  BY DEF AgentInv, ActiveIsFresh
<1>2. call.at # "rejected"
  BY DEF CompletionInv, BarrierIsStarted, CompletedIsOver
<1>3. ASSUME UNCHANGED agent PROVE agent'.exit = "completed"
  BY <1>3
<1>4. ASSUME Consume PROVE agent'.exit = "completed"
  BY <1>1, <1>4, ConsumeStep
<1>5. ASSUME ExitHandled PROVE agent'.exit = "completed"
  BY <1>1, <1>5, ExitHandledStep DEF AfterExit
<1>6. ASSUME ZombieFound PROVE agent'.exit = "completed"
  BY <1>1, <1>6, ZombieStep DEF AfterExit
<1>7. ASSUME Watchdog PROVE agent'.exit = "completed"
  BY <1>7, WatchdogStep
<1>8. ASSUME SpawnTimeout PROVE agent'.exit = "completed"
  BY <1>8, SpawnTimeoutStep
<1>9. ASSUME Register \/ RespawnResets PROVE agent'.status = "starting"
  BY <1>9 DEF Register, RespawnResets, NewAgent
<1>10. ASSUME SpawnResolved PROVE agent'.exit = "completed"
  BY <1>10 DEF SpawnResolved, TypeOK, Agent
<1>11. ~SpawnRejected
  BY <1>2 DEF SpawnRejected
<1>12. ASSUME StopAgent PROVE agent'.exit = "terminated"
  BY <1>12, StopAgentStep DEF AgentEnds
<1>13. ASSUME StopAll PROVE agent'.exit = "completed"
  BY <1>1, <1>13, StopAllStep
<1>14. ASSUME ChannelError PROVE agent'.exit = "completed"
  BY <1>14, ChannelErrorStep
<1> QED
  BY <1>3, <1>4, <1>5, <1>6, <1>7, <1>8, <1>9, <1>10, <1>11, <1>12, <1>13, <1>14
     DEF Next, Processes, EventLoop, TimerPhase, Starting, Commands, vars, SayStarted,
         Chat, SayEnd, Die, ReceiveMessage, DrainBegins, DrainEnds, ExitEvent,
         AwaitTimeout, KillTimer, CleanupTimer, RespawnBegins, SpawnRefused,
         SpawnWorker

\* Whatever the process of a stopped agent still says, and its exit, leave the
\* agent stopped until it is started again or one of the two open ways is taken.
THEOREM StopSilences == Spec => StopSilencesWorker
<1>1. WorkerInv /\ [Next]_vars =>
        [agent.exit = "terminated" =>
           \/ agent'.exit = "terminated" \/ agent'.status = "starting"
           \/ entry.status # "timeout" /\ entry'.status = "timeout"
           \/ call.at = "rejected"]_vars
  BY StoppedWorkerIsSilent
<1> QED BY <1>1, WorkerInvHolds, PTL DEF Spec, StopSilencesWorker

\* A completion is final, also where a process is started over the messages of
\* another, whose late messages, exit and timers come afterwards.
THEOREM CompletedIsFinal == Spec => CompletedStays
<1>1. WorkerInv /\ CompletionInv /\ [Next]_vars =>
        [agent.exit = "completed" /\ agent.barrier = child =>
           agent'.exit \in {"completed", "terminated"}
             \/ agent'.status = "starting"]_vars
  BY CompletedRunIsOver
<1> QED BY <1>1, CompletionInvHolds, PTL DEF Spec, CompletedStays

-----------------------------------------------------------------------------
(* A completion that was read wins *)

LEMMA InitUrgent ==
  Init => PipeIsChilds /\ OneStart /\ OneEnd /\ FirstTierIsShort /\ UrgentFirst
<1> SUFFICES ASSUME Init
             PROVE  PipeIsChilds /\ OneStart /\ OneEnd /\ FirstTierIsShort /\ UrgentFirst
  OBVIOUS
<1>1. /\ child = 0 /\ Len(pipe) = 0
      /\ \A c \in Tiers : Len(queue[c]) = 0 /\ queue[c] = << >>
  BY EmptySeq DEF Init, EmptyQueue
<1>2. "p0" \in Tiers /\ turn.doing = "nothing"
  BY DEF Init, NoTurn, Tiers
<1> QED BY <1>1, <1>2
        DEF PipeIsChilds, OneStart, OneEnd, SaidOnce, FirstTierIsShort, StartDue,
            EndDue, Due, UrgentFirst

LEMMA StepPipeIsChilds ==
  ASSUME TypeOK, ProcessInv, PipeIsChilds, [Next]_vars
  PROVE  PipeIsChilds'
<1>1. CASE Passes
  BY <1>1 DEF Passes, PipeIsChilds
<1>2. CASE Sends
  <2>1. PICK kind \in Kinds :
          /\ child' = child
          /\ [kind |-> kind, from |-> child] \in Msg
          /\ pipe' = Append(pipe, [kind |-> kind, from |-> child]) \/ pipe' = pipe
    BY <1>2 DEF Sends
  <2>2. pipe \in Seq(Msg)
    BY DEF TypeOK
  <2>3. CASE pipe' = pipe
    BY <2>1, <2>3 DEF PipeIsChilds
  <2>4. CASE pipe' = Append(pipe, [kind |-> kind, from |-> child])
    BY <2>1, <2>2, <2>4, AppendView DEF PipeIsChilds
  <2> QED BY <2>1, <2>3, <2>4
<1>3. CASE Receives
  <2>1. child' = child
    BY <1>3 DEF Receives
  <2>2. Rest(pipe, pipe')
    BY <1>3, ReceivesEffect
  <2> QED BY <2>1, <2>2 DEF PipeIsChilds, Rest
<1>4. CASE Shifts
  BY <1>4 DEF Shifts, PipeIsChilds
<1>5. CASE Spawns
  <2>1. Len(pipe') = 0
    BY <1>5, EmptySeq DEF Spawns
  <2> QED BY <2>1 DEF PipeIsChilds
<1> QED BY <1>1, <1>2, <1>3, <1>4, <1>5, Traffic

LEMMA StepSaidOnce ==
  ASSUME TypeOK, ProcessInv, TiersSorted, PipeIsChilds, FromTheStarted, [Next]_vars,
         NEW kinds, NEW said, SaidOnce(kinds, said),
         \/ kinds = {"started"} /\ said = {"started", "ended"}
         \/ kinds = {"complete", "failed"} /\ said = {"ended"}
  PROVE  SaidOnce(kinds, said)'
<1> DEFINE a == queue["p0"]
           b == queue'["p0"]
<1>1. CASE Passes
  BY <1>1 DEF Passes, SaidOnce, ChildSaid
<1>2. CASE Sends
  <2>1. PICK kind \in Kinds :
          /\ child # 0 /\ child' = child /\ queue' = queue
          /\ [kind |-> kind, from |-> child] \in Msg
          /\ \/ pipe' = Append(pipe, [kind |-> kind, from |-> child])
             \/ pipe' = pipe /\ kind \in {"complete", "failed"}
          /\ kind = "started" =>
               procs[child].said = "nothing" /\ procs'[child].said = "started"
          /\ kind \in {"complete", "failed"} =>
               procs[child].said = "started" /\ procs'[child].said = "ended"
          /\ kind \notin {"started", "complete", "failed"} =>
               procs'[child].said = procs[child].said
    BY <1>2 DEF Sends
  <2>2. /\ kind \in kinds => procs[child].said \notin said /\ procs'[child].said \in said
        /\ procs'[child].said \notin said => procs[child].said \notin said
    BY <2>1
  <2>3. CASE pipe' = pipe
    BY <2>1, <2>2, <2>3 DEF SaidOnce, ChildSaid
  <2>4. CASE pipe' = Append(pipe, [kind |-> kind, from |-> child])
    <3>1. /\ \A i \in 1..Len(pipe') :
               \/ i \in 1..Len(pipe) /\ pipe'[i] = pipe[i]
               \/ i = Len(pipe) + 1 /\ pipe'[i].kind = kind
      BY <2>1, <2>4, AppendView DEF TypeOK
    <3>2. CASE kind \in kinds
      <4>1. /\ \A i \in 1..Len(a) : ~ChildSaid(a[i], kinds)
            /\ \A i \in 1..Len(pipe) : pipe[i].kind \notin kinds
        BY <2>2, <3>2 DEF SaidOnce
      <4>2. \A i \in 1..Len(pipe') : pipe'[i].kind \in kinds => i = Len(pipe) + 1
        BY <3>1, <4>1
      <4> QED BY <2>1, <2>2, <3>2, <4>1, <4>2 DEF SaidOnce, ChildSaid
    <3>3. CASE kind \notin kinds
      <4>1. \A i \in 1..Len(pipe') :
              pipe'[i].kind \in kinds => i \in 1..Len(pipe) /\ pipe[i].kind \in kinds
        BY <3>1, <3>3
      <4> QED BY <2>1, <2>2, <4>1 DEF SaidOnce, ChildSaid
    <3> QED BY <3>2, <3>3
  <2> QED BY <2>1, <2>3, <2>4
<1>3. CASE Receives
  <2> DEFINE h == Head(pipe)
  <2>1. UNCHANGED <<child, procs>>
    BY <1>3 DEF Receives
  <2>2. /\ h \in Msg /\ h = pipe[1] /\ 1 \in 1..Len(pipe) /\ Rest(pipe, pipe')
        /\ a \in Seq(Msg) /\ b = IF Tier(h.kind) = "p0" THEN Append(a, h) ELSE a
    BY <1>3, ReceivesEffect
  <2>3. \A j \in 1..Len(b) : \/ j \in 1..Len(a) /\ b[j] = a[j]
                             \/ j = Len(a) + 1 /\ b[j] = h
    BY <2>2, AppendView
  <2> HIDE DEF h, b
  <2>4. h.kind \in kinds => \A j \in 1..Len(a) : ~ChildSaid(a[j], kinds)
    BY <2>2 DEF SaidOnce
  <2>5. \A i, j \in 1..Len(b) : ChildSaid(b[i], kinds) /\ ChildSaid(b[j], kinds) => i = j
    BY <2>3, <2>4 DEF SaidOnce, ChildSaid
  <2>6. \A i \in 1..Len(pipe') :
          /\ i + 1 \in 1..Len(pipe) /\ pipe'[i] = pipe[i + 1] /\ i + 1 # 1
          /\ \A j \in 1..Len(pipe') : i + 1 = j + 1 => i = j
    BY <2>2 DEF Rest
  <2>7. \A i, j \in 1..Len(pipe') :
          pipe'[i].kind \in kinds /\ pipe'[j].kind \in kinds => i = j
    BY <2>6 DEF SaidOnce
  <2>8. \A i \in 1..Len(pipe'), j \in 1..Len(b) :
          ~(pipe'[i].kind \in kinds /\ ChildSaid(b[j], kinds))
    <3> SUFFICES ASSUME NEW i \in 1..Len(pipe'), NEW j \in 1..Len(b),
                        pipe'[i].kind \in kinds, ChildSaid(b[j], kinds)
                 PROVE  FALSE
      OBVIOUS
    <3>1. pipe[i + 1].kind \in kinds /\ i + 1 \in 1..Len(pipe) /\ i + 1 # 1
      BY <2>6
    <3>2. j \notin 1..Len(a) \/ b[j] # a[j]
      BY <3>1 DEF SaidOnce
    <3>3. pipe[1].kind \in kinds
      BY <2>2, <2>3, <3>2 DEF ChildSaid
    <3> QED BY <2>2, <3>1, <3>3 DEF SaidOnce
  <2>9. child = 0 \/ procs[child].said \notin said =>
          /\ \A i \in 1..Len(b) : ~ChildSaid(b[i], kinds)
          /\ \A i \in 1..Len(pipe') : pipe'[i].kind \notin kinds
    BY <2>2, <2>3, <2>6 DEF SaidOnce, ChildSaid
  <2> QED BY <2>1, <2>5, <2>7, <2>8, <2>9 DEF SaidOnce, ChildSaid, b
<1>4. CASE Shifts
  <2>1. /\ UNCHANGED <<child, pipe>>
        /\ child # 0 => procs'[child].said = procs[child].said
    BY <1>4 DEF Shifts
  <2>2. CASE queue["p0"] # << >>
    <3>1. \A i \in 1..Len(b) :
            i + 1 \in 1..Len(a) /\ b[i] = a[i + 1]
      BY <1>4, <2>2, ShiftsEffect DEF Rest
    <3>2. \A i, j \in 1..Len(b) : i + 1 = j + 1 => i = j
      OBVIOUS
    <3> HIDE DEF a, b
    <3>3. \A i, j \in 1..Len(b) : ChildSaid(b[i], kinds) /\ ChildSaid(b[j], kinds) => i = j
      BY <3>1, <3>2 DEF SaidOnce, a
    <3>4. \A i \in 1..Len(pipe), j \in 1..Len(b) :
            ~(pipe[i].kind \in kinds /\ ChildSaid(b[j], kinds))
      BY <3>1 DEF SaidOnce, a
    <3>5. child = 0 \/ procs[child].said \notin said =>
            \A i \in 1..Len(b) : ~ChildSaid(b[i], kinds)
      BY <3>1 DEF SaidOnce, a
    <3> QED BY <2>1, <3>3, <3>4, <3>5 DEF SaidOnce, ChildSaid, b
  <2>3. CASE queue["p0"] = << >>
    <3>1. queue'["p0"] = queue["p0"]
      BY <1>4, <2>3, ShiftsEffect
    <3> QED BY <2>1, <3>1 DEF SaidOnce, ChildSaid
  <2> QED BY <2>2, <2>3
<1>5. CASE Spawns
  <2>1. Len(pipe') = 0 /\ queue' = queue /\ child' = child + 1
    BY <1>5, EmptySeq DEF Spawns
  <2>2. \A i \in 1..Len(queue["p0"]) : queue["p0"][i].from # child + 1
    <3>1. "p0" \in Tiers /\ child \in Nat /\ \A n \in 1..child : n # child + 1
      BY DEF Tiers, TypeOK
    <3> QED BY <3>1 DEF FromTheStarted
  <2> QED BY <2>1, <2>2 DEF SaidOnce, ChildSaid
<1> QED BY <1>1, <1>2, <1>3, <1>4, <1>5, Traffic

\* A report that is due stays due until it is received.
LEMMA DueOnlySettles ==
  ASSUME TypeOK, Passes \/ Sends \/ Shifts, NEW kinds, NEW said,
         \/ kinds = {"started"} /\ said = {"started", "ended"}
         \/ kinds = {"complete", "failed"} /\ said = {"ended"}
  PROVE  Due(kinds, said)' <= Due(kinds, said)
<1>1. SUFFICES ASSUME Due(kinds, said)' = 1 PROVE Due(kinds, said) = 1
  BY DEF Due
<1>2. CASE Passes \/ Shifts
  BY <1>1, <1>2 DEF Passes, Shifts, Due
<1>3. CASE Sends
  <2>1. PICK kind \in Kinds :
          /\ child # 0 /\ child' = child
          /\ [kind |-> kind, from |-> child] \in Msg
          /\ \/ pipe' = Append(pipe, [kind |-> kind, from |-> child])
             \/ pipe' = pipe
          /\ kind = "started" =>
               procs[child].said = "nothing" /\ procs'[child].said = "started"
          /\ kind \in {"complete", "failed"} =>
               procs[child].said = "started" /\ procs'[child].said = "ended"
          /\ kind \notin {"started", "complete", "failed"} =>
               procs'[child].said = procs[child].said
    BY <1>3 DEF Sends
  <2>2. /\ kind \in kinds => procs[child].said \notin said
        /\ procs'[child].said \notin said => procs[child].said \notin said
    BY <2>1
  <2>3. \A i \in 1..Len(pipe') :
          (i \in 1..Len(pipe) /\ pipe'[i] = pipe[i]) \/ pipe'[i].kind = kind
    BY <2>1, AppendView DEF TypeOK
  <2>4. procs'[child].said \notin said \/ \E i \in 1..Len(pipe') : pipe'[i].kind \in kinds
    BY <1>1, <2>1 DEF Due
  <2> QED BY <2>1, <2>2, <2>3, <2>4 DEF Due
<1> QED BY <1>2, <1>3

LEMMA DueIsReceived ==
  ASSUME TypeOK, Receives, NEW kinds, NEW said, SaidOnce(kinds, said)
  PROVE  /\ Due(kinds, said)' <= Due(kinds, said)
         /\ Head(pipe).kind \in kinds => Due(kinds, said) = 1 /\ Due(kinds, said)' = 0
<1>1. UNCHANGED <<child, procs>>
  BY DEF Receives
<1>2. Rest(pipe, pipe') /\ Head(pipe) = pipe[1] /\ 1 \in 1..Len(pipe)
  BY ReceivesEffect
<1>3. \A i \in 1..Len(pipe') :
        i + 1 \in 1..Len(pipe) /\ pipe'[i] = pipe[i + 1] /\ i + 1 # 1
  BY <1>2 DEF Rest
<1>4. Due(kinds, said)' <= Due(kinds, said)
  BY <1>1, <1>3 DEF Due
<1>5. ASSUME Head(pipe).kind \in kinds PROVE Due(kinds, said) = 1 /\ Due(kinds, said)' = 0
  <2>1. child # 0 /\ procs[child].said \in said
    BY <1>2, <1>5 DEF SaidOnce
  <2>2. \A i \in 1..Len(pipe') : pipe'[i].kind \notin kinds
    BY <1>2, <1>3, <1>5 DEF SaidOnce
  <2> QED BY <1>1, <1>2, <1>5, <2>1, <2>2 DEF Due
<1> QED BY <1>4, <1>5

LEMMA StepFirstTierIsShort ==
  ASSUME TypeOK, ProcessInv, TiersSorted, OneStart, OneEnd, FirstTierIsShort, [Next]_vars
  PROVE  FirstTierIsShort'
<1>1. PICK l \in Nat, a \in {0, 1}, b \in {0, 1} :
        l = Len(queue["p0"]) /\ a = StartDue /\ b = EndDue
  BY LenProperties DEF TypeOK, Tiers, StartDue, EndDue, Due
<1>2. PICK c \in {0, 1}, d \in {0, 1} : c = StartDue' /\ d = EndDue'
  BY DEF StartDue, EndDue, Due
<1>3. child \in Nat /\ l + a + b <= 2 * child
  BY <1>1 DEF FirstTierIsShort, TypeOK
<1>4. ASSUME Passes \/ Sends \/ Shifts PROVE c <= a /\ d <= b /\ child' = child
  BY <1>1, <1>2, <1>4, DueOnlySettles DEF StartDue, EndDue, Passes, Sends, Shifts
<1>5. CASE Passes \/ Sends
  <2>1. queue' = queue
    BY <1>5 DEF Passes, Sends
  <2>2. l + c + d <= 2 * child
    BY <1>3, <1>4, <1>5
  <2> QED BY <1>1, <1>2, <1>4, <1>5, <2>1, <2>2 DEF FirstTierIsShort
<1>6. CASE Shifts
  <2>1. PICK m \in Nat : m = Len(queue'["p0"]) /\ m <= l
    <3>1. CASE queue["p0"] # << >>
      <4>1. l # 0 /\ Len(queue'["p0"]) = l - 1
        BY <1>1, <1>6, <3>1, ShiftsEffect, EmptySeq DEF TypeOK, Tiers
      <4> QED BY <4>1
    <3>2. CASE queue["p0"] = << >>
      BY <1>1, <1>6, <3>2, ShiftsEffect
    <3> QED BY <3>1, <3>2
  <2>2. m + c + d <= 2 * child
    BY <1>3, <1>4, <1>6, <2>1
  <2> QED BY <1>2, <1>4, <1>6, <2>1, <2>2 DEF FirstTierIsShort
<1>7. CASE Receives
  <2> DEFINE h == Head(pipe)
  <2>1. /\ h \in Msg /\ queue["p0"] \in Seq(Msg) /\ child' = child
        /\ queue'["p0"] = IF Tier(h.kind) = "p0" THEN Append(queue["p0"], h)
                          ELSE queue["p0"]
    BY <1>7, ReceivesEffect DEF Receives
  <2>2. /\ c <= a /\ d <= b
        /\ h.kind = "started" => a = 1 /\ c = 0
        /\ h.kind \in {"complete", "failed"} => b = 1 /\ d = 0
    BY <1>1, <1>2, <1>7, DueIsReceived DEF StartDue, EndDue, OneStart, OneEnd
  <2>3. CASE Tier(h.kind) = "p0"
    <3>1. h.kind \in {"started", "complete", "failed"}
      BY <2>1, <2>3 DEF Msg, Kinds, Tier
    <3>2. Len(queue'["p0"]) = l + 1
      BY <1>1, <2>1, <2>3, AppendProperties
    <3>3. l + 1 + c + d <= 2 * child
      BY <1>3, <2>2, <3>1
    <3> QED BY <1>2, <2>1, <3>2, <3>3 DEF FirstTierIsShort
  <2>4. CASE Tier(h.kind) # "p0"
    <3>1. l + c + d <= 2 * child
      BY <1>3, <2>2
    <3> QED BY <1>1, <1>2, <2>1, <2>4, <3>1 DEF FirstTierIsShort
  <2> QED BY <2>3, <2>4
<1>8. CASE Spawns
  <2>1. queue' = queue /\ child' = child + 1
    BY <1>8 DEF Spawns
  <2>2. l + c + d <= 2 * (child + 1)
    BY <1>3
  <2> QED BY <1>1, <1>2, <2>1, <2>2 DEF FirstTierIsShort
<1> QED BY <1>5, <1>6, <1>7, <1>8, Traffic

LEMMA StepUrgentFirst ==
  ASSUME TypeOK, TiersSorted, FirstTierIsShort, UrgentFirst, [Next]_vars,
         2 * MaxProcs <= BatchSize
  PROVE  UrgentFirst'
<1>1. ASSUME UNCHANGED <<queue, sched, turn>> PROVE UrgentFirst'
  BY <1>1 DEF UrgentFirst
<1>2. ASSUME ReceiveMessage PROVE UrgentFirst'
  BY <1>2 DEF ReceiveMessage, Idle, NoTurn, UrgentFirst
<1>3. ASSUME DrainBegins PROVE UrgentFirst'
  <2>1. /\ queue' = queue /\ turn' = [doing |-> "drain", left |-> BatchSize]
    BY <1>3 DEF DrainBegins
  <2>2. Len(queue["p0"]) <= BatchSize
    <3>1. PICK l \in Nat : l = Len(queue["p0"])
      BY LenProperties DEF TypeOK, Tiers
    <3>2. StartDue \in {0, 1} /\ EndDue \in {0, 1}
      BY DEF StartDue, EndDue, Due
    <3>3. l <= 2 * child
      BY <3>1, <3>2 DEF FirstTierIsShort, TypeOK
    <3> QED BY <3>1, <3>3, QueueAssumption, WorkerAssumption DEF TypeOK
  <2> QED BY <2>1, <2>2 DEF UrgentFirst
<1>4. ASSUME Consume PROVE UrgentFirst'
  <2>1. \/ turn.doing = "exit" /\ turn' = turn
        \/ /\ turn.doing = "drain" /\ turn.left > 0 /\ turn'.doing = "drain"
           /\ turn'.left = turn.left - 1
    BY <1>4, ConsumeStep DEF TypeOK, Turn
  <2>2. Shifts
    BY <1>4, ConsumeShifts
  <2>3. PICK n \in Nat : n = turn.left
    BY DEF TypeOK, Turn
  <2>4. CASE queue["p0"] = << >>
    <3>1. queue'["p0"] = << >> /\ Len(queue'["p0"]) = 0
      BY <2>2, <2>4, ShiftsEffect, EmptySeq
    <3>2. n > 0 => 0 <= n - 1
      BY <2>3
    <3> QED BY <2>1, <2>3, <3>1, <3>2 DEF UrgentFirst
  <2>5. CASE queue["p0"] # << >>
    <3>1. Len(queue'["p0"]) = Len(queue["p0"]) - 1
      BY <2>2, <2>5, ShiftsEffect
    <3>2. PICK l \in Nat : l = Len(queue["p0"])
      BY LenProperties DEF TypeOK, Tiers
    <3>3. turn.doing = "drain" => l - 1 <= n - 1
      BY <2>3, <3>2 DEF UrgentFirst
    <3> QED BY <2>1, <2>3, <3>1, <3>2, <3>3 DEF UrgentFirst
  <2> QED BY <2>4, <2>5
<1>5. ASSUME DrainEnds PROVE UrgentFirst'
  <2>1. /\ queue' = queue /\ turn'.doing = "nothing" /\ turn.doing = "drain"
        /\ turn.left = 0 \/ Backlog(queue) = 0
    BY <1>5 DEF DrainEnds, NoTurn
  <2>2. queue["p0"] = << >>
    <3>1. CASE Backlog(queue) = 0
      BY <3>1, EmptyBacklog DEF TypeOK, Tiers
    <3>2. CASE turn.left = 0
      <4>1. PICK l \in Nat : l = Len(queue["p0"])
        BY LenProperties DEF TypeOK, Tiers
      <4>2. l <= 0
        BY <2>1, <3>2, <4>1 DEF UrgentFirst
      <4>3. Len(queue["p0"]) = 0 /\ queue["p0"] \in Seq(Msg)
        BY <4>1, <4>2 DEF TypeOK, Tiers
      <4> QED BY <4>3, EmptySeq
    <3> QED BY <2>1, <3>1, <3>2
  <2> QED BY <2>1, <2>2 DEF UrgentFirst
<1>6. ASSUME ExitEvent PROVE UrgentFirst'
  BY <1>6 DEF ExitEvent, UrgentFirst
<1>7. ASSUME ExitHandled PROVE UrgentFirst'
  <2>1. queue' = queue /\ Backlog(queue) = 0 /\ turn' = NoTurn
    BY <1>7, ExitHandledStep
  <2>2. queue["p0"] = << >>
    BY <2>1, EmptyBacklog DEF TypeOK, Tiers
  <2> QED BY <2>1, <2>2 DEF UrgentFirst, NoTurn
<1> QED
  BY <1>1, <1>2, <1>3, <1>4, <1>5, <1>6, <1>7
     DEF Next, Processes, EventLoop, TimerPhase, Starting, Commands, vars, SayStarted,
         Chat, SayEnd, Die, ZombieFound, Watchdog, SpawnTimeout, AwaitTimeout, KillTimer,
         CleanupTimer, Register, RespawnBegins, RespawnResets, SpawnRefused,
         SpawnWorker, SpawnResolved, SpawnRejected, StopAgent, StopAll, ChannelError

\* Between two callbacks the round of the loop that drains a queued completion
\* is still to come, and no timer is before it.
LEMMA TimersFindNoCompletion ==
  ASSUME UrgentFirst, CompletionQueued, TypeOK
  PROVE  ~TimersRun
<1>1. queue["p0"] # << >>
  BY EmptySeq DEF CompletionQueued
<1> QED BY <1>1 DEF UrgentFirst, TimersRun, Idle, NoTurn

LEMMA QueuedCompletionStep ==
  ASSUME WorkerInv, TiersSorted, OneEnd, UrgentFirst, [Next]_vars, CompletionQueued
  PROVE  \/ CompletionQueued' \/ ChannelLost' \/ LeftoverReport
         \/ agent'.exit \in {"completed", "terminated"} \/ agent'.barrier = child
<1> USE DEF WorkerInv
<1> DEFINE M == [kind |-> "complete", from |-> child]
           Goal == \/ CompletionQueued' \/ ChannelLost' \/ LeftoverReport
                   \/ agent'.exit \in {"completed", "terminated"}
                   \/ agent'.barrier = child
<1>1. PICK k \in 1..Len(queue["p0"]) : queue["p0"][k] = M
  BY DEF CompletionQueued
<1>2. /\ queue["p0"] # << >> /\ Backlog(queue) # 0
      /\ AgentActive(agent) /\ EntryActive(entry)
      /\ call.at \in {"none", "waiting", "resolved"}
      /\ agent.status \notin {"none", "stopped"}
  <2>1. Len(queue["p0"]) # 0
    BY <1>1
  <2>2. Backlog(queue) # 0
    BY <2>1, EmptyBacklog DEF TypeOK, Tiers
  <2> QED BY <2>1, <2>2, EmptySeq DEF CompletionQueued, AgentActive
<1>3. ~TimersRun
  BY TimersFindNoCompletion
<1>4. ASSUME UNCHANGED <<child, agent, call, entry>>, queue'["p0"] = queue["p0"]
      PROVE  CompletionQueued'
  BY <1>4 DEF CompletionQueued
<1>5. ASSUME ReceiveMessage PROVE CompletionQueued'
  <2>1. UNCHANGED <<child, agent, call, entry>> /\ Receives
    BY <1>5 DEF ReceiveMessage, Receives
  <2>2. k \in 1..Len(queue'["p0"]) /\ queue'["p0"][k] = M
    <3>1. /\ Head(pipe) \in Msg /\ queue["p0"] \in Seq(Msg)
          /\ queue'["p0"] = IF Tier(Head(pipe).kind) = "p0"
                            THEN Append(queue["p0"], Head(pipe)) ELSE queue["p0"]
      BY <2>1, ReceivesEffect
    <3> QED BY <1>1, <3>1, AppendView
  <2> QED BY <2>1, <2>2 DEF CompletionQueued
<1>6. ASSUME Consume PROVE Goal
  <2>1. /\ Rest(queue["p0"], queue'["p0"]) /\ Next1(queue) = queue["p0"][1]
        /\ 1 \in 1..Len(queue["p0"]) /\ Tier(Next1(queue).kind) = "p0"
    BY <1>2, <1>6, ConsumeShifts, ShiftsEffect
  <2>2. CASE Next1(queue).from # child /\ Next1(queue).kind \in {"complete", "failed"}
    BY <1>6, <2>2 DEF Consume, LeftoverReport
  <2>3. child' = child
    BY <1>6, ConsumeStep
  <2>4. CASE Next1(queue).from = child /\ Next1(queue).kind \in {"complete", "failed"}
    <3>1. ASSUME Next1(queue).kind = "failed" PROVE FALSE
      <4>1. k = 1
        BY <1>1, <2>1, <2>4, <3>1 DEF OneEnd, SaidOnce, ChildSaid
      <4>2. M.kind = "failed"
        BY <1>1, <2>1, <3>1, <4>1
      <4> QED BY <4>2
    <3> QED BY <1>2, <1>6, <2>1, <2>4, <3>1, ConsumeStep
  <2>5. CASE Next1(queue).kind = "started"
    <3>1. /\ entry'.status = "running" /\ agent'.status = "running"
          /\ call'.at \in {"none", "resolved"}
      BY <1>2, <1>6, <2>1, <2>5, ConsumeStep
    <3>2. k # 1
      <4>1. M.kind # "started"
        OBVIOUS
      <4> QED BY <1>1, <2>1, <2>5, <4>1
    <3>3. k - 1 \in 1..Len(queue'["p0"]) /\ queue'["p0"][k - 1] = M
      BY <1>1, <2>1, <3>2 DEF Rest
    <3> QED BY <2>3, <3>1, <3>3 DEF CompletionQueued, AgentActive, EntryActive
  <2>6. Next1(queue).kind \in {"started", "complete", "failed"}
    <3>1. Next1(queue) \in Msg
      BY <1>6, ConsumeShifts, ShiftsEffect
    <3> QED BY <2>1, <3>1 DEF Msg, Kinds, Tier
  <2> QED BY <2>2, <2>4, <2>5, <2>6
<1>7. ASSUME ExitEvent PROVE CompletionQueued'
  <2>1. UNCHANGED <<child, agent, call, queue>> /\ entry'.status = entry.status
    BY <1>7 DEF ExitEvent, TypeOK, Entry
  <2> QED BY <2>1 DEF CompletionQueued, EntryActive
<1>8. ~ExitHandled
  BY <1>2 DEF ExitHandled
<1>9. ~ZombieFound /\ ~Watchdog /\ ~SpawnTimeout /\ ~AwaitTimeout /\ ~KillTimer
      /\ ~CleanupTimer
  BY <1>3 DEF ZombieFound, Watchdog, SpawnTimeout, AwaitTimeout, KillTimer, CleanupTimer
<1>10. ~Register /\ ~RespawnResets /\ ~SpawnRefused /\ ~SpawnWorker /\ ~SpawnRejected
       /\ \A mode \in {"fail", "recover"} : ~RespawnBegins(mode)
  BY <1>2 DEF Register, RespawnResets, SpawnRefused, SpawnWorker, SpawnRejected,
              RespawnBegins
<1>11. ASSUME SpawnResolved PROVE CompletionQueued'
  <2>1. /\ UNCHANGED <<child, entry, queue>> /\ call' = NoCall
        /\ agent'.status = "running"
    BY <1>2, <1>11 DEF SpawnResolved, TypeOK, Agent
  <2> QED BY <2>1 DEF CompletionQueued, AgentActive, NoCall
<1>12. ASSUME StopAgent PROVE Goal
  BY <1>12, StopAgentStep DEF AgentEnds
<1>13. ASSUME StopAll PROVE Goal
  BY <1>2, <1>13, StopAllStep DEF AgentEnds
<1>14. ASSUME ChannelError PROVE ChannelLost'
  <2>1. /\ entry' = [status |-> "failed", ended |-> entry.ended]
        /\ procs[child].life = "up"
    BY <1>14, ChannelErrorStep
  <2>2. ~entry.ended
    BY <1>2, <2>1 DEF EntryInv, EndedHasExited
  <2> QED BY <2>1, <2>2 DEF ChannelLost
<1> QED
  BY <1>4, <1>5, <1>6, <1>7, <1>8, <1>9, <1>10, <1>11, <1>12, <1>13, <1>14
     DEF Next, Processes, EventLoop, TimerPhase, Starting, Commands, vars, SayStarted,
         Chat, SayEnd, Die, DrainBegins, DrainEnds

\* Where a round of the drain takes the two messages of every process that may
\* have left them (the runner takes the default of 50), a completion that was
\* read is never overtaken by the exit event or a timer, nor shed, whatever the
\* limit of the queue, and whatever the name was started over.
THEOREM CompletionWins ==
  ASSUME 2 * MaxProcs <= BatchSize
  PROVE  Spec => QueuedCompletionWins
<1> DEFINE Urgent == /\ TiersSorted /\ FromTheStarted /\ PipeIsChilds
                     /\ OneStart /\ OneEnd /\ FirstTierIsShort /\ UrgentFirst
           IInv == WorkerInv /\ Urgent
<1>1. Init => IInv
  BY InitTypeOK, InitParts, InitCompletion, InitUrgent DEF WorkerInv, CompletionInv
<1>2. IInv /\ [Next]_vars => IInv'
  <2> SUFFICES ASSUME IInv, [Next]_vars PROVE IInv'
    OBVIOUS
  <2> USE DEF WorkerInv
  <2>1. WorkerInv'
    BY StepTypeOK, StepProcessInv, StepEntryInv, StepAgentInv
  <2>2. TiersSorted' /\ FromTheStarted' /\ PipeIsChilds'
    BY StepTiersSorted, StepFromTheStarted, StepPipeIsChilds
  <2>3. OneStart' /\ OneEnd'
    BY StepSaidOnce DEF OneStart, OneEnd
  <2>4. FirstTierIsShort' /\ UrgentFirst'
    BY StepFirstTierIsShort, StepUrgentFirst
  <2> QED BY <2>1, <2>2, <2>3, <2>4
<1>3. IInv /\ [Next]_vars =>
        [CompletionQueued =>
           \/ CompletionQueued' \/ ChannelLost' \/ LeftoverReport
           \/ agent'.exit \in {"completed", "terminated"}
           \/ agent'.barrier = child]_vars
  BY QueuedCompletionStep
<1> QED BY <1>1, <1>2, <1>3, PTL DEF Spec, QueuedCompletionWins
=============================================================================
