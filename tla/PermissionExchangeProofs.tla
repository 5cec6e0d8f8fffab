------------------------ MODULE PermissionExchangeProofs ------------------------
(***************************************************************************)
(* Theorems about module PermissionExchange, and the lemmas on the desk of  *)
(* LeaderPermissionManager (module PermissionDesk) that they rest on.       *)
(***************************************************************************)
EXTENDS PermissionExchange, SequenceTheorems, WellFoundedInduction, TLAPS

(* The parts of the inductive invariant that are about the desk *)

\* The requests at the gate and in the queue.
Entries(d) == {e \in Request : d.gate = e \/ \E i \in 1..Len(d.queue) : d.queue[i] = e}

\* No two requests of the desk have the same id, and nothing queues behind a
\* gate that is shut.
QueueApart(d) ==
  \A i, j \in 1..Len(d.queue) : d.queue[i].id = d.queue[j].id => i = j
BehindGate(d) ==
  \A i \in 1..Len(d.queue) : d.gate # NoGate /\ d.queue[i].id # d.gate.id
Apart(d) == QueueApart(d) /\ BehindGate(d)

\* A request that goes under the Leader's own name is of an id in its
\* conversation, and no worker waits for it.
LeadersOwn(d, ids) ==
  \A e \in Entries(d) : e.worker = Leader =>
    e.id \in ids /\ \A q \in d.pending : q.id # e.id

\* The unanswered requests are of workers, at the gate or in the queue.
PendingStands(d) ==
  \A q \in d.pending : q.worker \in Workers /\ q.id \in Standing(d)

Orderly(d, ids) == Apart(d) /\ LeadersOwn(d, ids) /\ PendingStands(d)

\* Every yes that the desk sends is to a request of a set.
SaysYesTo(d, yes) ==
  \A w \in Workers : \A i \in 1..Len(d.out[w]) :
    d.out[w][i].ok => d.out[w][i].id \in yes

\* Of two desks, the second says yes to what the first does, and to some more.
SaysMore(d, e, more) ==
  \A yes : SaysYesTo(d, yes) /\ more \subseteq yes => SaysYesTo(e, yes)

(* Sequences *)

LEMMA AppendAt ==
  ASSUME NEW S, NEW s \in Seq(S), NEW x \in S
  PROVE  /\ Append(s, x) \in Seq(S)
         /\ Len(Append(s, x)) = Len(s) + 1
         /\ \A i \in 1..Len(s) : Append(s, x)[i] = s[i]
         /\ Append(s, x)[Len(s) + 1] = x
  BY SMT

LEMMA FirstOf ==
  ASSUME NEW S, NEW s \in Seq(S), s # <<>>
  PROVE  /\ Len(s) \in Nat \ {0} /\ Head(s) = s[1] /\ Head(s) \in S
         /\ Tail(s) \in Seq(S) /\ Len(Tail(s)) = Len(s) - 1
         /\ \A i \in 1..(Len(s) - 1) : Tail(s)[i] = s[i + 1]
  <1>1. Len(s) \in Nat \ {0}  BY EmptySeq
  <1>2. Head(s) = s[1]  OBVIOUS
  <1>3. Head(s) \in S /\ Tail(s) \in Seq(S) /\ Len(Tail(s)) = Len(s) - 1
        /\ \A i \in 1..Len(Tail(s)) : Tail(s)[i] = s[i + 1]
    BY HeadTailProperties
  <1>4. QED  BY <1>1, <1>2, <1>3

(* The desk: types, and what stands where *)

LEMMA DeskFields ==
  ASSUME NEW d \in Desk
  PROVE  /\ d.gate \in Request \cup {NoGate} /\ d.queue \in Seq(Request)
         /\ Len(d.queue) \in Nat /\ \A i \in 1..Len(d.queue) : d.queue[i] \in Request
         /\ d.pending \in SUBSET Request /\ d.resolved \in SUBSET Ids
         /\ d.eternal \in BOOLEAN /\ d.waiting \in BOOLEAN /\ d.layer \in Modes \cup {"unset"}
         /\ d.out \in [Workers -> Seq(Response)]
  <1>1. d.queue \in Seq(Request)  BY DEF Desk
  <1>2. Len(d.queue) \in Nat /\ \A i \in 1..Len(d.queue) : d.queue[i] \in Request
    BY <1>1, LenProperties, ElementOfSeq
  <1>3. QED  BY <1>1, <1>2 DEF Desk

LEMMA RequestFields ==
  ASSUME NEW p \in Request
  PROVE  p.id \in Ids /\ p.worker \in Workers \cup {Leader} /\ p.mode \in Modes /\ p # NoGate
  BY GateAssumption DEF Request

\* What depends on the gate and the queue only.
LEMMA SamePlaces ==
  ASSUME NEW d, NEW e, e.gate = d.gate, e.queue = d.queue
  PROVE  /\ Standing(e) = Standing(d) /\ Entries(e) = Entries(d)
         /\ (Apart(e) <=> Apart(d))
         /\ \A id : (AtGate(e, id) <=> AtGate(d, id)) /\ (InQueue(e, id) <=> InQueue(d, id))
  BY DEF Standing, Entries, Apart, QueueApart, BehindGate, AtGate, InQueue

\* openPermissionGate: the request stands afterwards, with those that stood.
LEMMA OpenGateEffect ==
  ASSUME NEW d \in Desk, NEW p \in Request, NEW r, r = OpenGate(d, p)
  PROVE  /\ r \in Desk
         /\ r.pending = d.pending /\ r.resolved = d.resolved /\ r.eternal = d.eternal
         /\ r.layer = d.layer /\ r.out = d.out
         /\ Standing(r) = Standing(d) \cup {p.id}
         /\ Entries(r) \subseteq Entries(d) \cup {p}
         /\ Apart(d) => Apart(r)
  <1> USE DeskFields, RequestFields
  <1>1. CASE AtGate(d, p.id) \/ InQueue(d, p.id)
    <2>1. r = d  BY <1>1 DEF OpenGate
    <2>2. p.id \in Standing(d)  BY <1>1 DEF Standing
    <2>3. QED  BY <2>1, <2>2
  <1>2. CASE ~(AtGate(d, p.id) \/ InQueue(d, p.id)) /\ d.gate # NoGate
    <2>1. r = [d EXCEPT !.queue = Append(@, p)]  BY <1>2 DEF OpenGate
    <2>2. d.queue \in Seq(Request)  OBVIOUS
    <2>3. /\ Append(d.queue, p) \in Seq(Request)
          /\ Len(Append(d.queue, p)) = Len(d.queue) + 1
          /\ \A i \in 1..Len(d.queue) : Append(d.queue, p)[i] = d.queue[i]
          /\ Append(d.queue, p)[Len(d.queue) + 1] = p
      BY <2>2, AppendAt
    <2>4. r \in Desk  BY <2>1, <2>3 DEF Desk
    <2>5. /\ r.queue = Append(d.queue, p) /\ r.gate = d.gate
          /\ r.pending = d.pending /\ r.resolved = d.resolved /\ r.eternal = d.eternal
          /\ r.layer = d.layer /\ r.out = d.out
      BY <2>1 DEF Desk
    <2>6. \A i \in 1..Len(r.queue) : i = Len(d.queue) + 1 \/ i \in 1..Len(d.queue)
      BY <2>5, <2>3
    <2>7. Len(d.queue) + 1 \in 1..Len(r.queue) /\ 1..Len(d.queue) \subseteq 1..Len(r.queue)
      BY <2>5, <2>3
    <2>8. Standing(r) = Standing(d) \cup {p.id}
      <3>1. \A id \in Ids : InQueue(r, id) <=> InQueue(d, id) \/ id = p.id
        BY <2>3, <2>5, <2>6, <2>7 DEF InQueue
      <3>2. \A id \in Ids : AtGate(r, id) <=> AtGate(d, id)
        BY <2>5 DEF AtGate
      <3>3. QED  BY <3>1, <3>2 DEF Standing
    <2>9. Entries(r) \subseteq Entries(d) \cup {p}
      BY <2>3, <2>5, <2>6 DEF Entries
    <2>10. ASSUME Apart(d) PROVE Apart(r)
      <3>1. \A i \in 1..Len(d.queue) : d.queue[i].id # p.id
        BY <1>2 DEF InQueue
      <3>2. d.gate.id # p.id  BY <1>2 DEF AtGate
      <3>3. QueueApart(r)
        BY <2>3, <2>5, <2>6, <2>10, <3>1 DEF Apart, QueueApart
      <3>4. BehindGate(r)
        BY <2>3, <2>5, <2>6, <2>10, <3>2, <1>2 DEF Apart, BehindGate
      <3>5. QED  BY <3>3, <3>4 DEF Apart
    <2>11. QED  BY <2>4, <2>5, <2>8, <2>9, <2>10
  <1>3. CASE ~(AtGate(d, p.id) \/ InQueue(d, p.id)) /\ d.gate = NoGate
    <2>1. r = [d EXCEPT !.gate = p, !.waiting = TRUE]  BY <1>3 DEF OpenGate
    <2>2. r \in Desk  BY <2>1 DEF Desk
    <2>3. /\ r.gate = p /\ r.queue = d.queue
          /\ r.pending = d.pending /\ r.resolved = d.resolved /\ r.eternal = d.eternal
          /\ r.layer = d.layer /\ r.out = d.out
      BY <2>1 DEF Desk
    <2>4. Standing(r) = Standing(d) \cup {p.id}
      BY <2>3, <1>3 DEF Standing, AtGate, InQueue
    <2>5. Entries(r) \subseteq Entries(d) \cup {p}
      BY <2>3 DEF Entries
    <2>6. Apart(d) => Apart(r)
      BY <2>3, <1>3 DEF Apart, QueueApart, BehindGate, InQueue
    <2>7. QED  BY <2>2, <2>3, <2>4, <2>5, <2>6
  <1>4. QED  BY <1>1, <1>2, <1>3

\* closePermissionGate and openNextPermissionGate: the request that was at the
\* gate leaves the desk, and no other does.
LEMMA CloseNextEffect ==
  ASSUME NEW d \in Desk, Apart(d), d.gate # NoGate,
         NEW r, r = OpenNext(CloseGate(d))
  PROVE  /\ r \in Desk
         /\ r.pending = d.pending /\ r.resolved = d.resolved /\ r.eternal = d.eternal
         /\ r.layer = d.layer /\ r.out = d.out
         /\ Standing(r) = Standing(d) \ {d.gate.id}
         /\ Entries(r) \subseteq Entries(d)
         /\ Apart(r)
         /\ Len(r.queue) = IF d.queue = <<>> THEN 0 ELSE Len(d.queue) - 1
         /\ (r.gate = NoGate <=> d.queue = <<>>)
  <1> USE DeskFields, RequestFields
  <1> DEFINE c == CloseGate(d)
  <1>1. c \in Desk  BY DEF CloseGate, Desk
  <1>2. /\ c.gate = NoGate /\ c.queue = d.queue
        /\ c.pending = d.pending /\ c.resolved = d.resolved /\ c.eternal = d.eternal
        /\ c.layer = d.layer /\ c.out = d.out
    BY DEF CloseGate, Desk
  <1>3. d.gate \in Request  OBVIOUS
  <1> HIDE DEF c
  <1>4. CASE d.queue = <<>>
    <2>1. r = c  BY <1>2, <1>4 DEF OpenNext, c
    <2>2. Len(d.queue) = 0  BY <1>4
    <2>3. Standing(r) = Standing(d) \ {d.gate.id}
      BY <2>1, <2>2, <1>2 DEF Standing, AtGate, InQueue
    <2>4. Entries(r) \subseteq Entries(d)
      BY <2>1, <2>2, <1>2 DEF Entries
    <2>5. Apart(r)
      BY <2>1, <2>2, <1>2 DEF Apart, QueueApart, BehindGate
    <2>6. QED  BY <2>1, <2>2, <2>3, <2>4, <2>5, <1>1, <1>2, <1>4
  <1>5. CASE d.queue # <<>>
    <2> DEFINE h == Head(d.queue)  t == [c EXCEPT !.queue = Tail(@)]
    <2>1. /\ Len(d.queue) \in Nat \ {0} /\ h = d.queue[1] /\ h \in Request
          /\ Tail(d.queue) \in Seq(Request) /\ Len(Tail(d.queue)) = Len(d.queue) - 1
          /\ \A i \in 1..(Len(d.queue) - 1) : Tail(d.queue)[i] = d.queue[i + 1]
      BY <1>5, FirstOf
    <2>2. t \in Desk  BY <1>1, <1>2, <2>1 DEF Desk
    <2>3. /\ t.gate = NoGate /\ t.queue = Tail(d.queue)
          /\ t.pending = d.pending /\ t.resolved = d.resolved /\ t.eternal = d.eternal
          /\ t.layer = d.layer /\ t.out = d.out
      BY <1>1, <1>2 DEF Desk
    <2>4. r = OpenGate(t, h)  BY <1>2, <1>5 DEF OpenNext, c
    <2> HIDE DEF h, t
    <2>5. \A i \in 1..Len(t.queue) : i + 1 \in 1..Len(d.queue) /\ t.queue[i] = d.queue[i + 1]
      BY <2>1, <2>3
    <2>6. \A i \in 1..Len(t.queue) : t.queue[i].id # h.id
      <3>1. 1 \in 1..Len(d.queue)  BY <2>1
      <3>2. QED  BY <2>1, <2>5, <3>1 DEF Apart, QueueApart
    <2>7. ~AtGate(t, h.id) /\ ~InQueue(t, h.id)  BY <2>3, <2>6 DEF AtGate, InQueue
    <2>8. r = [t EXCEPT !.gate = h, !.waiting = TRUE]  BY <2>3, <2>4, <2>7 DEF OpenGate
    <2>9. r \in Desk  BY <2>8, <2>2, <2>1 DEF Desk
    <2>10. /\ r.gate = h /\ r.queue = t.queue
           /\ r.pending = d.pending /\ r.resolved = d.resolved /\ r.eternal = d.eternal
           /\ r.layer = d.layer /\ r.out = d.out
      BY <2>2, <2>3, <2>8 DEF Desk
    <2>11. \A i \in 1..Len(d.queue) : i = 1 \/ (i - 1 \in 1..Len(t.queue) /\ t.queue[i - 1] = d.queue[i])
      <3>1. TAKE i \in 1..Len(d.queue)
      <3>2. CASE i # 1
        <4>1. i - 1 \in 1..Len(t.queue)  BY <3>2, <2>1, <2>3
        <4>2. t.queue[i - 1] = d.queue[(i - 1) + 1]  BY <4>1, <2>5
        <4>3. (i - 1) + 1 = i  OBVIOUS
        <4>4. QED  BY <4>1, <4>2, <4>3
      <3>3. QED  BY <3>2
    <2>12. Standing(r) = Standing(d) \ {d.gate.id}
      <3>1. \A id \in Ids : (AtGate(r, id) \/ InQueue(r, id)) <=> InQueue(d, id)
        <4>1. TAKE id \in Ids
        <4>2. ASSUME InQueue(d, id) PROVE AtGate(r, id) \/ InQueue(r, id)
          <5>1. PICK i \in 1..Len(d.queue) : d.queue[i].id = id  BY <4>2 DEF InQueue
          <5>2. CASE i = 1  BY <5>1, <5>2, <2>1, <2>10 DEF AtGate
          <5>3. CASE i # 1  BY <5>1, <5>3, <2>10, <2>11 DEF InQueue
          <5>4. QED  BY <5>2, <5>3
        <4>3. ASSUME AtGate(r, id) PROVE InQueue(d, id)
          <5>1. 1 \in 1..Len(d.queue)  BY <2>1
          <5>2. QED  BY <4>3, <5>1, <2>1, <2>10 DEF AtGate, InQueue
        <4>4. ASSUME InQueue(r, id) PROVE InQueue(d, id)
          BY <4>4, <2>5, <2>10 DEF InQueue
        <4>5. QED  BY <4>2, <4>3, <4>4
      <3>2. \A id \in Ids : InQueue(d, id) => id # d.gate.id
        BY DEF Apart, BehindGate, InQueue
      <3>3. \A id \in Ids : AtGate(d, id) <=> id = d.gate.id
        BY <1>3 DEF AtGate
      <3>4. QED  BY <3>1, <3>2, <3>3 DEF Standing
    <2>13. Entries(r) \subseteq Entries(d)
      <3>1. 1 \in 1..Len(d.queue)  BY <2>1
      <3>2. QED  BY <3>1, <2>1, <2>5, <2>10 DEF Entries
    <2>14. QueueApart(r)
      <3>1. SUFFICES ASSUME NEW i \in 1..Len(t.queue), NEW j \in 1..Len(t.queue),
                            t.queue[i].id = t.queue[j].id
                     PROVE  i = j
        BY <2>10 DEF QueueApart
      <3>2. d.queue[i + 1].id = d.queue[j + 1].id  BY <3>1, <2>5
      <3>3. i + 1 \in 1..Len(d.queue) /\ j + 1 \in 1..Len(d.queue)  BY <2>5
      <3>4. i + 1 = j + 1  BY <3>2, <3>3 DEF Apart, QueueApart
      <3>5. QED  BY <3>4
    <2>15. BehindGate(r)  BY <2>1, <2>6, <2>10 DEF BehindGate
    <2>16. Len(r.queue) = Len(d.queue) - 1 /\ r.gate # NoGate
      BY <2>1, <2>3, <2>10
    <2>17. QED  BY <2>9, <2>10, <2>12, <2>13, <2>14, <2>15, <2>16, <1>5 DEF Apart
  <1>6. QED  BY <1>4, <1>5

\* sendPermissionResponseToWorker: nothing moves on the desk.
Answered(d, p, ok, r) ==
  /\ r \in Desk
  /\ r.gate = d.gate /\ r.queue = d.queue /\ r.eternal = d.eternal /\ r.layer = d.layer
  /\ r.resolved = d.resolved \cup {p.id}
  /\ r.pending = IF p.worker = Leader THEN d.pending ELSE {q \in d.pending : q.id # p.id}
  /\ SaysMore(d, r, {p.id}) /\ (ok = FALSE => SaysMore(d, r, {}))

LEMMA AnswerEffect ==
  ASSUME NEW d \in Desk, NEW p \in Request, NEW ok \in BOOLEAN,
         NEW r, r = Answer(d, p, ok)
  PROVE  Answered(d, p, ok, r)
  <1> USE DeskFields, RequestFields DEF Answered
  <1> DEFINE rs == d.resolved \cup {p.id}
             m == [d EXCEPT !.resolved = @ \cup {p.id}]
  <1>0. rs \in SUBSET Ids  OBVIOUS
  <1>1. m \in Desk
    <2>1. m = [d EXCEPT !.resolved = rs]  BY DEF Desk
    <2> HIDE DEF rs, m
    <2>2. QED  BY <1>0, <2>1 DEF Desk
  <1>2. /\ m.gate = d.gate /\ m.queue = d.queue /\ m.eternal = d.eternal /\ m.layer = d.layer
        /\ m.resolved = d.resolved \cup {p.id} /\ m.pending = d.pending /\ m.out = d.out
    BY DEF Desk
  <1> HIDE DEF m
  <1>3. CASE p.worker = Leader
    <2>1. r = m  BY <1>3 DEF Answer, m
    <2>2. QED  BY <2>1, <1>1, <1>2, <1>3 DEF SaysYesTo, SaysMore
  <1>4. CASE p.worker # Leader
    <2> DEFINE a == [id |-> p.id, ok |-> ok]
               s == Append(d.out[p.worker], a)
               o == [d.out EXCEPT ![p.worker] = s]
               left == {q \in d.pending : q.id # p.id}
    <2>1. p.worker \in Workers  BY <1>4
    <2>2. a \in Response /\ a.id = p.id /\ a.ok = ok  BY DEF Response
    <2>3. d.out[p.worker] \in Seq(Response)  BY <2>1
    <2> HIDE DEF a
    <2>4. /\ s \in Seq(Response) /\ Len(s) = Len(d.out[p.worker]) + 1
          /\ \A i \in 1..Len(d.out[p.worker]) : s[i] = d.out[p.worker][i]
          /\ s[Len(d.out[p.worker]) + 1] = a
      BY <2>2, <2>3, AppendAt
    <2>5. r = [m EXCEPT !.out[p.worker] = Append(@, a), !.pending = {q \in @ : q.id # p.id}]
      BY <1>4 DEF Answer, m, a
    <2>6. r = [m EXCEPT !.out = o, !.pending = left]
      BY <2>5, <1>1, <1>2 DEF Desk
    <2> HIDE DEF s
    <2>7. o \in [Workers -> Seq(Response)]  BY <2>4
    <2>8. left \in SUBSET Request  OBVIOUS
    <2>9. \A w \in Workers : o[w] = IF w = p.worker THEN s ELSE d.out[w]  BY <2>1
    <2> HIDE DEF o, left
    <2>10. r \in Desk  BY <2>6, <2>7, <2>8, <1>1 DEF Desk
    <2>11. /\ r.gate = d.gate /\ r.queue = d.queue /\ r.eternal = d.eternal /\ r.layer = d.layer
           /\ r.resolved = d.resolved \cup {p.id} /\ r.pending = left /\ r.out = o
      BY <2>6, <1>1, <1>2 DEF Desk
    <2>12. ASSUME NEW yes, SaysYesTo(d, yes), ok = TRUE => p.id \in yes
           PROVE  SaysYesTo(r, yes)
      <3>1. SUFFICES ASSUME NEW w \in Workers, NEW i \in 1..Len(o[w]), o[w][i].ok
                     PROVE  o[w][i].id \in yes
        BY <2>11 DEF SaysYesTo
      <3>2. CASE w # p.worker
        BY <3>1, <3>2, <2>9, <2>12 DEF SaysYesTo
      <3>3. CASE w = p.worker
        <4>1. o[w] = s  BY <3>3, <2>9
        <4>2. PICK n \in Nat : n = Len(d.out[w])  BY LenProperties
        <4>3. i \in 1..(n + 1)  BY <4>1, <4>2, <2>4, <3>3
        <4>4. CASE i = n + 1  BY <4>4, <4>1, <4>2, <2>2, <2>4, <3>1, <3>3, <2>12
        <4>5. CASE i # n + 1
          <5>1. i \in 1..n  BY <4>3, <4>5
          <5>2. o[w][i] = d.out[w][i]  BY <5>1, <4>1, <4>2, <2>4, <3>3
          <5>3. QED  BY <5>1, <5>2, <4>2, <3>1, <2>12 DEF SaysYesTo
        <4>6. QED  BY <4>4, <4>5
      <3>4. QED  BY <3>2, <3>3
    <2>13. SaysMore(d, r, {p.id}) /\ (ok = FALSE => SaysMore(d, r, {}))  BY <2>12 DEF SaysMore
    <2>14. QED  BY <2>10, <2>11, <2>13, <1>4 DEF left
  <1>5. QED  BY <1>3, <1>4

\* What a yes does to the session's layer of permissions.
LEMMA SetModeEffect ==
  ASSUME NEW d \in Desk, NEW mode \in Modes, NEW r, r = SetMode(d, mode)
  PROVE  /\ r \in Desk
         /\ r.gate = d.gate /\ r.queue = d.queue /\ r.eternal = d.eternal
         /\ r.resolved = d.resolved /\ r.pending = d.pending /\ r.out = d.out
         /\ r.layer = "yolo" => d.layer = "yolo" \/ mode = "yolo"
  <1> DEFINE l == IF mode # "none" THEN mode ELSE IF d.layer = "unset" THEN "none" ELSE d.layer
  <1>1. l \in Modes \cup {"unset"}  BY DeskFields DEF Modes
  <1>2. l = "yolo" => d.layer = "yolo" \/ mode = "yolo"  OBVIOUS
  <1>3. r = [d EXCEPT !.layer = l]  BY DEF SetMode, Desk
  <1> HIDE DEF l
  <1>4. QED  BY <1>1, <1>2, <1>3 DEF Desk

\* approvePermissionAutomatically
LEMMA ApproveEffect ==
  ASSUME NEW d \in Desk, NEW p \in Request, NEW r, r = ApproveAutomatically(d, p)
  PROVE  /\ r \in Desk
         /\ r.gate = d.gate /\ r.queue = d.queue /\ r.eternal = d.eternal
         /\ r.layer = "yolo" => d.layer = "yolo" \/ p.mode = "yolo"
         /\ r.resolved = d.resolved \cup {p.id}
         /\ r.pending = IF p.worker = Leader THEN d.pending ELSE {q \in d.pending : q.id # p.id}
         /\ SaysMore(d, r, {p.id})
  <1> USE DeskFields, RequestFields
  <1> DEFINE m == SetMode(d, p.mode)
  <1>0. m = SetMode(d, p.mode) /\ p.mode \in Modes  OBVIOUS
  <1>3. r = Answer(m, p, TRUE)  BY DEF ApproveAutomatically
  <1> HIDE DEF m
  <1>1. m \in Desk  BY <1>0, SetModeEffect
  <1>2. /\ m.gate = d.gate /\ m.queue = d.queue /\ m.eternal = d.eternal
        /\ m.layer = "yolo" => d.layer = "yolo" \/ p.mode = "yolo"
        /\ m.resolved = d.resolved /\ m.pending = d.pending /\ m.out = d.out
    BY <1>0, SetModeEffect
  <1>4. SaysMore(m, r, {p.id}) => SaysMore(d, r, {p.id})
    BY <1>2 DEF SaysYesTo, SaysMore
  <1> DEFINE ok == TRUE
  <1>5. ok \in BOOLEAN /\ r = Answer(m, p, ok)
    BY <1>3
  <1> HIDE DEF ok
  <1>6. Answered(m, p, ok, r)  BY ONLY <1>1, <1>5, p \in Request, AnswerEffect, Zenon
  <1>7. QED  BY <1>2, <1>4, <1>6 DEF Answered

\* requestPermissionUpdate keeps the desk in order, for a request that a worker
\* waits for only if it goes under the worker's name.
LEMMA RequestUpdateEffect ==
  ASSUME NEW d \in Desk, NEW p \in Request, NEW ids, Apart(d), LeadersOwn(d, ids),
         \A q \in d.pending : q.worker \in Workers /\ (q.id \in Standing(d) \/ q.id = p.id),
         p.worker = Leader => p.id \in ids /\ \A q \in d.pending : q.id # p.id,
         NEW r, r = RequestUpdate(d, p)
  PROVE  /\ r \in Desk /\ Orderly(r, ids)
         /\ r.layer = "yolo" => d.layer = "yolo"
         /\ \/ d.eternal /\ p.mode # "yolo" /\ r.resolved = d.resolved \cup {p.id}
            \/ ~(d.eternal /\ p.mode # "yolo") /\ r.resolved = d.resolved
         /\ SaysMore(d, r, IF d.eternal /\ p.mode # "yolo" THEN {p.id} ELSE {})
  <1> USE DeskFields, RequestFields
  <1>1. CASE d.eternal /\ p.mode # "yolo"
    <2>1. r = ApproveAutomatically(d, p)  BY <1>1 DEF RequestUpdate
    <2>2. /\ r \in Desk
          /\ r.gate = d.gate /\ r.queue = d.queue /\ r.eternal = d.eternal
          /\ r.layer = "yolo" => d.layer = "yolo" \/ p.mode = "yolo"
          /\ r.resolved = d.resolved \cup {p.id}
          /\ r.pending = IF p.worker = Leader THEN d.pending ELSE {q \in d.pending : q.id # p.id}
          /\ SaysMore(d, r, {p.id})
      BY <2>1, ApproveEffect
    <2>3. Standing(r) = Standing(d) /\ Entries(r) = Entries(d) /\ Apart(r)
      BY <2>2, SamePlaces
    <2>4. r.pending \subseteq d.pending /\ \A q \in r.pending : q.id # p.id
      BY <2>2
    <2>5. LeadersOwn(r, ids)  BY <2>3, <2>4 DEF LeadersOwn
    <2>6. PendingStands(r)  BY <2>3, <2>4 DEF PendingStands
    <2>7. QED  BY <1>1, <2>2, <2>3, <2>5, <2>6 DEF Orderly
  <1>2. CASE ~(d.eternal /\ p.mode # "yolo")
    <2>1. r = OpenGate(d, p)  BY <1>2 DEF RequestUpdate
    <2>2. /\ r \in Desk
          /\ r.pending = d.pending /\ r.resolved = d.resolved /\ r.eternal = d.eternal
          /\ r.layer = d.layer /\ r.out = d.out
          /\ Standing(r) = Standing(d) \cup {p.id}
          /\ Entries(r) \subseteq Entries(d) \cup {p}
          /\ Apart(r)
      BY <2>1, OpenGateEffect
    <2>3. LeadersOwn(r, ids)  BY <2>2 DEF LeadersOwn
    <2>4. PendingStands(r)  BY <2>2 DEF PendingStands
    <2>5. QED  BY <1>2, <2>2, <2>3, <2>4 DEF Orderly, SaysYesTo, SaysMore
  <1>3. QED  BY <1>1, <1>2

\* receiveWorkerPermissionRequest, for a request that the Leader has not read.
LEMMA ReceiveEffect ==
  ASSUME NEW d \in Desk, NEW p \in Request, NEW ids, Orderly(d, ids),
         p.worker \in Workers, p.id \notin ids,
         NEW r, r = Receive(d, p)
  PROVE  /\ r \in Desk /\ Orderly(r, ids)
         /\ r.layer = "yolo" => d.layer = "yolo"
         /\ SaysMore(d, r, r.resolved \ d.resolved)
  <1> USE DeskFields, RequestFields
  <1>1. CASE p.id \in d.resolved
    BY <1>1 DEF Receive, SaysMore
  <1>2. CASE p.id \notin d.resolved
    <2> DEFINE s == {q \in d.pending : q.id # p.id} \cup {p}
               m == [d EXCEPT !.pending = s]
    <2>1. s \in SUBSET Request  OBVIOUS
    <2>2. r = RequestUpdate(m, p)  BY <1>2 DEF Receive
    <2>3. \A q \in s : q = p \/ q \in d.pending  OBVIOUS
    <2> HIDE DEF s
    <2>4. m \in Desk  BY <2>1 DEF Desk
    <2>5. /\ m.gate = d.gate /\ m.queue = d.queue /\ m.eternal = d.eternal /\ m.layer = d.layer
          /\ m.resolved = d.resolved /\ m.pending = s /\ m.out = d.out
      BY DEF Desk
    <2> HIDE DEF m
    <2>6. Standing(m) = Standing(d) /\ Entries(m) = Entries(d) /\ Apart(m)
      BY <2>5, SamePlaces DEF Orderly
    <2>7. LeadersOwn(m, ids)
      BY <2>3, <2>5, <2>6 DEF LeadersOwn, Orderly
    <2>8. \A q \in m.pending : q.worker \in Workers /\ (q.id \in Standing(m) \/ q.id = p.id)
      BY <2>3, <2>5, <2>6 DEF PendingStands, Orderly
    <2>9. p.worker # Leader  BY DeskAssumption
    <2>10. /\ r \in Desk /\ Orderly(r, ids)
           /\ r.layer = "yolo" => m.layer = "yolo"
           /\ \/ m.eternal /\ p.mode # "yolo" /\ r.resolved = m.resolved \cup {p.id}
              \/ ~(m.eternal /\ p.mode # "yolo") /\ r.resolved = m.resolved
           /\ SaysMore(m, r, IF m.eternal /\ p.mode # "yolo" THEN {p.id} ELSE {})
      BY <2>2, <2>4, <2>6, <2>7, <2>8, <2>9, RequestUpdateEffect
    <2>11. (IF m.eternal /\ p.mode # "yolo" THEN {p.id} ELSE {}) = r.resolved \ d.resolved
      BY <1>2, <2>5, <2>10
    <2>12. SaysMore(m, r, r.resolved \ d.resolved)  BY <2>10, <2>11
    <2>13. SaysMore(d, r, r.resolved \ d.resolved)
      BY <2>5, <2>12 DEF SaysYesTo, SaysMore
    <2>14. QED  BY <2>5, <2>10, <2>13
  <1>3. QED  BY <1>1, <1>2

\* An answer to the open gate, and the next request comes to the gate.
GateAnswered(d, ids, m, ok, r) ==
  /\ r \in Desk /\ Orderly(r, ids)
  /\ r.layer = m.layer
  /\ d.gate.id \in Standing(d) /\ Standing(r) = Standing(d) \ {d.gate.id}
  /\ SaysMore(d, r, {d.gate.id}) /\ (ok = FALSE => SaysMore(d, r, {}))

LEMMA AnswerGateEffect ==
  ASSUME NEW d \in Desk, NEW ids, Orderly(d, ids), d.gate # NoGate,
         NEW m \in Desk, m.gate = d.gate, m.queue = d.queue, m.pending = d.pending,
         m.out = d.out, NEW ok \in BOOLEAN,
         NEW r, r = OpenNext(CloseGate(Answer(m, d.gate, ok)))
  PROVE  GateAnswered(d, ids, m, ok, r)
  <1> USE DeskFields, RequestFields DEF GateAnswered
  <1> DEFINE p == d.gate  a == Answer(m, p, ok)
  <1>1. p \in Request /\ p \in Entries(d)  BY DEF Entries
  <1> HIDE DEF p
  <1>0. a = Answer(m, p, ok)  OBVIOUS
  <1> HIDE DEF a
  <1>2. Answered(m, p, ok, a)
    BY ONLY <1>1, <1>0, m \in Desk, ok \in BOOLEAN, AnswerEffect, Zenon
  <1>3. r = OpenNext(CloseGate(a))  BY DEF p, a
  <1>4. Standing(a) = Standing(d) /\ Entries(a) = Entries(d) /\ Apart(a)
    BY <1>2, SamePlaces DEF Orderly, Answered
  <1>5. a.gate = p /\ a.gate # NoGate  BY <1>2 DEF p, Answered
  <1>6. /\ r \in Desk
        /\ r.pending = a.pending /\ r.resolved = a.resolved /\ r.eternal = a.eternal
        /\ r.layer = a.layer /\ r.out = a.out
        /\ Standing(r) = Standing(a) \ {a.gate.id}
        /\ Entries(r) \subseteq Entries(a)
        /\ Apart(r)
    BY <1>2, <1>3, <1>4, <1>5, CloseNextEffect DEF Answered
  <1>7. \A q \in r.pending : q \in d.pending /\ q.id # p.id
    <2>1. CASE p.worker = Leader
      BY <2>1, <1>1, <1>2, <1>6 DEF Orderly, LeadersOwn, Answered
    <2>2. CASE p.worker # Leader  BY <2>2, <1>2, <1>6 DEF Answered
    <2>3. QED  BY <2>1, <2>2
  <1>8. LeadersOwn(r, ids)  BY <1>4, <1>6, <1>7 DEF Orderly, LeadersOwn
  <1>9. PendingStands(r)  BY <1>4, <1>5, <1>6, <1>7 DEF Orderly, PendingStands
  <1>10. p.id \in Standing(d)  BY <1>1 DEF Standing, AtGate, p
  <1>11. SaysMore(d, r, {p.id}) /\ (ok = FALSE => SaysMore(d, r, {}))
    BY <1>2, <1>6 DEF SaysYesTo, SaysMore, Answered
  <1>12. QED  BY <1>2, <1>4, <1>5, <1>6, <1>8, <1>9, <1>10, <1>11 DEF Orderly, Answered, p

\* The user's answer.
LEMMA ResolveEffect ==
  ASSUME NEW d \in Desk, NEW ids, Orderly(d, ids), d.gate # NoGate,
         NEW ok \in BOOLEAN, NEW mode \in Modes, NEW r, r = Resolve(d, ok, mode)
  PROVE  /\ r \in Desk /\ Orderly(r, ids)
         /\ r.layer = "yolo" => d.layer = "yolo" \/ (ok /\ mode = "yolo")
         /\ SaysMore(d, r, {d.gate.id}) /\ (ok = FALSE => SaysMore(d, r, {}))
  <1> DEFINE m == IF ok THEN SetMode(d, mode) ELSE d
  <1> DEFINE n == SetMode(d, mode)
  <1>0. n = SetMode(d, mode) /\ m = IF ok THEN n ELSE d  OBVIOUS
  <1> HIDE DEF n, m
  <1>1. m \in Desk  BY <1>0, SetModeEffect
  <1>2. /\ m.gate = d.gate /\ m.queue = d.queue /\ m.pending = d.pending /\ m.out = d.out
        /\ m.layer = "yolo" => d.layer = "yolo" \/ (ok /\ mode = "yolo")
    BY <1>0, SetModeEffect
  <1>3. r = OpenNext(CloseGate(Answer(m, d.gate, ok)))  BY DEF Resolve, n, m
  <1>4. GateAnswered(d, ids, m, ok, r)
    BY ONLY <1>1, <1>2, <1>3, d \in Desk, Orderly(d, ids), d.gate # NoGate,
            ok \in BOOLEAN, AnswerGateEffect, Zenon
  <1>5. QED  BY <1>2, <1>4 DEF GateAnswered
(* A function from Nat that is defined by recursion, without an induction   *)
(* theorem that takes a predicate: the least number of a set.               *)

LEMMA LeastOf ==
  ASSUME NEW T \in SUBSET Nat, T # {}
  PROVE  \E m \in T : \A k \in T : m <= k
  <1>1. PICK m \in T : \A k \in T : ~(<<k, m>> \in OpToRel(<, Nat))
    BY NatLessThanWellFounded, WFMin
  <1>2. \A k \in T : ~(k < m)  BY <1>1 DEF OpToRel
  <1>3. QED  BY <1>2

\* The runs of a loop up to its nth turn.
RunsTo(S, F, d, n) ==
  {h \in [0..n -> S] : h[0] = d /\ \A k \in 0..n : k < n => h[k + 1] = F[h[k]]}

LEMMA RunsExist ==
  ASSUME NEW S, NEW F \in [S -> S], NEW d \in S, NEW n \in Nat
  PROVE  RunsTo(S, F, d, n) # {}
  <1> DEFINE T == {k \in Nat : RunsTo(S, F, d, k) = {}}
  <1>1. SUFFICES ASSUME T # {} PROVE FALSE  OBVIOUS
  <1>2. T \in SUBSET Nat  OBVIOUS
  <1> HIDE DEF T
  <1>3. PICK m \in T : \A k \in T : m <= k  BY <1>1, <1>2, LeastOf
  <1>4. m \in Nat /\ RunsTo(S, F, d, m) = {}  BY DEF T
  <1>5. CASE m = 0
    <2> DEFINE h == [k \in 0..0 |-> d]
    <2>1. h \in [0..0 -> S] /\ h[0] = d  OBVIOUS
    <2>2. \A k \in 0..0 : ~(k < 0)  OBVIOUS
    <2>3. h \in RunsTo(S, F, d, 0)  BY <2>1, <2>2 DEF RunsTo
    <2>4. QED  BY <2>3, <1>4, <1>5
  <1>6. CASE m # 0
    <2>1. m - 1 \in Nat /\ ~(m <= m - 1) /\ (m - 1) + 1 = m  BY <1>4, <1>6
    <2>2. m - 1 \notin T  BY <2>1, <1>3
    <2>3. RunsTo(S, F, d, m - 1) # {}  BY <2>1, <2>2 DEF T
    <2>4. PICK h : h \in RunsTo(S, F, d, m - 1)  BY <2>3
    <2>5. /\ h \in [0..(m - 1) -> S] /\ h[0] = d
          /\ \A k \in 0..(m - 1) : k < m - 1 => h[k + 1] = F[h[k]]
      BY <2>4 DEF RunsTo
    <2> DEFINE g == [k \in 0..m |-> IF k = m THEN F[h[m - 1]] ELSE h[k]]
    <2>6. m - 1 \in 0..(m - 1) /\ h[m - 1] \in S  BY <2>1, <2>5
    <2>7. \A k \in 0..m : k # m => k \in 0..(m - 1)  BY <1>4
    <2>8. g \in [0..m -> S]  BY <2>5, <2>6, <2>7
    <2>9. 0 \in 0..m /\ g[0] = d  BY <1>4, <1>6, <2>5
    <2>10. ASSUME NEW k \in 0..m, k < m PROVE g[k + 1] = F[g[k]]
      <3>1. k + 1 \in 0..m /\ k # m /\ k \in 0..(m - 1)  BY <1>4, <2>10
      <3>2. g[k] = h[k]  BY <3>1
      <3>3. CASE k = m - 1  BY <3>1, <3>2, <3>3, <2>1
      <3>4. CASE k # m - 1
        <4>1. k < m - 1 /\ k + 1 # m  BY <3>1, <3>4, <1>4
        <4>2. h[k + 1] = F[h[k]]  BY <4>1, <3>1, <2>5
        <4>3. g[k + 1] = h[k + 1]  BY <4>1, <3>1
        <4>4. QED  BY <4>2, <4>3, <3>2
      <3>5. QED  BY <3>3, <3>4
    <2> HIDE DEF g
    <2>11. g \in RunsTo(S, F, d, m)  BY <2>8, <2>9, <2>10 DEF RunsTo
    <2>12. QED  BY <2>11, <1>4
  <1>7. QED  BY <1>5, <1>6

LEMMA RunsAgree ==
  ASSUME NEW S, NEW F \in [S -> S], NEW d \in S, NEW n \in Nat, NEW m \in Nat,
         NEW g \in RunsTo(S, F, d, n), NEW h \in RunsTo(S, F, d, m),
         NEW k \in Nat, k <= n, k <= m
  PROVE  g[k] = h[k]
  <1> DEFINE T == {i \in Nat : i <= n /\ i <= m /\ g[i] # h[i]}
  <1>1. SUFFICES ASSUME T # {} PROVE FALSE  OBVIOUS
  <1>2. T \in SUBSET Nat  OBVIOUS
  <1> HIDE DEF T
  <1>3. PICK i \in T : \A j \in T : i <= j  BY <1>1, <1>2, LeastOf
  <1>4. i \in Nat /\ i <= n /\ i <= m /\ g[i] # h[i]  BY DEF T
  <1>5. g[0] = d /\ h[0] = d  BY DEF RunsTo
  <1>6. i # 0  BY <1>4, <1>5
  <1>7. PICK j \in Nat : i = j + 1  BY <1>4, <1>6
  <1>8. j \notin T  BY <1>3, <1>7
  <1>9. g[j] = h[j]  BY <1>4, <1>7, <1>8 DEF T
  <1>10. j \in 0..n /\ j < n /\ j \in 0..m /\ j < m  BY <1>4, <1>7
  <1>11. g[j + 1] = F[g[j]] /\ h[j + 1] = F[h[j]]  BY <1>10 DEF RunsTo
  <1>12. QED  BY <1>4, <1>7, <1>9, <1>11

EndlessRuns(S, F, d) == {g \in [Nat -> S] : g[0] = d /\ \A k \in Nat : g[k + 1] = F[g[k]]}

LEMMA LoopRuns ==
  ASSUME NEW S, NEW F \in [S -> S], NEW d \in S
  PROVE  EndlessRuns(S, F, d) # {}
  <1> DEFINE run(n) == CHOOSE h : h \in RunsTo(S, F, d, n)
             g == [n \in Nat |-> run(n)[n]]
  <1>1. \A n \in Nat : run(n) \in RunsTo(S, F, d, n)  BY RunsExist
  <1> HIDE DEF run
  <1>2. \A n \in Nat : run(n)[n] \in S
    <2>1. \A n \in Nat : n \in 0..n  OBVIOUS
    <2>2. QED  BY <1>1, <2>1 DEF RunsTo
  <1>3. g \in [Nat -> S]  BY <1>2
  <1>4. g[0] = d
    <2>1. run(0)[0] = d  BY <1>1 DEF RunsTo
    <2>2. QED  BY <2>1
  <1>5. ASSUME NEW k \in Nat PROVE g[k + 1] = F[g[k]]
    <2>1. k + 1 \in Nat /\ k <= k + 1 /\ k <= k /\ k \in 0..(k + 1) /\ k < k + 1  OBVIOUS
    <2>2. run(k + 1) \in RunsTo(S, F, d, k + 1) /\ run(k) \in RunsTo(S, F, d, k)
      BY <2>1, <1>1
    <2>3. run(k + 1)[k + 1] = F[run(k + 1)[k]]  BY <2>1, <2>2 DEF RunsTo
    <2>4. run(k + 1)[k] = run(k)[k]  BY <2>1, <2>2, RunsAgree
    <2>5. g[k + 1] = run(k + 1)[k + 1] /\ g[k] = run(k)[k]  BY <2>1
    <2>6. QED  BY <2>3, <2>4, <2>5
  <1> HIDE DEF g
  <1>6. g \in EndlessRuns(S, F, d)  BY <1>3, <1>4, <1>5 DEF EndlessRuns
  <1>7. QED  BY <1>6

\* What holds of a desk after any number of turns of replayPendingOnEternalEnable.
Replayed(d, ids) ==
  {e \in Desk : /\ Orderly(e, ids)
                /\ e.layer = "yolo" => d.layer = "yolo"
                /\ Standing(e) \subseteq Standing(d)
                /\ SaysYesTo(e, Standing(d) \ Standing(e))}

LEMMA ReplayTurnEffect ==
  ASSUME NEW d \in Desk, NEW ids, NEW e \in Replayed(d, ids)
  PROVE  ReplayTurn(e) \in Replayed(d, ids)
  <1> USE DeskFields, RequestFields
  <1>1. /\ e \in Desk /\ Orderly(e, ids) /\ (e.layer = "yolo" => d.layer = "yolo")
        /\ Standing(e) \subseteq Standing(d)
        /\ SaysYesTo(e, Standing(d) \ Standing(e))
    BY DEF Replayed
  <1>2. CASE e.gate = NoGate \/ e.gate.mode = "yolo"
    BY <1>2 DEF ReplayTurn
  <1>3. CASE ~(e.gate = NoGate \/ e.gate.mode = "yolo")
    <2> DEFINE p == e.gate  m == SetMode(e, p.mode)  r == ReplayTurn(e)
               ok == TRUE
    <2>1. p \in Request /\ e.gate # NoGate  BY <1>1, <1>3
    <2>4. r = OpenNext(CloseGate(Answer(m, e.gate, ok))) /\ ok \in BOOLEAN
      BY <1>3 DEF ReplayTurn, ApproveAutomatically
    <2>0. m = SetMode(e, p.mode) /\ p.mode \in Modes /\ p.mode # "yolo"
      BY <1>3, <2>1
    <2> HIDE DEF m, r, ok
    <2>2. m \in Desk  BY <1>1, <2>0, SetModeEffect
    <2>3. /\ m.gate = e.gate /\ m.queue = e.queue /\ m.pending = e.pending
          /\ m.out = e.out /\ (m.layer = "yolo" => e.layer = "yolo")
      BY <1>1, <2>0, SetModeEffect
    <2>5. GateAnswered(e, ids, m, ok, r)
      BY ONLY <1>1, <2>1, <2>2, <2>3, <2>4, AnswerGateEffect, Zenon
    <2>6. /\ r \in Desk /\ Orderly(r, ids) /\ r.layer = m.layer
          /\ p.id \in Standing(e) /\ Standing(r) = Standing(e) \ {p.id}
          /\ SaysMore(e, r, {p.id})
      BY <2>5 DEF GateAnswered
    <2>7. SaysYesTo(e, Standing(d) \ Standing(r))
      BY <1>1, <2>6 DEF SaysYesTo
    <2>8. {p.id} \subseteq Standing(d) \ Standing(r)  BY <1>1, <2>6
    <2>9. SaysYesTo(r, Standing(d) \ Standing(r))  BY <2>6, <2>7, <2>8 DEF SaysMore
    <2>10. Standing(r) \subseteq Standing(d)  BY <1>1, <2>6
    <2>11. r \in Replayed(d, ids)  BY <1>1, <2>3, <2>6, <2>9, <2>10 DEF Replayed
    <2>12. QED  BY <2>11 DEF r
  <1>4. QED  BY <1>2, <1>3

\* replayPendingOnEternalEnable: what leaves the desk is what was approved.
LEMMA ReplayEffect ==
  ASSUME NEW d \in Desk, NEW ids, d \in Replayed(d, ids)
  PROVE  Replay(d) \in Replayed(d, ids)
  <1> DEFINE S == Replayed(d, ids)
             turn == CHOOSE g : g = [k \in Nat |-> IF k = 0 THEN d ELSE ReplayTurn(g[k - 1])]
             F == [e \in S |-> ReplayTurn(e)]
  <1>1. Replay(d) = turn[Len(d.queue) + 1]  BY DEF Replay
  <1>2. Len(d.queue) + 1 \in Nat  BY DeskFields
  <1>3. \A e \in S : ReplayTurn(e) \in S  BY ReplayTurnEffect
  <1> HIDE DEF S, turn
  <1>4. F \in [S -> S]  BY <1>3
  <1>5. \A e \in S : F[e] = ReplayTurn(e)  OBVIOUS
  <1> HIDE DEF F
  <1>6. PICK g \in [Nat -> S] : g[0] = d /\ \A k \in Nat : g[k + 1] = F[g[k]]
    <2>1. d \in S  BY DEF S
    <2>2. EndlessRuns(S, F, d) # {}  BY ONLY <1>4, <2>1, LoopRuns
    <2>3. QED  BY <2>2 DEF EndlessRuns
  <1>7. \A k \in Nat : g[k] = IF k = 0 THEN d ELSE ReplayTurn(g[k - 1])
    <2>1. TAKE k \in Nat
    <2>2. CASE k = 0  BY <2>2, <1>6
    <2>3. CASE k # 0
      <3>1. PICK j \in Nat : k = j + 1  BY <2>3
      <3>2. k - 1 = j  BY <3>1
      <3>3. g[k] = F[g[j]] /\ g[j] \in S  BY <3>1, <1>6
      <3>4. QED  BY <2>3, <3>2, <3>3, <1>5
    <2>4. QED  BY <2>2, <2>3
  <1>8. g = [k \in Nat |-> IF k = 0 THEN d ELSE ReplayTurn(g[k - 1])]
    BY <1>6, <1>7
  <1>9. turn = [k \in Nat |-> IF k = 0 THEN d ELSE ReplayTurn(turn[k - 1])]
    BY <1>8 DEF turn
  <1> DEFINE T == {k \in Nat : turn[k] \notin S}
  <1>10. T = {}
    <2>1. SUFFICES ASSUME T # {} PROVE FALSE  OBVIOUS
    <2>2. T \in SUBSET Nat  OBVIOUS
    <2> HIDE DEF T
    <2>3. PICK m \in T : \A k \in T : m <= k  BY <2>1, <2>2, LeastOf
    <2>4. m \in Nat /\ turn[m] \notin S  BY DEF T
    <2>5. turn[0] = d  BY <1>9
    <2>6. m # 0  BY <2>4, <2>5 DEF S
    <2>7. m - 1 \in Nat /\ ~(m <= m - 1)  BY <2>4, <2>6
    <2>8. m - 1 \notin T  BY <2>3, <2>7
    <2>9. turn[m - 1] \in S  BY <2>7, <2>8 DEF T
    <2>10. turn[m] = ReplayTurn(turn[m - 1])  BY <1>9, <2>4, <2>6
    <2>11. QED  BY <2>4, <2>9, <2>10, <1>3
  <1>11. QED  BY <1>1, <1>2, <1>10 DEF S

(* The requests on their way to the Leader *)

OldUnread(s, n, ids) ==
  \A i \in 1..Len(s) : s[i].worker \in Workers /\ s[i].id <= n /\ s[i].id \notin ids
DistinctIds(s) == \A i, j \in 1..Len(s) : s[i].id = s[j].id => i = j
NoSharedId(s, t) == \A i \in 1..Len(s), j \in 1..Len(t) : s[i].id # t[j].id

\* sent: the requests on the workers' channels. box: those in the Leader's inbox.
\* A request is there once, and the Leader's conversation has not had its id.
MessagesApart(sent, box, n, ids) ==
  /\ \A w \in Workers : OldUnread(sent[w], n, ids) /\ DistinctIds(sent[w])
  /\ OldUnread(box, n, ids) /\ DistinctIds(box)
  /\ \A w \in Workers : NoSharedId(sent[w], box)
  /\ \A w, v \in Workers : w # v => NoSharedId(sent[w], sent[v])
  /\ \A id \in ids : id <= n

LEMMA IdsOf ==
  ASSUME NEW s \in Seq(Request)
  PROVE  \A i \in 1..Len(s) : s[i] \in Request /\ s[i].id \in Nat
  <1>1. TAKE i \in 1..Len(s)
  <1>2. s[i] \in Request  BY ElementOfSeq
  <1>3. QED  BY <1>2 DEF Request, Ids

\* A new request goes on a channel.
LEMMA AskedApart ==
  ASSUME NEW sent \in [Workers -> Seq(Request)], NEW box \in Seq(Request), NEW n \in Nat,
         NEW ids \in SUBSET Ids, MessagesApart(sent, box, n, ids),
         NEW w \in Workers, NEW m \in Request, m.id = n + 1, m.worker \in Workers
  PROVE  MessagesApart([sent EXCEPT ![w] = Append(sent[w], m)], box, n + 1, ids)
  <1> DEFINE s == Append(sent[w], m)  more == [sent EXCEPT ![w] = s]
  <1>1. PICK k \in Nat : k = Len(sent[w])  BY LenProperties
  <1>2. s \in Seq(Request) /\ Len(s) = k + 1 /\ (\A i \in 1..k : s[i] = sent[w][i]) /\ s[k + 1] = m
    BY <1>1, AppendAt
  <1> HIDE DEF s
  <1>3. \A v \in Workers : more[v] = IF v = w THEN s ELSE sent[v]  OBVIOUS
  <1> HIDE DEF more
  <1>4. \A i \in 1..(k + 1) : i = k + 1 \/ i \in 1..k  OBVIOUS
  <1>5. /\ \A v \in Workers : \A i \in 1..Len(sent[v]) : sent[v][i].id \in Nat
        /\ \A i \in 1..Len(box) : box[i].id \in Nat
    BY IdsOf
  <1>6. \A v \in Workers : OldUnread(sent[v], n, ids) /\ DistinctIds(sent[v])
    BY DEF MessagesApart
  <1>7. OldUnread(box, n, ids)  BY DEF MessagesApart
  <1>8. n + 1 \notin ids /\ \A id \in ids : id <= n + 1
    <2>1. \A id \in ids : id \in Nat /\ id <= n  BY DEF MessagesApart, Ids
    <2>2. QED  BY <2>1
  <1>9. \A v \in Workers : OldUnread(sent[v], n + 1, ids)
    BY <1>5, <1>6 DEF OldUnread
  <1>10. OldUnread(box, n + 1, ids)
    BY <1>5, <1>7 DEF OldUnread
  <1>11. OldUnread(s, n + 1, ids)
    <2>1. SUFFICES ASSUME NEW i \in 1..(k + 1)
                   PROVE  s[i].worker \in Workers /\ s[i].id <= n + 1 /\ s[i].id \notin ids
      BY <1>2 DEF OldUnread
    <2>2. CASE i = k + 1  BY <2>2, <1>2, <1>8
    <2>3. CASE i \in 1..k  BY <2>3, <1>1, <1>2, <1>9 DEF OldUnread
    <2>4. QED  BY <2>2, <2>3, <1>4
  <1>12. \A v \in Workers : \A i \in 1..Len(sent[v]) : sent[v][i].id # n + 1
    BY <1>5, <1>6 DEF OldUnread
  <1>13. \A i \in 1..Len(box) : box[i].id # n + 1
    BY <1>5, <1>7 DEF OldUnread
  <1>14. DistinctIds(s)
    <2>1. SUFFICES ASSUME NEW i \in 1..(k + 1), NEW j \in 1..(k + 1), s[i].id = s[j].id
                   PROVE  i = j
      BY <1>2 DEF DistinctIds
    <2>2. CASE i \in 1..k /\ j \in 1..k  BY <2>1, <2>2, <1>1, <1>2, <1>6 DEF DistinctIds
    <2>3. CASE i \in 1..k /\ j = k + 1  BY <2>1, <2>3, <1>1, <1>2, <1>12
    <2>4. CASE i = k + 1 /\ j \in 1..k  BY <2>1, <2>4, <1>1, <1>2, <1>12
    <2>5. QED  BY <2>2, <2>3, <2>4, <1>4
  <1>15. NoSharedId(s, box)
    <2>1. SUFFICES ASSUME NEW i \in 1..(k + 1), NEW j \in 1..Len(box)
                   PROVE  s[i].id # box[j].id
      BY <1>2 DEF NoSharedId
    <2>2. CASE i = k + 1  BY <2>2, <1>2, <1>13
    <2>3. CASE i \in 1..k  BY <2>3, <1>1, <1>2 DEF MessagesApart, NoSharedId
    <2>4. QED  BY <2>2, <2>3, <1>4
  <1>16. \A v \in Workers : v # w => NoSharedId(s, sent[v]) /\ NoSharedId(sent[v], s)
    <2>1. SUFFICES ASSUME NEW v \in Workers, v # w, NEW i \in 1..(k + 1), NEW j \in 1..Len(sent[v])
                   PROVE  s[i].id # sent[v][j].id
      BY <1>2 DEF NoSharedId
    <2>2. CASE i = k + 1  BY <2>2, <1>2, <1>12
    <2>3. CASE i \in 1..k
      <3>1. NoSharedId(sent[w], sent[v])  BY <2>1 DEF MessagesApart
      <3>2. QED  BY <3>1, <2>3, <1>1, <1>2 DEF NoSharedId
    <2>4. QED  BY <2>2, <2>3, <1>4
  <1>17. \A v \in Workers : OldUnread(more[v], n + 1, ids) /\ DistinctIds(more[v])
    BY <1>3, <1>6, <1>9, <1>11, <1>14
  <1>18. \A v \in Workers : NoSharedId(more[v], box)
    BY <1>3, <1>15 DEF MessagesApart
  <1>19. \A u, v \in Workers : u # v => NoSharedId(more[u], more[v])
    BY <1>3, <1>16 DEF MessagesApart
  <1>20. MessagesApart(more, box, n + 1, ids)
    BY <1>8, <1>10, <1>17, <1>18, <1>19 DEF MessagesApart
  <1>21. QED  BY <1>20 DEF more, s

\* What a sequence says of its ids, its tail says too.
LEMMA TailKeeps ==
  ASSUME NEW s \in Seq(Request), s # <<>>
  PROVE  /\ \A n, ids : OldUnread(s, n, ids) => OldUnread(Tail(s), n, ids)
         /\ DistinctIds(s) => DistinctIds(Tail(s))
         /\ \A t : NoSharedId(s, t) => NoSharedId(Tail(s), t)
         /\ \A t : NoSharedId(t, s) => NoSharedId(t, Tail(s))
         /\ DistinctIds(s) => \A i \in 1..Len(Tail(s)) : Tail(s)[i].id # Head(s).id
  <1>1. PICK n \in Nat : Len(s) = n + 1
    <2>1. Len(s) \in Nat \ {0}  BY FirstOf
    <2>2. Len(s) - 1 \in Nat /\ Len(s) = (Len(s) - 1) + 1  BY <2>1
    <2>3. QED  BY <2>2
  <1>2. Len(Tail(s)) = n /\ Head(s) = s[1] /\ \A i \in 1..n : Tail(s)[i] = s[i + 1]
    BY <1>1, FirstOf
  <1>3. \A i \in 1..n : i + 1 \in 1..(n + 1) /\ i + 1 # 1  OBVIOUS
  <1>4. 1 \in 1..(n + 1)  OBVIOUS
  <1>5. ASSUME DistinctIds(s) PROVE DistinctIds(Tail(s))
    <2>1. SUFFICES ASSUME NEW i \in 1..n, NEW j \in 1..n, Tail(s)[i].id = Tail(s)[j].id
                   PROVE  i = j
      BY <1>2 DEF DistinctIds
    <2>2. s[i + 1].id = s[j + 1].id  BY <2>1, <1>2
    <2>3. i + 1 = j + 1  BY <2>2, <1>1, <1>3, <1>5 DEF DistinctIds
    <2>4. QED  BY <2>3
  <1>6. QED  BY <1>1, <1>2, <1>3, <1>4, <1>5 DEF OldUnread, DistinctIds, NoSharedId

\* A request comes from a channel into the Leader's inbox.
LEMMA ArrivedApart ==
  ASSUME NEW sent \in [Workers -> Seq(Request)], NEW box \in Seq(Request), NEW n \in Nat,
         NEW ids \in SUBSET Ids, MessagesApart(sent, box, n, ids),
         NEW w \in Workers, sent[w] # <<>>
  PROVE  MessagesApart([sent EXCEPT ![w] = Tail(sent[w])], Append(box, Head(sent[w])), n, ids)
  <1> DEFINE h == Head(sent[w])  t == Tail(sent[w])  s == sent[w]
             more == [sent EXCEPT ![w] = t]  b == Append(box, h)
  <1>1. s \in Seq(Request) /\ s # <<>>  OBVIOUS
  <1>2. h \in Request /\ h = s[1] /\ Len(s) \in Nat \ {0}  BY <1>1, FirstOf
  <1>3. 1 \in 1..Len(s)  BY <1>2
  <1>4. PICK k \in Nat : k = Len(box)  BY LenProperties
  <1>5. b \in Seq(Request) /\ Len(b) = k + 1 /\ (\A i \in 1..k : b[i] = box[i]) /\ b[k + 1] = h
    BY <1>2, <1>4, AppendAt
  <1>6. \A v \in Workers : more[v] = IF v = w THEN t ELSE sent[v]  OBVIOUS
  <1>7. OldUnread(s, n, ids) /\ DistinctIds(s) /\ NoSharedId(s, box)  BY DEF MessagesApart
  <1>8. \A v \in Workers : v # w => NoSharedId(s, sent[v]) /\ NoSharedId(sent[v], s)
    BY DEF MessagesApart
  <1>9. /\ OldUnread(t, n, ids) /\ DistinctIds(t) /\ NoSharedId(t, box)
        /\ \A i \in 1..Len(t) : t[i].id # h.id
        /\ \A v \in Workers : v # w => NoSharedId(t, sent[v]) /\ NoSharedId(sent[v], t)
    BY <1>1, <1>7, <1>8, TailKeeps
  <1> HIDE DEF h, t, b, more
  <1>10. \A i \in 1..(k + 1) : i = k + 1 \/ i \in 1..k  OBVIOUS
  <1>11. OldUnread(b, n, ids)
    <2>1. OldUnread(box, n, ids)  BY DEF MessagesApart
    <2>2. h.worker \in Workers /\ h.id <= n /\ h.id \notin ids  BY <1>2, <1>3, <1>7 DEF OldUnread
    <2>3. QED  BY <2>1, <2>2, <1>4, <1>5, <1>10 DEF OldUnread
  <1>12. \A i \in 1..k : box[i].id # h.id
    BY <1>2, <1>3, <1>4, <1>7 DEF NoSharedId
  <1>13. DistinctIds(b)
    <2>1. DistinctIds(box)  BY DEF MessagesApart
    <2>2. SUFFICES ASSUME NEW i \in 1..(k + 1), NEW j \in 1..(k + 1), b[i].id = b[j].id
                   PROVE  i = j
      BY <1>5 DEF DistinctIds
    <2>3. CASE i \in 1..k /\ j \in 1..k  BY <2>1, <2>2, <2>3, <1>4, <1>5 DEF DistinctIds
    <2>4. CASE i \in 1..k /\ j = k + 1  BY <2>2, <2>4, <1>5, <1>12
    <2>5. CASE i = k + 1 /\ j \in 1..k  BY <2>2, <2>5, <1>5, <1>12
    <2>6. QED  BY <2>3, <2>4, <2>5, <1>10
  <1>14. \A v \in Workers : NoSharedId(more[v], b)
    <2>1. SUFFICES ASSUME NEW v \in Workers, NEW i \in 1..Len(more[v]), NEW j \in 1..(k + 1)
                   PROVE  more[v][i].id # b[j].id
      BY <1>5 DEF NoSharedId
    <2>2. CASE j \in 1..k
      <3>1. NoSharedId(more[v], box)  BY <1>6, <1>9 DEF MessagesApart
      <3>2. QED  BY <3>1, <2>2, <1>4, <1>5 DEF NoSharedId
    <2>3. CASE j = k + 1 /\ v = w  BY <2>3, <1>5, <1>6, <1>9
    <2>4. CASE j = k + 1 /\ v # w
      <3>1. NoSharedId(sent[v], s) /\ more[v] = sent[v]  BY <2>4, <1>6, <1>8
      <3>2. QED  BY <3>1, <2>4, <1>2, <1>3, <1>5 DEF NoSharedId
    <2>5. QED  BY <2>2, <2>3, <2>4, <1>10
  <1>15. \A v \in Workers : OldUnread(more[v], n, ids) /\ DistinctIds(more[v])
    BY <1>6, <1>9 DEF MessagesApart
  <1>16. \A u, v \in Workers : u # v => NoSharedId(more[u], more[v])
    BY <1>6, <1>9 DEF MessagesApart
  <1>17. MessagesApart(more, b, n, ids)
    BY <1>11, <1>13, <1>14, <1>15, <1>16 DEF MessagesApart
  <1>18. QED  BY <1>17 DEF more, b, h, t

\* The Leader reads the first request of its inbox.
LEMMA ReadApart ==
  ASSUME NEW sent \in [Workers -> Seq(Request)], NEW box \in Seq(Request), NEW n \in Nat,
         NEW ids \in SUBSET Ids, MessagesApart(sent, box, n, ids), box # <<>>
  PROVE  MessagesApart(sent, Tail(box), n, ids \cup {Head(box).id})
  <1> DEFINE h == Head(box)  t == Tail(box)
  <1>1. h = box[1] /\ Len(box) \in Nat \ {0}  BY FirstOf
  <1>2. 1 \in 1..Len(box)  BY <1>1
  <1>3. OldUnread(box, n, ids) /\ DistinctIds(box) /\ \A w \in Workers : NoSharedId(sent[w], box)
    BY DEF MessagesApart
  <1>4. /\ OldUnread(t, n, ids) /\ DistinctIds(t)
        /\ \A w \in Workers : NoSharedId(sent[w], t)
        /\ \A i \in 1..Len(t) : t[i].id # h.id
    BY <1>3, TailKeeps
  <1> HIDE DEF h, t
  <1>5. OldUnread(t, n, ids \cup {h.id})  BY <1>4 DEF OldUnread
  <1>6. \A w \in Workers : OldUnread(sent[w], n, ids \cup {h.id})
    <2>1. \A w \in Workers : \A i \in 1..Len(sent[w]) : sent[w][i].id # h.id
      BY <1>1, <1>2, <1>3 DEF NoSharedId
    <2>2. QED  BY <2>1 DEF MessagesApart, OldUnread
  <1>7. h.id <= n  BY <1>1, <1>2, <1>3 DEF OldUnread
  <1>8. MessagesApart(sent, t, n, ids \cup {h.id})
    BY <1>4, <1>5, <1>6, <1>7 DEF MessagesApart
  <1>9. QED  BY <1>8 DEF h, t

\* The Leader asks with an id that it knows or that is new.
LEMMA LeaderAskedApart ==
  ASSUME NEW sent \in [Workers -> Seq(Request)], NEW box \in Seq(Request), NEW n \in Nat,
         NEW ids \in SUBSET Ids, MessagesApart(sent, box, n, ids),
         NEW id \in ids \cup {n + 1}
  PROVE  MessagesApart(sent, box, IF id > n THEN id ELSE n, ids \cup {id})
  <1>1. CASE id \in ids
    <2>1. id \in Nat /\ id <= n  BY <1>1 DEF MessagesApart, Ids
    <2>2. ~(id > n) /\ ids \cup {id} = ids  BY <1>1, <2>1
    <2>3. QED  BY <2>2
  <1>2. CASE id = n + 1
    <2>1. id > n  BY <1>2
    <2>2. ASSUME NEW s \in Seq(Request), OldUnread(s, n, ids)
          PROVE  OldUnread(s, n + 1, ids \cup {n + 1})
      <3>1. \A i \in 1..Len(s) : s[i].id \in Nat  BY IdsOf
      <3>2. QED  BY <3>1, <2>2 DEF OldUnread
    <2>3. \A i \in ids \cup {n + 1} : i <= n + 1
      <3>1. \A i \in ids : i \in Nat /\ i <= n  BY DEF MessagesApart, Ids
      <3>2. QED  BY <3>1
    <2>4. MessagesApart(sent, box, n + 1, ids \cup {n + 1})
      BY <2>2, <2>3 DEF MessagesApart
    <2>5. QED  BY <2>1, <2>4, <1>2
  <1>3. QED  BY <1>1, <1>2

(* The inductive invariant *)

\* Every yes of a sequence of answers is to a request of a set.
TrueTo(s, yes) == \A i \in 1..Len(s) : s[i].ok => s[i].id \in yes

\* Every yes on its way to a call that waits was said to its request.
AnswersTrue ==
  \A w \in Workers :
    /\ TrueTo(proc[w].inbox, approved)
    /\ TrueTo(link[w].held, approved) /\ TrueTo(link[w].toWorker, approved)

DeskInOrder == Orderly(desk, known)

RequestsApart ==
  MessagesApart([w \in Workers |-> link[w].toLeader], leaderBox, asked, known)

\* The mode "yolo" of the session's own layer came from the user.
LayerChosen == desk.layer = "yolo" => consent

ExchangeInv ==
  TypeOK /\ DeskInOrder /\ RequestsApart /\ AnswersTrue /\ GrantsAreApproved /\ LayerChosen

LEMMA WorkerFields ==
  ASSUME TypeOK, NEW w \in Workers
  PROVE  /\ proc[w] \in Process /\ link[w] \in Link
         /\ proc[w].up \in BOOLEAN /\ proc[w].waits \in SUBSET Ids
         /\ proc[w].inbox \in Seq(Response) /\ proc[w].timeouts \in 0..2
         /\ link[w].toLeader \in Seq(Request) /\ link[w].held \in Seq(Response)
         /\ link[w].toWorker \in Seq(Response)
  <1>1. proc[w] \in Process /\ link[w] \in Link  BY DEF TypeOK
  <1>2. QED  BY <1>1 DEF Process, Link

LEMMA TrueAppend ==
  ASSUME NEW s \in Seq(Response), NEW r \in Response, NEW yes,
         TrueTo(s, yes), r.ok => r.id \in yes
  PROVE  Append(s, r) \in Seq(Response) /\ TrueTo(Append(s, r), yes)
  <1>1. PICK n \in Nat : n = Len(s)  BY LenProperties
  <1>2. /\ Append(s, r) \in Seq(Response) /\ Len(Append(s, r)) = n + 1
        /\ \A i \in 1..n : Append(s, r)[i] = s[i]
        /\ Append(s, r)[n + 1] = r
    BY <1>1, AppendAt
  <1>3. \A i \in 1..(n + 1) : i = n + 1 \/ i \in 1..n  OBVIOUS
  <1>4. QED  BY <1>1, <1>2, <1>3 DEF TrueTo

LEMMA TrueTail ==
  ASSUME NEW s \in Seq(Response), s # <<>>, NEW yes, TrueTo(s, yes)
  PROVE  /\ Tail(s) \in Seq(Response) /\ TrueTo(Tail(s), yes)
         /\ Head(s) \in Response /\ (Head(s).ok => Head(s).id \in yes)
  <1>1. PICK n \in Nat : Len(s) = n + 1
    <2>1. Len(s) \in Nat \ {0}  BY FirstOf
    <2>2. Len(s) - 1 \in Nat /\ Len(s) = (Len(s) - 1) + 1  BY <2>1
    <2>3. QED  BY <2>2
  <1>2. /\ Tail(s) \in Seq(Response) /\ Len(Tail(s)) = n
        /\ Head(s) = s[1] /\ Head(s) \in Response
        /\ \A i \in 1..n : Tail(s)[i] = s[i + 1]
    BY <1>1, FirstOf
  <1>3. 1 \in 1..(n + 1) /\ \A i \in 1..n : i + 1 \in 1..(n + 1)  OBVIOUS
  <1>4. QED  BY <1>1, <1>2, <1>3 DEF TrueTo

LEMMA TrueConcat ==
  ASSUME NEW s \in Seq(Response), NEW t \in Seq(Response), NEW yes,
         TrueTo(s, yes), TrueTo(t, yes)
  PROVE  s \o t \in Seq(Response) /\ TrueTo(s \o t, yes)
  <1>1. PICK n \in Nat : n = Len(s)  BY LenProperties
  <1>2. PICK m \in Nat : m = Len(t)  BY LenProperties
  <1>3. /\ s \o t \in Seq(Response) /\ Len(s \o t) = n + m
        /\ \A i \in 1..(n + m) : (s \o t)[i] = IF i <= n THEN s[i] ELSE t[i - n]
    BY <1>1, <1>2, ConcatProperties
  <1>4. \A i \in 1..(n + m) : (i <= n /\ i \in 1..n) \/ (~(i <= n) /\ i - n \in 1..m)
    OBVIOUS
  <1>5. QED  BY <1>1, <1>2, <1>3, <1>4 DEF TrueTo

LEMMA TrueMore ==
  ASSUME NEW s, NEW yes, NEW more, TrueTo(s, yes), yes \subseteq more
  PROVE  TrueTo(s, more)
  BY DEF TrueTo

LEMMA EmptyTrue ==
  ASSUME NEW yes
  PROVE  <<>> \in Seq(Response) /\ TrueTo(<<>>, yes)
  BY DEF TrueTo

LEMMA RequestsKept ==
  ASSUME RequestsApart, \A w \in Workers : link'[w].toLeader = link[w].toLeader,
         leaderBox' = leaderBox, asked' = asked, known' = known
  PROVE  RequestsApart'
  <1>1. [w \in Workers |-> link[w].toLeader]' = [w \in Workers |-> link[w].toLeader]
    OBVIOUS
  <1>2. QED  BY <1>1 DEF RequestsApart

LEMMA DeskKept ==
  ASSUME NEW d, NEW e, NEW ids, Orderly(d, ids),
         e.gate = d.gate, e.queue = d.queue, e.pending = d.pending
  PROVE  Orderly(e, ids)
  <1>1. Standing(e) = Standing(d) /\ Entries(e) = Entries(d) /\ (Apart(e) <=> Apart(d))
    BY SamePlaces
  <1>2. QED  BY <1>1 DEF Orderly, LeadersOwn, PendingStands

LEMMA OrderlyMore ==
  ASSUME NEW d, NEW ids, NEW more, Orderly(d, ids), ids \subseteq more
  PROVE  Orderly(d, more)
  BY DEF Orderly, LeadersOwn

LEMMA InitInv == Init => ExchangeInv
  <1> SUFFICES ASSUME Init PROVE ExchangeInv  OBVIOUS
  <1> USE DEF Init
  <1>1. NothingSent \in [Workers -> Seq(Response)]  BY DEF NothingSent
  <1>2. NewDesk \in Desk /\ NewDesk.out = NothingSent
    <2>1. <<>> \in Seq(Request) /\ {} \in SUBSET Request /\ {} \in SUBSET Ids  OBVIOUS
    <2>2. QED  BY <1>1, <2>1 DEF NewDesk, Desk
  <1>3. Started \in Process /\ NoMessages \in Link
    BY DEF Started, Process, NoMessages, Link, Ids
  <1>4. TypeOK
    <2>1. asked \in 0..MaxRequests  BY DeskAssumption
    <2>2. leaderBox \in Seq(Request)  OBVIOUS
    <2>3. QED  BY <1>2, <1>3, <2>1, <2>2 DEF TypeOK
  <1>5. NewDesk.gate = NoGate /\ NewDesk.queue = <<>> /\ NewDesk.pending = {} /\ NewDesk.layer = "unset"
    BY DEF NewDesk
  <1>6. DeskInOrder
    BY <1>5, GateAssumption
    DEF DeskInOrder, Orderly, Apart, QueueApart, BehindGate, LeadersOwn, Entries, PendingStands
  <1>7. RequestsApart
    BY DEF RequestsApart, MessagesApart, OldUnread, DistinctIds, NoSharedId, NoMessages
  <1>8. AnswersTrue
    BY DEF AnswersTrue, TrueTo, Started, NoMessages
  <1>9. GrantsAreApproved /\ LayerChosen
    BY <1>5 DEF GrantsAreApproved, LayerChosen
  <1>10. QED  BY <1>4, <1>6, <1>7, <1>8, <1>9 DEF ExchangeInv

(* The steps of a worker's side *)

LEMMA WorkerStep ==
  ASSUME ExchangeInv, UNCHANGED <<desk, known, approved, consent, leaderBox>>,
         NEW w \in Workers,
         NEW p \in Process, proc' = [proc EXCEPT ![w] = p], TrueTo(p.inbox, approved),
         NEW k \in Link, link' = [link EXCEPT ![w] = k],
         TrueTo(k.held, approved), TrueTo(k.toWorker, approved),
         asked' \in 0..MaxRequests, RequestsApart',
         granted' \subseteq Ids, granted' \subseteq approved
  PROVE  ExchangeInv'
  <1>1. /\ \A v \in Workers : proc'[v] = IF v = w THEN p ELSE proc[v]
        /\ \A v \in Workers : link'[v] = IF v = w THEN k ELSE link[v]
    BY DEF ExchangeInv, TypeOK
  <1>2. TypeOK'  BY DEF ExchangeInv, TypeOK
  <1>3. AnswersTrue'  BY <1>1 DEF ExchangeInv, AnswersTrue
  <1>4. DeskInOrder' /\ LayerChosen'
    BY DEF ExchangeInv, DeskInOrder, LayerChosen
  <1>5. GrantsAreApproved'  BY DEF GrantsAreApproved
  <1>6. QED  BY <1>2, <1>3, <1>4, <1>5 DEF ExchangeInv

LEMMA AskStep ==
  ASSUME ExchangeInv, NEW w \in Workers, AskPermission(w)
  PROVE  ExchangeInv'
  <1> USE DEF ExchangeInv
  <1> DEFINE m == [id |-> asked + 1, worker |-> w, mode |-> "other"]
             s == Append(link[w].toLeader, m)
             k == [link[w] EXCEPT !.toLeader = s]
             sent == [v \in Workers |-> link[v].toLeader]
  <1>1. /\ asked' = asked + 1 /\ asked < MaxRequests
        /\ UNCHANGED <<desk, leaderBox, known, approved, consent>>
        /\ Await(w, asked + 1)
        /\ link' = [link EXCEPT ![w].toLeader = Append(@, m)]
    BY DEF AskPermission
  <1>2. asked \in Nat /\ asked + 1 \in Ids /\ asked' \in 0..MaxRequests
    BY <1>1, DeskAssumption DEF TypeOK, Ids
  <1>3. m \in Request /\ m.id = asked + 1 /\ m.worker \in Workers
    BY <1>2 DEF Request, Modes
  <1> HIDE DEF m
  <1>4. s \in Seq(Request)  BY <1>3, WorkerFields, AppendAt
  <1>5. k \in Link /\ k.toLeader = s /\ k.held = link[w].held /\ k.toWorker = link[w].toWorker
    BY <1>4, WorkerFields DEF Link
  <1>6. link' = [link EXCEPT ![w] = k]
    <2>1. link[w] \in Link  BY WorkerFields
    <2>2. QED  BY <1>1, <2>1 DEF TypeOK, Link
  <1> HIDE DEF k
  <1>7. RequestsApart'
    <2>1. sent \in [Workers -> Seq(Request)]  BY WorkerFields
    <2>2. sent[w] = link[w].toLeader  OBVIOUS
    <2>3. MessagesApart([sent EXCEPT ![w] = Append(sent[w], m)], leaderBox, asked + 1, known)
      BY <1>2, <1>3, <2>1, AskedApart DEF TypeOK, RequestsApart
    <2>4. [v \in Workers |-> link'[v].toLeader] = [sent EXCEPT ![w] = Append(sent[w], m)]
      BY <1>5, <1>6, <2>2 DEF TypeOK
    <2>5. QED  BY <1>1, <2>3, <2>4 DEF RequestsApart
  <1>8. TrueTo(proc[w].inbox, approved) /\ TrueTo(k.held, approved) /\ TrueTo(k.toWorker, approved)
    BY <1>5 DEF AnswersTrue
  <1>9. CASE proc[w].inbox = <<>>
    <2> DEFINE p == [proc[w] EXCEPT !.waits = @ \cup {asked + 1}]
    <2>1. granted' = granted /\ proc' = [proc EXCEPT ![w].waits = @ \cup {asked + 1}]
      BY <1>1, <1>9 DEF Await
    <2>2. proc[w] \in Process /\ proc[w].waits \in SUBSET Ids  BY WorkerFields
    <2>3. proc[w].waits \cup {asked + 1} \in SUBSET Ids  BY <1>2, <2>2
    <2>4. p \in Process /\ p.inbox = proc[w].inbox
      <3> DEFINE ws == proc[w].waits \cup {asked + 1}
      <3>1. p = [proc[w] EXCEPT !.waits = ws]  BY <2>2 DEF Process
      <3>2. ws \in SUBSET Ids  BY <2>3
      <3> HIDE DEF ws, p
      <3>3. QED  BY <2>2, <3>1, <3>2 DEF Process
    <2>5. proc' = [proc EXCEPT ![w] = p]  BY <2>1, <2>2 DEF TypeOK, Process
    <2> HIDE DEF p
    <2>6. TrueTo(p.inbox, approved)  BY <1>8, <2>4
    <2>7. granted' \subseteq Ids /\ granted' \subseteq approved
      BY <2>1 DEF TypeOK, GrantsAreApproved
    <2>8. QED
      BY <1>1, <1>2, <1>5, <1>6, <1>7, <1>8, <2>4, <2>5, <2>6, <2>7, WorkerStep
  <1>10. CASE proc[w].inbox # <<>>
    <2>1. /\ granted' = granted \cup (IF Granted(asked + 1, Head(proc[w].inbox)) THEN {asked + 1} ELSE {})
          /\ proc' = proc
      BY <1>1, <1>10 DEF Await
    <2>2. Head(proc[w].inbox).ok => Head(proc[w].inbox).id \in approved
      BY <1>8, <1>10, WorkerFields, TrueTail
    <2>3. granted' \subseteq Ids /\ granted' \subseteq approved
      BY <1>2, <2>1, <2>2 DEF TypeOK, GrantsAreApproved, Granted
    <2>4. proc' = [proc EXCEPT ![w] = proc[w]] /\ proc[w] \in Process
      BY <2>1 DEF TypeOK
    <2>5. QED
      BY <1>1, <1>2, <1>5, <1>6, <1>7, <1>8, <2>3, <2>4, WorkerStep
  <1>11. QED  BY <1>9, <1>10

LEMMA AnswerStep ==
  ASSUME ExchangeInv, NEW w \in Workers, AnswerArrives(w)
  PROVE  ExchangeInv'
  <1> USE DEF ExchangeInv
  <1> DEFINE r == Head(link[w].toWorker)
             k == [link[w] EXCEPT !.toWorker = Tail(link[w].toWorker)]
             p == [proc[w] EXCEPT !.waits = {}, !.inbox = Append(proc[w].inbox, r)]
  <1>1. /\ link[w].toWorker # <<>>
        /\ proc' = [proc EXCEPT ![w].waits = {}, ![w].inbox = Append(@, r)]
        /\ granted' = granted \cup {id \in proc[w].waits : Granted(id, r)}
        /\ link' = [link EXCEPT ![w].toWorker = Tail(@)]
        /\ UNCHANGED <<desk, leaderBox, asked, known, approved, consent>>
    BY DEF AnswerArrives
  <1>2. /\ proc[w] \in Process /\ link[w] \in Link /\ proc[w].waits \in SUBSET Ids
        /\ proc[w].inbox \in Seq(Response) /\ link[w].toWorker \in Seq(Response)
    BY WorkerFields
  <1>3. /\ TrueTo(proc[w].inbox, approved) /\ TrueTo(link[w].held, approved)
        /\ TrueTo(link[w].toWorker, approved)
    BY DEF AnswersTrue
  <1>4. /\ Tail(link[w].toWorker) \in Seq(Response) /\ TrueTo(Tail(link[w].toWorker), approved)
        /\ r \in Response /\ (r.ok => r.id \in approved)
    BY <1>1, <1>2, <1>3, TrueTail
  <1> HIDE DEF r
  <1>5. Append(proc[w].inbox, r) \in Seq(Response) /\ TrueTo(Append(proc[w].inbox, r), approved)
    BY <1>2, <1>3, <1>4, TrueAppend
  <1>6. k \in Link /\ k.toLeader = link[w].toLeader /\ k.held = link[w].held /\ k.toWorker = Tail(link[w].toWorker)
    BY <1>2, <1>4 DEF Link
  <1>7. p \in Process /\ p.inbox = Append(proc[w].inbox, r)
    <2>1. {} \in SUBSET Ids  OBVIOUS
    <2>2. QED  BY <1>2, <1>5, <2>1 DEF Process
  <1>8. link' = [link EXCEPT ![w] = k]  BY <1>1, <1>2 DEF TypeOK, Link
  <1>9. proc' = [proc EXCEPT ![w] = p]  BY <1>1, <1>2 DEF TypeOK, Process
  <1> HIDE DEF k, p
  <1>10. RequestsApart'
    <2>1. \A v \in Workers : link'[v].toLeader = link[v].toLeader
      BY <1>6, <1>8 DEF TypeOK
    <2>2. QED  BY <1>1, <2>1, RequestsKept
  <1>11. granted' \subseteq Ids /\ granted' \subseteq approved
    BY <1>1, <1>2, <1>4 DEF TypeOK, GrantsAreApproved, Granted
  <1>12. asked' \in 0..MaxRequests  BY <1>1 DEF TypeOK
  <1>13. /\ TrueTo(p.inbox, approved) /\ TrueTo(k.held, approved) /\ TrueTo(k.toWorker, approved)
         /\ p \in Process /\ k \in Link
    BY <1>3, <1>4, <1>5, <1>6, <1>7
  <1>14. UNCHANGED <<desk, known, approved, consent, leaderBox>>  BY <1>1
  <1>15. QED
    BY ONLY ExchangeInv, w \in Workers, <1>8, <1>9, <1>10, <1>11, <1>12, <1>13, <1>14, WorkerStep

\* The other steps of a process: no answer comes in, none is granted.
LEMMA ProcessStep ==
  ASSUME ExchangeInv, NEW w \in Workers,
         \/ \E id \in Ids : WaitTimesOut(w, id)
         \/ BatchEnds(w) \/ WorkerDies(w) \/ WorkerReturns(w)
  PROVE  ExchangeInv'
  <1> USE DEF ExchangeInv
  <1>1. /\ proc[w] \in Process /\ link[w] \in Link /\ proc[w].waits \in SUBSET Ids
        /\ proc[w].inbox \in Seq(Response) /\ proc[w].timeouts \in 0..2 /\ proc[w].up \in BOOLEAN
        /\ link[w].held \in Seq(Response) /\ link[w].toWorker \in Seq(Response)
    BY WorkerFields
  <1>2. /\ TrueTo(proc[w].inbox, approved) /\ TrueTo(link[w].held, approved)
        /\ TrueTo(link[w].toWorker, approved)
    BY DEF AnswersTrue
  <1>3. <<>> \in Seq(Response) /\ TrueTo(<<>>, approved)  BY EmptyTrue
  <1>4. Started \in Process /\ Started.inbox = <<>>  BY <1>3 DEF Started, Process, Ids
  <1>5. link = [link EXCEPT ![w] = link[w]]  BY DEF TypeOK
  <1>6. /\ UNCHANGED <<desk, leaderBox, asked, known, granted, approved, consent>>
    BY DEF WaitTimesOut, BatchEnds, WorkerDies, WorkerReturns
  <1>7. /\ granted' \subseteq Ids /\ granted' \subseteq approved /\ asked' \in 0..MaxRequests
    BY <1>6 DEF TypeOK, GrantsAreApproved
  <1>8. ASSUME NEW p \in Process, proc' = [proc EXCEPT ![w] = p], TrueTo(p.inbox, approved),
               NEW k \in Link, link' = [link EXCEPT ![w] = k], k.toLeader = link[w].toLeader,
               TrueTo(k.held, approved), TrueTo(k.toWorker, approved)
        PROVE  ExchangeInv'
    <2>1. \A v \in Workers : link'[v].toLeader = link[v].toLeader
      BY <1>8 DEF TypeOK
    <2>2. RequestsApart'  BY <1>6, <2>1, RequestsKept
    <2>3. QED  BY <1>6, <1>7, <1>8, <2>2, WorkerStep
  <1>9. CASE \E id \in Ids : WaitTimesOut(w, id)
    <2>1. PICK id \in Ids : WaitTimesOut(w, id)  BY <1>9
    <2> DEFINE ws == proc[w].waits \ {id}
               n == IF proc[w].timeouts = 2 THEN 2 ELSE proc[w].timeouts + 1
               p == [proc[w] EXCEPT !.waits = ws, !.timeouts = n]
    <2>2. ws \in SUBSET Ids /\ n \in 0..2  BY <1>1
    <2>3. proc' = [proc EXCEPT ![w].waits = @ \ {id},
                               ![w].timeouts = IF @ = 2 THEN 2 ELSE @ + 1]
          /\ link' = link
      BY <2>1 DEF WaitTimesOut
    <2>4. proc' = [proc EXCEPT ![w] = p]  BY <2>3, <1>1 DEF TypeOK, Process
    <2> HIDE DEF ws, n
    <2>5. p \in Process /\ p.inbox = proc[w].inbox  BY <2>2, <1>1 DEF Process
    <2> HIDE DEF p
    <2>6. QED  BY <1>1, <1>2, <1>5, <1>8, <2>3, <2>4, <2>5
  <1>10. CASE BatchEnds(w)
    <2> DEFINE s == IF proc[w].timeouts = 2 THEN proc[w].inbox ELSE <<>>
               u == proc[w].timeouts < 2
               p == [proc[w] EXCEPT !.inbox = s, !.up = u]
    <2>1. s \in Seq(Response) /\ TrueTo(s, approved) /\ u \in BOOLEAN  BY <1>1, <1>2, <1>3
    <2>2. proc' = [proc EXCEPT ![w].inbox = IF proc[w].timeouts = 2 THEN @ ELSE <<>>,
                               ![w].up = proc[w].timeouts < 2]
          /\ link' = link
      BY <1>10 DEF BatchEnds
    <2>3. proc' = [proc EXCEPT ![w] = p]  BY <2>2, <1>1 DEF TypeOK, Process
    <2> HIDE DEF s, u
    <2>4. p \in Process /\ p.inbox = s  BY <2>1, <1>1 DEF Process
    <2> HIDE DEF p
    <2>5. QED  BY <1>1, <1>2, <1>5, <1>8, <2>1, <2>2, <2>3, <2>4
  <1>11. CASE WorkerDies(w)
    <2> DEFINE b == FALSE  p == [Started EXCEPT !.up = b]
               k == [link[w] EXCEPT !.toWorker = <<>>]
    <2>1. proc' = [proc EXCEPT ![w] = p] /\ link' = [link EXCEPT ![w].toWorker = <<>>]
      BY <1>11 DEF WorkerDies
    <2>2. link' = [link EXCEPT ![w] = k]  BY <2>1, <1>1 DEF TypeOK, Link
    <2>3. b \in BOOLEAN  OBVIOUS
    <2> HIDE DEF b
    <2>4. p \in Process /\ p.inbox = <<>>  BY <1>4, <2>3 DEF Process
    <2>5. k \in Link /\ k.toLeader = link[w].toLeader /\ k.held = link[w].held /\ k.toWorker = <<>>
      BY <1>1, <1>3 DEF Link
    <2> HIDE DEF p, k
    <2>6. QED  BY <1>2, <1>3, <1>8, <2>1, <2>2, <2>4, <2>5
  <1>12. CASE WorkerReturns(w)
    <2> DEFINE k == [link[w] EXCEPT !.toWorker = link[w].held, !.held = <<>>]
    <2>1. /\ proc' = [proc EXCEPT ![w] = Started]
          /\ link' = [link EXCEPT ![w].toWorker = link[w].held, ![w].held = <<>>]
      BY <1>12 DEF WorkerReturns
    <2>2. link' = [link EXCEPT ![w] = k]  BY <2>1, <1>1 DEF TypeOK, Link
    <2>3. k \in Link /\ k.toLeader = link[w].toLeader /\ k.held = <<>> /\ k.toWorker = link[w].held
      BY <1>1, <1>3 DEF Link
    <2> HIDE DEF k
    <2>4. QED  BY <1>2, <1>3, <1>4, <1>8, <2>1, <2>2, <2>3
  <1>13. QED  BY <1>9, <1>10, <1>11, <1>12

(* The steps of the Leader's side *)

\* Every desk that an operator starts from has sent nothing yet.
LEMMA SilentDesk ==
  ASSUME NEW d, d.out = NothingSent, NEW yes
  PROVE  SaysYesTo(d, yes)
  BY DEF SaysYesTo, NothingSent

LEMMA SaysYesMore ==
  ASSUME NEW d, NEW yes, NEW more, SaysYesTo(d, yes), yes \subseteq more
  PROVE  SaysYesTo(d, more)
  BY DEF SaysYesTo

\* The answers of a desk reach the bridge, and the desk becomes the next one.
LEMMA LeaderStep ==
  ASSUME ExchangeInv, UNCHANGED <<proc, granted>>,
         NEW d \in Desk, NEW links \in [Workers -> Link], NEW yes \in SUBSET Ids,
         NEW yolo \in BOOLEAN,
         \A w \in Workers : /\ links[w].held = link[w].held
                            /\ links[w].toWorker = link[w].toWorker,
         DeskBecomes(d, links, yes, yolo), SaysYesTo(d, yes),
         Orderly(d, known'), d.layer = "yolo" => desk.layer = "yolo" \/ yolo,
         leaderBox' \in Seq(Request), asked' \in 0..MaxRequests, known' \in SUBSET Ids,
         MessagesApart([w \in Workers |-> links[w].toLeader], leaderBox', asked', known')
  PROVE  ExchangeInv'
  <1> USE DEF ExchangeInv
  <1> DEFINE all == approved \cup yes
  <1>1. /\ desk' = [d EXCEPT !.out = NothingSent] /\ link' = Bridged(links, d)
        /\ approved' = all /\ consent' \in BOOLEAN
        /\ consent' = (d.layer = "yolo" /\ (yolo \/ consent))
    BY DEF DeskBecomes, TypeOK
  <1>2. all \in SUBSET Ids /\ approved \subseteq all  BY DEF TypeOK
  <1>3. NothingSent \in [Workers -> Seq(Response)]  BY DEF NothingSent
  <1>4. desk' \in Desk  BY <1>1, <1>3 DEF Desk
  <1>5. /\ desk'.out = NothingSent /\ desk'.gate = d.gate /\ desk'.queue = d.queue
        /\ desk'.pending = d.pending /\ desk'.layer = d.layer
    BY <1>1 DEF Desk
  <1>6. SaysYesTo(d, all)  BY SaysYesMore
  <1> HIDE DEF all
  <1>7. ASSUME NEW w \in Workers
        PROVE  /\ link'[w] \in Link /\ link'[w].toLeader = links[w].toLeader
               /\ TrueTo(link'[w].held, all) /\ TrueTo(link'[w].toWorker, all)
    <2> DEFINE o == d.out[w]  l == links[w]
    <2>1. o \in Seq(Response) /\ TrueTo(o, all)
      BY <1>6, DeskFields DEF SaysYesTo, TrueTo
    <2>2. /\ l \in Link /\ l.held \in Seq(Response) /\ l.toWorker \in Seq(Response)
      BY DEF Link
    <2>3. TrueTo(l.held, all) /\ TrueTo(l.toWorker, all)
      BY <1>2, TrueMore DEF AnswersTrue
    <2>4. /\ l.held \o o \in Seq(Response) /\ TrueTo(l.held \o o, all)
          /\ l.toWorker \o o \in Seq(Response) /\ TrueTo(l.toWorker \o o, all)
      BY <2>1, <2>2, <2>3, TrueConcat
    <2>5. link'[w] = IF proc[w].up THEN [l EXCEPT !.toWorker = @ \o o]
                     ELSE [l EXCEPT !.held = @ \o o]
      BY <1>1 DEF Bridged
    <2> HIDE DEF o, l
    <2>6. CASE proc[w].up
      <3> DEFINE k == [l EXCEPT !.toWorker = l.toWorker \o o]
      <3>1. link'[w] = k  BY <2>2, <2>5, <2>6 DEF Link
      <3>2. /\ k \in Link /\ k.toLeader = l.toLeader /\ k.held = l.held
            /\ k.toWorker = l.toWorker \o o
        BY <2>2, <2>4 DEF Link
      <3>3. QED  BY <3>1, <3>2, <2>3, <2>4 DEF l
    <2>7. CASE ~proc[w].up
      <3> DEFINE k == [l EXCEPT !.held = l.held \o o]
      <3>1. link'[w] = k  BY <2>2, <2>5, <2>7 DEF Link
      <3>2. /\ k \in Link /\ k.toLeader = l.toLeader /\ k.held = l.held \o o
            /\ k.toWorker = l.toWorker
        BY <2>2, <2>4 DEF Link
      <3>3. QED  BY <3>1, <3>2, <2>3, <2>4 DEF l
    <2>8. QED  BY <2>6, <2>7
  <1>8. link' \in [Workers -> Link]
    <2>1. link' = [w \in Workers |-> link'[w]]  BY <1>1 DEF Bridged
    <2>2. QED  BY <1>7, <2>1
  <1>9. TypeOK'  BY <1>1, <1>2, <1>4, <1>5, <1>8 DEF TypeOK
  <1>10. DeskInOrder'  BY <1>5, DeskKept DEF DeskInOrder
  <1>11. RequestsApart'
    <2>1. [w \in Workers |-> link'[w].toLeader] = [w \in Workers |-> links[w].toLeader]
      BY <1>7
    <2>2. QED  BY <2>1 DEF RequestsApart
  <1>12. AnswersTrue'
    <2>1. \A w \in Workers : TrueTo(proc[w].inbox, all)
      BY <1>2, TrueMore DEF AnswersTrue
    <2>2. QED  BY <1>1, <1>7, <2>1 DEF AnswersTrue
  <1>13. GrantsAreApproved'  BY <1>1, <1>2 DEF GrantsAreApproved
  <1>14. LayerChosen'  BY <1>1, <1>5 DEF LayerChosen
  <1>15. QED  BY <1>9, <1>10, <1>11, <1>12, <1>13, <1>14

\* A step of the Leader without an answer of the user.
LEMMA UnattendedStep ==
  ASSUME ExchangeInv, UNCHANGED <<proc, granted>>,
         NEW d \in Desk, NEW links \in [Workers -> Link], NEW yes \in SUBSET Ids,
         \A w \in Workers : /\ links[w].held = link[w].held
                            /\ links[w].toWorker = link[w].toWorker,
         DeskBecomes(d, links, yes, FALSE), SaysYesTo(d, yes),
         Orderly(d, known'), d.layer = "yolo" => desk.layer = "yolo",
         leaderBox' \in Seq(Request), asked' \in 0..MaxRequests, known' \in SUBSET Ids,
         MessagesApart([w \in Workers |-> links[w].toLeader], leaderBox', asked', known')
  PROVE  ExchangeInv'
  <1> DEFINE no == FALSE
  <1>1. no \in BOOLEAN /\ DeskBecomes(d, links, yes, no)
        /\ (d.layer = "yolo" => desk.layer = "yolo" \/ no)
    OBVIOUS
  <1> HIDE DEF no
  <1>2. QED  BY <1>1, LeaderStep

LEMMA CurrentState ==
  ASSUME ExchangeInv
  PROVE  /\ desk \in Desk /\ desk.out = NothingSent /\ Orderly(desk, known)
         /\ asked \in Nat /\ leaderBox \in Seq(Request) /\ known \in SUBSET Ids
         /\ link \in [Workers -> Link]
         /\ [w \in Workers |-> link[w].toLeader] \in [Workers -> Seq(Request)]
         /\ MessagesApart([w \in Workers |-> link[w].toLeader], leaderBox, asked, known)
         /\ (desk.layer = "yolo" => consent)
  <1>1. TypeOK  BY DEF ExchangeInv
  <1>2. asked \in Nat  BY <1>1, DeskAssumption DEF TypeOK
  <1>3. QED
    BY <1>1, <1>2, WorkerFields
    DEF ExchangeInv, TypeOK, DeskInOrder, RequestsApart, LayerChosen

LEMMA RequestStep ==
  ASSUME ExchangeInv, NEW w \in Workers, NEW running \in BOOLEAN, RequestArrives(w, running)
  PROVE  ExchangeInv'
  <1> DEFINE p == Head(link[w].toLeader)
             t == Tail(link[w].toLeader)
             d == IF running THEN Receive(desk, p) ELSE desk
             k == [link[w] EXCEPT !.toLeader = t]
             links == [link EXCEPT ![w] = k]
             sent == [v \in Workers |-> link[v].toLeader]
             yes == d.resolved \ desk.resolved
  <1>1. /\ link[w].toLeader # <<>>
        /\ leaderBox' = Append(leaderBox, p)
        /\ DeskBecomes(d, [link EXCEPT ![w].toLeader = Tail(@)], yes, FALSE)
        /\ UNCHANGED <<proc, asked, known, granted>>
    BY DEF RequestArrives
  <1>2. /\ desk \in Desk /\ desk.out = NothingSent /\ Orderly(desk, known)
        /\ asked \in Nat /\ leaderBox \in Seq(Request) /\ known \in SUBSET Ids
        /\ link \in [Workers -> Link] /\ sent \in [Workers -> Seq(Request)]
        /\ MessagesApart(sent, leaderBox, asked, known)
        /\ (desk.layer = "yolo" => consent)
    BY CurrentState
  <1>3. sent[w] = link[w].toLeader /\ sent[w] \in Seq(Request)  BY <1>2
  <1>4. /\ p \in Request /\ t \in Seq(Request) /\ Len(link[w].toLeader) \in Nat \ {0}
        /\ p = link[w].toLeader[1]
    BY <1>1, <1>3, FirstOf
  <1>5. p.worker \in Workers /\ p.id \notin known
    <2>1. OldUnread(sent[w], asked, known)  BY <1>2 DEF MessagesApart
    <2>2. 1 \in 1..Len(sent[w])  BY <1>3, <1>4
    <2>3. QED  BY <2>1, <2>2, <1>3, <1>4 DEF OldUnread
  <1>6. /\ links \in [Workers -> Link]
        /\ [link EXCEPT ![w].toLeader = Tail(@)] = links
        /\ [v \in Workers |-> links[v].toLeader] = [sent EXCEPT ![w] = Tail(sent[w])]
        /\ \A v \in Workers : links[v].held = link[v].held /\ links[v].toWorker = link[v].toWorker
    <2>1. k \in Link /\ k.toLeader = t /\ k.held = link[w].held /\ k.toWorker = link[w].toWorker
      BY <1>2, <1>4 DEF Link
    <2>2. [link EXCEPT ![w].toLeader = Tail(@)] = links  BY <1>2 DEF Link
    <2> HIDE DEF k
    <2>3. links \in [Workers -> Link]  BY <1>2, <2>1
    <2>4. \A v \in Workers : links[v].toLeader = IF v = w THEN t ELSE link[v].toLeader
      BY <1>2, <2>1
    <2>5. [v \in Workers |-> links[v].toLeader] = [sent EXCEPT ![w] = Tail(sent[w])]
      BY <2>4, <1>3
    <2>6. QED  BY <2>1, <2>2, <2>3, <2>5, <1>2
  <1> HIDE DEF p, t, links, sent
  <1>7. /\ d \in Desk /\ Orderly(d, known) /\ (d.layer = "yolo" => desk.layer = "yolo")
        /\ SaysYesTo(d, yes)
    <2>1. CASE running
      <3>1. d = Receive(desk, p)  BY <2>1
      <3> HIDE DEF d
      <3>2. /\ d \in Desk /\ Orderly(d, known) /\ (d.layer = "yolo" => desk.layer = "yolo")
            /\ SaysMore(desk, d, d.resolved \ desk.resolved)
        BY <3>1, <1>2, <1>4, <1>5, ReceiveEffect
      <3>3. SaysYesTo(desk, yes)  BY <1>2, SilentDesk
      <3>4. QED  BY <3>2, <3>3 DEF SaysMore
    <2>2. CASE ~running
      <3>1. d = desk  BY <2>2
      <3> HIDE DEF d
      <3>2. SaysYesTo(desk, yes)  BY <1>2, SilentDesk
      <3>3. QED  BY <3>1, <3>2, <1>2
    <2>3. QED  BY <2>1, <2>2
  <1> HIDE DEF d
  <1>8. yes \in SUBSET Ids  BY <1>7, DeskFields
  <1> HIDE DEF yes
  <1>9. leaderBox' \in Seq(Request)  BY <1>1, <1>2, <1>4, AppendAt
  <1>10. MessagesApart([v \in Workers |-> links[v].toLeader], leaderBox', asked', known')
    <2>1. sent[w] # <<>> /\ p = Head(sent[w])  BY <1>1, <1>3 DEF p
    <2>2. MessagesApart([sent EXCEPT ![w] = Tail(sent[w])], Append(leaderBox, Head(sent[w])),
                        asked, known)
      BY <2>1, <1>2, ArrivedApart
    <2>3. QED  BY <2>1, <2>2, <1>1, <1>6
  <1>11. /\ UNCHANGED <<proc, granted>> /\ DeskBecomes(d, links, yes, FALSE)
         /\ Orderly(d, known')
         /\ asked' \in 0..MaxRequests /\ known' \in SUBSET Ids
    BY <1>1, <1>2, <1>6, <1>7 DEF ExchangeInv, TypeOK
  <1>12. QED
    BY ONLY ExchangeInv, <1>6, <1>7, <1>8, <1>9, <1>10, <1>11, UnattendedStep

LEMMA ReadStep ==
  ASSUME ExchangeInv, LeaderReads
  PROVE  ExchangeInv'
  <1> DEFINE p == Head(leaderBox)
             d == Receive(desk, p)
             sent == [v \in Workers |-> link[v].toLeader]
             yes == d.resolved \ desk.resolved
  <1>1. /\ leaderBox # <<>>
        /\ DeskBecomes(d, link, yes, FALSE)
        /\ leaderBox' = Tail(leaderBox) /\ known' = known \cup {p.id}
        /\ UNCHANGED <<proc, asked, granted>>
    BY DEF LeaderReads
  <1>2. /\ desk \in Desk /\ desk.out = NothingSent /\ Orderly(desk, known)
        /\ asked \in Nat /\ leaderBox \in Seq(Request) /\ known \in SUBSET Ids
        /\ link \in [Workers -> Link] /\ sent \in [Workers -> Seq(Request)]
        /\ MessagesApart(sent, leaderBox, asked, known)
        /\ (desk.layer = "yolo" => consent)
    BY CurrentState
  <1>3. /\ p \in Request /\ Tail(leaderBox) \in Seq(Request) /\ Len(leaderBox) \in Nat \ {0}
        /\ p = leaderBox[1]
    BY <1>1, <1>2, FirstOf
  <1>4. p.worker \in Workers /\ p.id \notin known
    <2>1. OldUnread(leaderBox, asked, known)  BY <1>2 DEF MessagesApart
    <2>2. 1 \in 1..Len(leaderBox)  BY <1>3
    <2>3. QED  BY <2>1, <2>2, <1>3 DEF OldUnread
  <1>5. MessagesApart(sent, leaderBox', asked', known')
    <2>1. MessagesApart(sent, Tail(leaderBox), asked, known \cup {Head(leaderBox).id})
      BY <1>1, <1>2, ReadApart
    <2>2. QED  BY <2>1, <1>1
  <1>6. p.id \in Ids  BY <1>3, RequestFields
  <1> HIDE DEF p
  <1>7. /\ d \in Desk /\ Orderly(d, known) /\ (d.layer = "yolo" => desk.layer = "yolo")
        /\ SaysMore(desk, d, d.resolved \ desk.resolved)
    BY <1>2, <1>3, <1>4, ReceiveEffect
  <1> HIDE DEF d
  <1>8. SaysYesTo(d, yes)
    <2>1. SaysYesTo(desk, yes)  BY <1>2, SilentDesk
    <2>2. QED  BY <2>1, <1>7 DEF SaysMore
  <1>9. yes \in SUBSET Ids  BY <1>7, DeskFields
  <1> HIDE DEF yes
  <1>10. Orderly(d, known')  BY <1>1, <1>7, OrderlyMore
  <1>11. /\ UNCHANGED <<proc, granted>> /\ DeskBecomes(d, link, yes, FALSE)
         /\ leaderBox' \in Seq(Request) /\ link \in [Workers -> Link]
         /\ asked' \in 0..MaxRequests /\ known' \in SUBSET Ids
         /\ MessagesApart([v \in Workers |-> link[v].toLeader], leaderBox', asked', known')
    BY <1>1, <1>2, <1>3, <1>5, <1>6, <1>7 DEF ExchangeInv, TypeOK
  <1>12. QED
    BY ONLY ExchangeInv, <1>7, <1>8, <1>9, <1>10, <1>11, UnattendedStep

\* recoverWorkerContext: a request that keeps the Leader's name is one that no
\* worker waits for.
LEMMA RecoveredEffect ==
  ASSUME NEW d \in Desk, NEW ids, PendingStands(d), NEW p \in Request, p.id \in ids,
         NEW q \in Recovered(d, p)
  PROVE  /\ q \in Request
         /\ q.worker = Leader => q.id \in ids /\ \A x \in d.pending : x.id # q.id
  <1> DEFINE byId == {x \in d.pending : x.id = p.id}
             found == IF byId # {} THEN byId ELSE d.pending
             as(x) == [p EXCEPT !.worker = x.worker, !.id = x.id]
  <1>1. CASE p.worker # Leader
    BY <1>1 DEF Recovered
  <1>2. CASE p.worker = Leader
    <2>1. q \in {as(x) : x \in found} \cup (IF byId = {} THEN {p} ELSE {})
      BY <1>2 DEF Recovered
    <2>2. CASE byId = {} /\ q = p  BY <2>2, <1>2
    <2>3. CASE q \in {as(x) : x \in found}
      <3>1. PICK x \in found : q = as(x)  BY <2>3
      <3>2. x \in d.pending /\ x \in Request  BY DeskFields
      <3>3. x.worker \in Workers /\ x.worker # Leader
        BY <3>2, DeskAssumption DEF PendingStands
      <3>4. x.id \in Ids  BY <3>2, RequestFields
      <3>5. q \in Request /\ q.worker = x.worker
        BY <3>1, <3>3, <3>4 DEF Request
      <3>6. QED  BY <3>3, <3>5
    <2>4. QED  BY <2>1, <2>2, <2>3
  <1>3. QED  BY <1>1, <1>2

LEMMA LeaderAsksStep ==
  ASSUME ExchangeInv, NEW worker \in Workers \cup {Leader}, NEW id \in Ids,
         NEW mode \in Modes, LeaderAsks(worker, id, mode)
  PROVE  ExchangeInv'
  <1> DEFINE m == [id |-> id, worker |-> worker, mode |-> mode]
             sent == [v \in Workers |-> link[v].toLeader]
  <1>1. /\ id \in known \cup {asked + 1}
        /\ asked' = (IF id > asked THEN id ELSE asked)
        /\ known' = known \cup {id}
        /\ \E p \in Recovered(desk, m) :
             DeskBecomes(RequestUpdate(desk, p), link,
                         IF desk.eternal /\ p.mode # "yolo" THEN {p.id} ELSE {}, FALSE)
        /\ UNCHANGED <<proc, leaderBox, granted>>
    BY DEF LeaderAsks
  <1>2. /\ desk \in Desk /\ desk.out = NothingSent /\ Orderly(desk, known)
        /\ asked \in Nat /\ leaderBox \in Seq(Request) /\ known \in SUBSET Ids
        /\ link \in [Workers -> Link] /\ sent \in [Workers -> Seq(Request)]
        /\ MessagesApart(sent, leaderBox, asked, known)
        /\ (desk.layer = "yolo" => consent)
    BY CurrentState
  <1>3. PICK p \in Recovered(desk, m) :
          DeskBecomes(RequestUpdate(desk, p), link,
                      IF desk.eternal /\ p.mode # "yolo" THEN {p.id} ELSE {}, FALSE)
    BY <1>1
  <1>4. m \in Request /\ m.id \in known'  BY <1>1 DEF Request
  <1> HIDE DEF m
  <1>5. Orderly(desk, known')  BY <1>1, <1>2, OrderlyMore
  <1>6. /\ p \in Request
        /\ p.worker = Leader => p.id \in known' /\ \A x \in desk.pending : x.id # p.id
    BY <1>2, <1>4, <1>5, RecoveredEffect DEF Orderly
  <1> DEFINE d == RequestUpdate(desk, p)
             yes == IF desk.eternal /\ p.mode # "yolo" THEN {p.id} ELSE {}
  <1>7. /\ d \in Desk /\ Orderly(d, known') /\ (d.layer = "yolo" => desk.layer = "yolo")
        /\ SaysMore(desk, d, IF desk.eternal /\ p.mode # "yolo" THEN {p.id} ELSE {})
    <2>1. \A q \in desk.pending : q.worker \in Workers /\ (q.id \in Standing(desk) \/ q.id = p.id)
      BY <1>2 DEF Orderly, PendingStands
    <2>2. Apart(desk) /\ LeadersOwn(desk, known')  BY <1>5 DEF Orderly
    <2> HIDE DEF d
    <2>3. d = RequestUpdate(desk, p)  BY DEF d
    <2>4. QED  BY <1>2, <1>6, <2>1, <2>2, <2>3, RequestUpdateEffect
  <1>8. DeskBecomes(d, link, yes, FALSE)  BY <1>3
  <1> HIDE DEF d
  <1>9. SaysYesTo(d, yes)
    <2>1. SaysYesTo(desk, yes)  BY <1>2, SilentDesk
    <2>2. QED  BY <2>1, <1>7 DEF SaysMore
  <1>10. yes \in SUBSET Ids  BY <1>6, RequestFields
  <1> HIDE DEF yes
  <1>11. MessagesApart(sent, leaderBox', asked', known')
    BY <1>1, <1>2, LeaderAskedApart
  <1>12. /\ UNCHANGED <<proc, granted>>
         /\ leaderBox' \in Seq(Request) /\ link \in [Workers -> Link]
         /\ asked' \in 0..MaxRequests /\ known' \in SUBSET Ids
         /\ MessagesApart([v \in Workers |-> link[v].toLeader], leaderBox', asked', known')
    BY <1>1, <1>2, <1>7, <1>11 DEF ExchangeInv, TypeOK, Ids
  <1>13. QED
    BY ONLY ExchangeInv, <1>7, <1>8, <1>9, <1>10, <1>12, UnattendedStep

\* The user's answer, with whatever becomes of the Leader's wait.
LEMMA GateStep ==
  ASSUME ExchangeInv, desk.gate # NoGate, NEW ok \in BOOLEAN, NEW mode \in Modes,
         NEW d \in Desk,
         DeskBecomes(d, link, IF ok THEN {desk.gate.id} ELSE {}, ok /\ mode = "yolo"),
         NEW r, r = Resolve(desk, ok, mode),
         d.gate = r.gate, d.queue = r.queue, d.pending = r.pending, d.layer = r.layer, d.out = r.out,
         UNCHANGED <<proc, leaderBox, asked, known, granted>>
  PROVE  ExchangeInv'
  <1> DEFINE yes == IF ok THEN {desk.gate.id} ELSE {}
             yolo == ok /\ mode = "yolo"
  <1>1. /\ desk \in Desk /\ desk.out = NothingSent /\ Orderly(desk, known)
        /\ link \in [Workers -> Link] /\ leaderBox \in Seq(Request) /\ known \in SUBSET Ids
        /\ MessagesApart([w \in Workers |-> link[w].toLeader], leaderBox, asked, known)
        /\ (desk.layer = "yolo" => consent)
    BY CurrentState
  <1>2. /\ r \in Desk /\ Orderly(r, known)
        /\ r.layer = "yolo" => desk.layer = "yolo" \/ yolo
        /\ SaysMore(desk, r, {desk.gate.id}) /\ (ok = FALSE => SaysMore(desk, r, {}))
    BY <1>1, ResolveEffect
  <1>3. SaysYesTo(r, yes)
    <2>1. SaysYesTo(desk, yes)  BY <1>1, SilentDesk
    <2>2. QED  BY <2>1, <1>2 DEF SaysMore
  <1>4. yes \in SUBSET Ids
    <2>1. desk.gate \in Request  BY <1>1, DeskFields
    <2>2. QED  BY <2>1, RequestFields
  <1>5. DeskBecomes(d, link, yes, yolo) /\ yolo \in BOOLEAN  OBVIOUS
  <1> HIDE DEF yes, yolo
  <1>6. SaysYesTo(d, yes)  BY <1>3 DEF SaysYesTo
  <1>7. Orderly(d, known)  BY <1>2, DeskKept
  <1>8. /\ UNCHANGED <<proc, granted>> /\ (d.layer = "yolo" => desk.layer = "yolo" \/ yolo)
        /\ Orderly(d, known') /\ leaderBox' \in Seq(Request)
        /\ asked' \in 0..MaxRequests /\ known' \in SUBSET Ids
        /\ MessagesApart([w \in Workers |-> link[w].toLeader], leaderBox', asked', known')
    BY <1>1, <1>2, <1>7 DEF ExchangeInv, TypeOK
  <1>9. QED
    BY ONLY ExchangeInv, d \in Desk, <1>1, <1>4, <1>5, <1>6, <1>8, LeaderStep

\* The Leader starts or stops to wait.
LEMMA WaitStep ==
  ASSUME ExchangeInv, NEW b \in BOOLEAN, desk' = [desk EXCEPT !.waiting = b],
         UNCHANGED <<proc, link, leaderBox, asked, known, granted, approved, consent>>
  PROVE  ExchangeInv'
  <1> USE DEF ExchangeInv
  <1>1. desk \in Desk  BY DEF TypeOK
  <1>2. /\ desk' \in Desk /\ desk'.gate = desk.gate /\ desk'.queue = desk.queue
        /\ desk'.pending = desk.pending /\ desk'.layer = desk.layer /\ desk'.out = desk.out
    BY <1>1 DEF Desk
  <1>3. TypeOK'  BY <1>2 DEF TypeOK
  <1>4. DeskInOrder'
    <2>1. Orderly(desk, known)  BY DEF DeskInOrder
    <2>2. Orderly(desk', known)  BY <2>1, <1>2, DeskKept
    <2>3. QED  BY <2>2 DEF DeskInOrder
  <1>5. RequestsApart'  BY RequestsKept
  <1>6. AnswersTrue' /\ GrantsAreApproved' /\ LayerChosen'
    BY <1>2 DEF AnswersTrue, GrantsAreApproved, LayerChosen
  <1>7. QED  BY <1>3, <1>4, <1>5, <1>6

LEMMA UserStep ==
  ASSUME ExchangeInv,
         \/ \E ok, all \in BOOLEAN : UserAnswers(ok, all)
         \/ \E text \in {"/approve", "/deny", "other"} : UserTypes(text)
  PROVE  ExchangeInv'
  <1>1. desk \in Desk  BY CurrentState
  <1>2. ASSUME desk.gate # NoGate PROVE desk.gate.mode \in Modes
    <2>1. desk.gate \in Request  BY <1>1, <1>2, DeskFields
    <2>2. QED  BY <2>1, RequestFields
  <1>3. ASSUME NEW ok \in BOOLEAN, NEW all \in BOOLEAN, UserAnswers(ok, all)
        PROVE  ExchangeInv'
    <2> DEFINE y == IF all THEN "yolo" ELSE desk.gate.mode
               r == Resolve(desk, ok, y)
    <2>1. /\ desk.gate # NoGate
          /\ DeskBecomes(r, link, IF ok THEN {desk.gate.id} ELSE {}, ok /\ y = "yolo")
          /\ UNCHANGED <<proc, leaderBox, asked, known, granted>>
      BY <1>3 DEF UserAnswers
    <2>2. y \in Modes  BY <1>2, <2>1 DEF Modes
    <2> HIDE DEF y
    <2>3. r \in Desk  BY <2>1, <2>2, CurrentState, ResolveEffect
    <2> HIDE DEF r
    <2>4. r = Resolve(desk, ok, y)  BY DEF r
    <2>5. QED  BY ONLY ExchangeInv, ok \in BOOLEAN, <2>1, <2>2, <2>3, <2>4, GateStep
  <1>4. ASSUME NEW text \in {"/approve", "/deny", "other"}, UserTypes(text)
        PROVE  ExchangeInv'
    <2>1. CASE desk.waiting \/ desk.gate = NoGate
      <3> DEFINE b == FALSE
      <3>1. /\ desk' = [desk EXCEPT !.waiting = b] /\ b \in BOOLEAN
            /\ UNCHANGED <<proc, link, leaderBox, asked, known, granted, approved, consent>>
        BY <1>4, <2>1 DEF UserTypes
      <3> HIDE DEF b
      <3>2. QED  BY <3>1, WaitStep
    <2>2. CASE ~(desk.waiting \/ desk.gate = NoGate)
      <3> DEFINE ok == text = "/approve"  y == desk.gate.mode
                 r == Resolve(desk, ok, y)  b == FALSE  d == [r EXCEPT !.waiting = b]
      <3>1. /\ desk.gate # NoGate
            /\ DeskBecomes(d, link, IF ok THEN {desk.gate.id} ELSE {}, ok /\ y = "yolo")
            /\ UNCHANGED <<proc, leaderBox, asked, known, granted>>
        BY <1>4, <2>2 DEF UserTypes
      <3>2. ok \in BOOLEAN /\ y \in Modes /\ b \in BOOLEAN  BY <1>2, <2>2
      <3> HIDE DEF ok, y, b
      <3>3. r \in Desk  BY <3>1, <3>2, CurrentState, ResolveEffect
      <3>4. r = Resolve(desk, ok, y)  OBVIOUS
      <3> HIDE DEF r
      <3>5. /\ d \in Desk /\ d.gate = r.gate /\ d.queue = r.queue /\ d.pending = r.pending
            /\ d.layer = r.layer /\ d.out = r.out
        BY <3>2, <3>3 DEF Desk
      <3> HIDE DEF d
      <3>6. QED  BY ONLY ExchangeInv, <3>1, <3>2, <3>4, <3>5, GateStep
    <2>3. QED  BY <2>1, <2>2
  <1>5. QED  BY <1>3, <1>4

\* The user sets the mode.
LEMMA ModeStep ==
  ASSUME ExchangeInv, NEW mode \in {"yolo", "other"}, UserSetsMode(mode)
  PROVE  ExchangeInv'
  <1> DEFINE d == SetMode(desk, mode)  yes == {}  yolo == mode = "yolo"
  <1>1. /\ desk \in Desk /\ desk.out = NothingSent /\ Orderly(desk, known)
        /\ link \in [Workers -> Link] /\ leaderBox \in Seq(Request) /\ known \in SUBSET Ids
        /\ MessagesApart([w \in Workers |-> link[w].toLeader], leaderBox, asked, known)
    BY CurrentState
  <1>2. DeskBecomes(d, link, yes, yolo) /\ UNCHANGED <<proc, leaderBox, asked, known, granted>>
    BY DEF UserSetsMode
  <1>3. yes \in SUBSET Ids /\ yolo \in BOOLEAN /\ mode \in Modes  BY DEF Modes
  <1>4. /\ d \in Desk /\ d.gate = desk.gate /\ d.queue = desk.queue
        /\ d.pending = desk.pending /\ d.out = NothingSent
        /\ (d.layer = "yolo" => desk.layer = "yolo" \/ yolo)
    BY <1>1, <1>3, SetModeEffect
  <1> HIDE DEF d, yes, yolo
  <1>5. Orderly(d, known)  BY <1>1, <1>4, DeskKept
  <1>6. SaysYesTo(d, yes)  BY <1>4, SilentDesk
  <1>7. /\ UNCHANGED <<proc, granted>> /\ Orderly(d, known') /\ leaderBox' \in Seq(Request)
        /\ asked' \in 0..MaxRequests /\ known' \in SUBSET Ids
        /\ MessagesApart([w \in Workers |-> link[w].toLeader], leaderBox', asked', known')
    BY <1>1, <1>2, <1>5 DEF ExchangeInv, TypeOK
  <1>8. QED  BY ONLY ExchangeInv, <1>1, <1>2, <1>3, <1>4, <1>6, <1>7, LeaderStep

LEMMA WaitSteps ==
  ASSUME ExchangeInv, TurnEnds \/ WaitCleared
  PROVE  ExchangeInv'
  <1> DEFINE b == TRUE  c == FALSE
  <1>1. /\ desk' = [desk EXCEPT !.waiting = b] \/ desk' = [desk EXCEPT !.waiting = c]
        /\ UNCHANGED <<proc, link, leaderBox, asked, known, granted, approved, consent>>
    BY DEF TurnEnds, WaitCleared
  <1>2. b \in BOOLEAN /\ c \in BOOLEAN  OBVIOUS
  <1> HIDE DEF b, c
  <1>3. QED  BY <1>1, <1>2, WaitStep

LEMMA SwitchStep ==
  ASSUME ExchangeInv, SwitchMode
  PROVE  ExchangeInv'
  <1>1. /\ desk \in Desk /\ desk.out = NothingSent /\ Orderly(desk, known)
        /\ link \in [Workers -> Link] /\ leaderBox \in Seq(Request) /\ known \in SUBSET Ids
        /\ MessagesApart([w \in Workers |-> link[w].toLeader], leaderBox, asked, known)
        /\ (desk.layer = "yolo" => consent)
    BY CurrentState
  <1>2. UNCHANGED <<proc, leaderBox, asked, known, granted>>
    BY DEF SwitchMode
  <1>3. ASSUME NEW d \in Desk, NEW yes \in SUBSET Ids, DeskBecomes(d, link, yes, FALSE),
               SaysYesTo(d, yes), Orderly(d, known), d.layer = "yolo" => desk.layer = "yolo"
        PROVE  ExchangeInv'
    <2>1. /\ UNCHANGED <<proc, granted>> /\ Orderly(d, known')
          /\ leaderBox' \in Seq(Request)
          /\ asked' \in 0..MaxRequests /\ known' \in SUBSET Ids
          /\ MessagesApart([w \in Workers |-> link[w].toLeader], leaderBox', asked', known')
      BY <1>1, <1>2, <1>3 DEF ExchangeInv, TypeOK
    <2>2. QED  BY ONLY ExchangeInv, <1>1, <1>3, <2>1, UnattendedStep
  <1>4. ASSUME NEW b \in BOOLEAN, NEW e, e = [desk EXCEPT !.eternal = b]
        PROVE  /\ e \in Desk /\ e.gate = desk.gate /\ e.queue = desk.queue
               /\ e.pending = desk.pending /\ e.layer = desk.layer /\ e.out = NothingSent
               /\ Orderly(e, known) /\ Standing(e) = Standing(desk)
    <2>1. /\ e \in Desk /\ e.gate = desk.gate /\ e.queue = desk.queue
          /\ e.pending = desk.pending /\ e.layer = desk.layer /\ e.out = NothingSent
      BY <1>1, <1>4 DEF Desk
    <2>2. QED  BY <2>1, <1>1, DeskKept, SamePlaces
  <1>5. CASE desk.eternal
    <2> DEFINE b == FALSE  e == [desk EXCEPT !.eternal = b]  yes == {}
    <2>1. DeskBecomes(e, link, yes, FALSE) /\ b \in BOOLEAN /\ yes \in SUBSET Ids
      BY <1>5 DEF SwitchMode
    <2> HIDE DEF b, yes
    <2>2. /\ e \in Desk /\ e.layer = desk.layer /\ e.out = NothingSent /\ Orderly(e, known)
      BY <2>1, <1>4
    <2> HIDE DEF e
    <2>3. SaysYesTo(e, yes)  BY <2>2, SilentDesk
    <2>4. QED  BY <1>3, <2>1, <2>2, <2>3
  <1>6. CASE ~desk.eternal
    <2> DEFINE b == TRUE  e == [desk EXCEPT !.eternal = b]  d == Replay(e)
               yes == Standing(desk) \ Standing(d)
    <2>1. DeskBecomes(d, link, yes, FALSE) /\ b \in BOOLEAN
      BY <1>6 DEF SwitchMode
    <2> HIDE DEF b
    <2>2. /\ e \in Desk /\ e.layer = desk.layer /\ e.out = NothingSent /\ Orderly(e, known)
          /\ Standing(e) = Standing(desk)
      BY <2>1, <1>4
    <2> HIDE DEF e
    <2>3. SaysYesTo(e, Standing(e) \ Standing(e))  BY <2>2, SilentDesk
    <2>4. e \in Replayed(e, known)  BY <2>2, <2>3 DEF Replayed
    <2>5. d \in Replayed(e, known)  BY <2>2, <2>4, ReplayEffect
    <2> HIDE DEF d
    <2>6. /\ d \in Desk /\ Orderly(d, known) /\ (d.layer = "yolo" => desk.layer = "yolo")
          /\ SaysYesTo(d, yes)
      BY <2>2, <2>5 DEF Replayed
    <2>7. yes \in SUBSET Ids  BY DEF Standing
    <2> HIDE DEF yes
    <2>8. QED  BY <1>3, <2>1, <2>6, <2>7
  <1>7. QED  BY <1>5, <1>6

LEMMA RestartStep ==
  ASSUME ExchangeInv, Restart
  PROVE  ExchangeInv'
  <1> DEFINE b == FALSE  p == [Started EXCEPT !.up = b]
  <1>1. /\ desk' = [NewDesk EXCEPT !.gate = desk.gate, !.waiting = desk.waiting,
                                   !.eternal = desk.eternal, !.layer = desk.layer]
        /\ proc' = [w \in Workers |-> p]
        /\ link' = [w \in Workers |-> NoMessages] /\ leaderBox' = <<>>
        /\ UNCHANGED <<asked, known, granted, approved, consent>>
    BY DEF Restart
  <1>2. /\ desk \in Desk /\ Orderly(desk, known) /\ (desk.layer = "yolo" => consent)
        /\ asked \in Nat /\ known \in SUBSET Ids
        /\ MessagesApart([w \in Workers |-> link[w].toLeader], leaderBox, asked, known)
    BY CurrentState
  <1>3. <<>> \in Seq(Response) /\ TrueTo(<<>>, approved)  BY EmptyTrue
  <1>4. p \in Process /\ p.inbox = <<>>
    <2>1. b \in BOOLEAN  OBVIOUS
    <2> HIDE DEF b
    <2>2. Started \in Process /\ Started.inbox = <<>>  BY <1>3 DEF Started, Process, Ids
    <2>3. QED  BY <2>1, <2>2 DEF Process
  <1> HIDE DEF p
  <1>5. /\ NoMessages \in Link /\ NoMessages.toLeader = <<>> /\ NoMessages.held = <<>>
        /\ NoMessages.toWorker = <<>>
    BY <1>3 DEF NoMessages, Link
  <1>6. NewDesk \in Desk /\ NewDesk.out = NothingSent /\ NewDesk.queue = <<>> /\ NewDesk.pending = {}
    <2>1. NothingSent \in [Workers -> Seq(Response)]  BY DEF NothingSent
    <2>2. <<>> \in Seq(Request) /\ {} \in SUBSET Request /\ {} \in SUBSET Ids  OBVIOUS
    <2>3. QED  BY <2>1, <2>2 DEF NewDesk, Desk
  <1>7. /\ desk' \in Desk /\ desk'.out = NothingSent /\ desk'.queue = <<>>
        /\ desk'.pending = {} /\ desk'.gate = desk.gate /\ desk'.layer = desk.layer
    BY <1>1, <1>2, <1>6, DeskFields DEF Desk
  <1>8. TypeOK'
    <2>1. leaderBox' \in Seq(Request)  BY <1>1
    <2>2. QED  BY <1>1, <1>4, <1>5, <1>7, <2>1 DEF ExchangeInv, TypeOK
  <1>9. DeskInOrder'
    <2>1. Apart(desk')  BY <1>7 DEF Apart, QueueApart, BehindGate
    <2>2. Entries(desk') \subseteq Entries(desk)  BY <1>7 DEF Entries
    <2>3. LeadersOwn(desk', known)
      BY <1>2, <1>7, <2>2 DEF Orderly, LeadersOwn
    <2>4. PendingStands(desk')  BY <1>7 DEF PendingStands
    <2>5. QED  BY <1>1, <2>1, <2>3, <2>4 DEF DeskInOrder, Orderly
  <1>10. RequestsApart'
    <2>1. \A id \in known : id <= asked  BY <1>2 DEF MessagesApart
    <2>2. \A w \in Workers : link'[w].toLeader = <<>>  BY <1>1, <1>5
    <2>3. QED
      BY <1>1, <2>1, <2>2
      DEF RequestsApart, MessagesApart, OldUnread, DistinctIds, NoSharedId
  <1>11. AnswersTrue'  BY <1>1, <1>3, <1>4, <1>5 DEF AnswersTrue
  <1>12. GrantsAreApproved' /\ LayerChosen'
    BY <1>1, <1>2, <1>7 DEF ExchangeInv, GrantsAreApproved, LayerChosen
  <1>13. QED  BY <1>8, <1>9, <1>10, <1>11, <1>12 DEF ExchangeInv

LEMMA StutterStep ==
  ASSUME ExchangeInv, UNCHANGED vars
  PROVE  ExchangeInv'
  BY DEF vars, ExchangeInv, TypeOK, DeskInOrder, RequestsApart, AnswersTrue,
         GrantsAreApproved, LayerChosen

(* The inductive invariant behind the theorems: answers and requests on their *)
(* way agree with what was said and what was read, and the desk is in order   *)
(* (module PermissionExchange as a whole).                                    *)
THEOREM InvariantHolds == Spec => []ExchangeInv
  <1>1. ExchangeInv /\ [Next]_vars => ExchangeInv'
    <2> SUFFICES ASSUME ExchangeInv, [Next]_vars PROVE ExchangeInv'  OBVIOUS
    <2>1. ASSUME NEW w \in Workers, AskPermission(w) PROVE ExchangeInv'
      BY <2>1, AskStep
    <2>2. ASSUME NEW w \in Workers, AnswerArrives(w) PROVE ExchangeInv'
      BY <2>2, AnswerStep
    <2>3. ASSUME NEW w \in Workers,
                 \/ \E id \in Ids : WaitTimesOut(w, id)
                 \/ BatchEnds(w) \/ WorkerDies(w) \/ WorkerReturns(w)
          PROVE  ExchangeInv'
      BY <2>3, ProcessStep
    <2>4. ASSUME NEW w \in Workers, NEW running \in BOOLEAN, RequestArrives(w, running)
          PROVE  ExchangeInv'
      BY <2>4, RequestStep
    <2>5. CASE LeaderReads  BY <2>5, ReadStep
    <2>6. ASSUME NEW worker \in Workers \cup {Leader}, NEW id \in Ids, NEW mode \in Modes,
                 LeaderAsks(worker, id, mode)
          PROVE  ExchangeInv'
      BY <2>6, LeaderAsksStep
    <2>7. CASE \/ \E ok, all \in BOOLEAN : UserAnswers(ok, all)
               \/ \E text \in {"/approve", "/deny", "other"} : UserTypes(text)
      BY <2>7, UserStep
    <2>8. CASE TurnEnds \/ WaitCleared  BY <2>8, WaitSteps
    <2>9. CASE SwitchMode  BY <2>9, SwitchStep
    <2>10. CASE Restart  BY <2>10, RestartStep
    <2>11. CASE UNCHANGED vars  BY <2>11, StutterStep
    <2>12. CASE \E mode \in {"yolo", "other"} : UserSetsMode(mode)  BY <2>12, ModeStep
    <2>13. QED
      BY <2>1, <2>2, <2>3, <2>4, <2>5, <2>6, <2>7, <2>8, <2>9, <2>10, <2>11, <2>12 DEF Next
  <1>2. QED  BY InitInv, <1>1, PTL DEF Spec

\* Every reachable state is well typed, for any workers and bounds: the bridge
\* sends processes answers and no envelopes, and no desk keeps an answer.
THEOREM TypeCorrect == Spec => []TypeOK
  <1>1. ExchangeInv => TypeOK  BY DEF ExchangeInv
  <1>2. QED  BY InvariantHolds, <1>1, PTL

\* A tool call goes on only with a yes that was said to this very request
\* (requestPermissionFromLeader, the bridge and the inboxes).
THEOREM GrantsApproved == Spec => []GrantsAreApproved
  <1>1. ExchangeInv => GrantsAreApproved  BY DEF ExchangeInv
  <1>2. QED  BY InvariantHolds, <1>1, PTL

\* A worker's request that the Leader knows to be unanswered is at the gate, or
\* in the queue behind an open gate (openPermissionGate, openNextPermissionGate).
THEOREM RequestsKeptInMind == Spec => []NoRequestForgotten
  <1>1. ExchangeInv => NoRequestForgotten
    <2> SUFFICES ASSUME ExchangeInv PROVE NoRequestForgotten  OBVIOUS
    <2>1. desk \in Desk /\ Orderly(desk, known)  BY CurrentState
    <2>2. \A p \in desk.pending : AtGate(desk, p.id) \/ InQueue(desk, p.id)
      BY <2>1 DEF Orderly, PendingStands, Standing
    <2>3. ASSUME desk.queue # <<>> PROVE desk.gate # NoGate
      <3>1. desk.queue \in Seq(Request)  BY <2>1, DeskFields
      <3>2. Len(desk.queue) \in Nat \ {0}  BY <2>3, <3>1, FirstOf
      <3>3. 1 \in 1..Len(desk.queue)  BY <3>2
      <3>4. QED  BY <2>1, <3>3 DEF Orderly, Apart, BehindGate
    <2>4. QED  BY <2>2, <2>3 DEF NoRequestForgotten
  <1>2. QED  BY InvariantHolds, <1>1, PTL

\* The session is in mode "yolo" because it has no mode of its own and the
\* configuration says so, or else because the user said yes to it, whatever the
\* configured modes are (requestPermissionUpdate, replayPendingOnEternalEnable).
THEOREM YoloChosen == Spec => []YoloIsUsersChoice
  <1>1. ExchangeInv => YoloIsUsersChoice
    BY DEF ExchangeInv, LayerChosen, YoloIsUsersChoice, InYolo
  <1>2. QED  BY InvariantHolds, <1>1, PTL
=============================================================================
