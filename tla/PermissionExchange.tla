--------------------------- MODULE PermissionExchange ---------------------------
(***************************************************************************)
(* A worker that lacks a permission asks the Leader and waits: the request  *)
(* goes over the worker's channel and the session's message bus to          *)
(* LeaderPermissionManager (PermissionDesk), the answer over the worker's   *)
(* inbox in the session's bus, the bridge of AgentPoolRuntime and the       *)
(* worker's own bus back to the call that waits. Workers crash and come     *)
(* back under their name, answers come late, and the process of the         *)
(* session may restart.                                                     *)
(***************************************************************************)
EXTENDS PermissionDesk

CONSTANTS
  Parallel,    \* tool calls of a worker that may wait at once
  MaxAnswers   \* bound: unread answers of a worker while the Leader asks again

ASSUME ExchangeAssumption == Parallel \in Nat \ {0} /\ MaxAnswers \in Nat

VARIABLES
  desk,      \* LeaderPermissionManager of the Leader
  proc,      \* the processes of the workers
  link,      \* messages between a worker and the session
  leaderBox, \* requests in the Leader's inbox that its loop has not read
  asked,     \* the greatest request id in use
  known,     \* request ids in the Leader's conversation
  granted,   \* requests whose tool call went on
  approved,  \* requests the user, or the eternal mode, said yes to
  consent    \* "yolo" in the session's layer was set by the user, or with a yes to it

vars == <<desk, proc, link, leaderBox, asked, known, granted, approved, consent>>

\* waits: calls inside waitForMessageType. inbox: responses in the bus of the
\* process. timeouts: permissionTimeoutCount, which ends the worker at 2.
Process == [up : BOOLEAN, waits : SUBSET Ids, inbox : Seq(Response), timeouts : 0..2]
Started == [up |-> TRUE, waits |-> {}, inbox |-> <<>>, timeouts |-> 0]

\* toLeader: requests on the worker's channel. held: answers in the worker's
\* inbox on the session's bus while no process takes them. toWorker: answers
\* that the bridge has sent to the process.
Link == [toLeader : Seq(Request), held : Seq(Response), toWorker : Seq(Response)]
NoMessages == [toLeader |-> <<>>, held |-> <<>>, toWorker |-> <<>>]

TypeOK ==
  /\ desk \in Desk /\ desk.out = NothingSent
  /\ proc \in [Workers -> Process] /\ link \in [Workers -> Link]
  /\ leaderBox \in Seq(Request) /\ asked \in 0..MaxRequests /\ known \subseteq Ids
  /\ granted \subseteq Ids /\ approved \subseteq Ids /\ consent \in BOOLEAN

Init ==
  /\ desk = NewDesk
  /\ proc = [w \in Workers |-> Started] /\ link = [w \in Workers |-> NoMessages]
  /\ leaderBox = <<>> /\ asked = 0 /\ known = {}
  /\ granted = {} /\ approved = {} /\ consent = FALSE

(***************************************************************************)
(* The worker's side.                                                       *)
(***************************************************************************)

\* Mutant of Granted: the id of the response is not compared.
GrantedByAny(id, r) == r.ok

\* The end of requestPermissionFromLeader: the call takes whatever response the
\* wait returned and compares its id with its own.
Granted(id, r) == r.id = id /\ r.ok

\* waitForMessageType: a response that is already in the inbox is returned at
\* once, and stays there.
Await(w, id) ==
  LET inbox == proc[w].inbox
  IN IF inbox = <<>>
     THEN proc' = [proc EXCEPT ![w].waits = @ \cup {id}] /\ UNCHANGED granted
     ELSE /\ granted' = granted \cup (IF Granted(id, Head(inbox)) THEN {id} ELSE {})
          /\ UNCHANGED proc

AskPermission(w) ==
  /\ proc[w].up /\ asked < MaxRequests /\ Cardinality(proc[w].waits) < Parallel
  /\ asked' = asked + 1
  /\ link' = [link EXCEPT ![w].toLeader =
                Append(@, [id |-> asked + 1, worker |-> w, mode |-> "other"])]
  /\ Await(w, asked + 1)
  /\ UNCHANGED <<desk, leaderBox, known, approved, consent>>

\* deliverMessage on the bus of the process: into the inbox, then to every
\* subscriber, so that one response ends every wait.
AnswerArrives(w) ==
  /\ proc[w].up /\ link[w].toWorker # <<>>
  /\ LET r == Head(link[w].toWorker)
     IN /\ proc' = [proc EXCEPT ![w].waits = {}, ![w].inbox = Append(@, r)]
        /\ granted' = granted \cup {id \in proc[w].waits : Granted(id, r)}
  /\ link' = [link EXCEPT ![w].toWorker = Tail(@)]
  /\ UNCHANGED <<desk, leaderBox, asked, known, approved, consent>>

WaitTimesOut(w, id) ==
  /\ id \in proc[w].waits
  /\ proc' = [proc EXCEPT ![w].waits = @ \ {id},
                          ![w].timeouts = IF @ = 2 THEN 2 ELSE @ + 1]
  /\ UNCHANGED <<desk, link, leaderBox, asked, known, granted, approved, consent>>

\* Between two batches of tool calls the worker reads its whole inbox, or stops
\* for good after two timeouts.
BatchEnds(w) ==
  /\ proc[w].up /\ proc[w].waits = {}
  /\ proc[w].inbox # <<>> \/ proc[w].timeouts = 2
  /\ proc' = [proc EXCEPT ![w].inbox = IF proc[w].timeouts = 2 THEN @ ELSE <<>>,
                          ![w].up = proc[w].timeouts < 2]
  /\ UNCHANGED <<desk, link, leaderBox, asked, known, granted, approved, consent>>

\* The process exits or crashes; what the bridge has sent to it is lost.
WorkerDies(w) ==
  /\ proc[w].up
  /\ proc' = [proc EXCEPT ![w] = [Started EXCEPT !.up = FALSE]]
  /\ link' = [link EXCEPT ![w].toWorker = <<>>]
  /\ UNCHANGED <<desk, leaderBox, asked, known, granted, approved, consent>>

\* A process of the same name: installWorkerInboxBridge sends it what waited.
WorkerReturns(w) ==
  /\ ~proc[w].up
  /\ proc' = [proc EXCEPT ![w] = Started]
  /\ link' = [link EXCEPT ![w].toWorker = link[w].held, ![w].held = <<>>]
  /\ UNCHANGED <<desk, leaderBox, asked, known, granted, approved, consent>>

(***************************************************************************)
(* The Leader's side. Answers go on the session's bus to the worker's       *)
(* inbox, where the bridge takes them at once if the process can be sent to.*)
(***************************************************************************)

\* Mutant of Bridged: the envelope of the bus goes to the process as the answer.
BridgedWithEnvelope(links, d) ==
  [w \in Workers |->
     LET sent == [i \in 1..Len(d.out[w]) |-> [to |-> w, payload |-> d.out[w][i]]]
     IN IF proc[w].up THEN [links[w] EXCEPT !.toWorker = @ \o sent]
        ELSE [links[w] EXCEPT !.held = @ \o sent]]

Bridged(links, d) ==
  [w \in Workers |->
     IF proc[w].up THEN [links[w] EXCEPT !.toWorker = @ \o d.out[w]]
     ELSE [links[w] EXCEPT !.held = @ \o d.out[w]]]

\* yes: the requests among those answered that are approved. yolo: the user has
\* said yes to "yolo".
DeskBecomes(d, links, yes, yolo) ==
  /\ desk' = [d EXCEPT !.out = NothingSent]
  /\ link' = Bridged(links, d)
  /\ approved' = approved \cup yes
  /\ consent' = (d.layer = "yolo" /\ (yolo \/ consent))

\* WorkerEventHandlerBinder sends the message on the session's bus, into the
\* Leader's inbox, and LeaderP0Handler takes it at once; running: the Leader's
\* loop runs, so that the handler is subscribed.
RequestArrives(w, running) ==
  /\ link[w].toLeader # <<>>
  /\ LET p == Head(link[w].toLeader)
         d == IF running THEN Receive(desk, p) ELSE desk
     IN /\ leaderBox' = Append(leaderBox, p)
        /\ DeskBecomes(d, [link EXCEPT ![w].toLeader = Tail(@)],
                       d.resolved \ desk.resolved, FALSE)
  /\ UNCHANGED <<proc, asked, known, granted>>

\* The Leader's loop meets the same message again in its inbox.
LeaderReads ==
  /\ leaderBox # <<>>
  /\ LET d == Receive(desk, Head(leaderBox))
     IN DeskBecomes(d, link, d.resolved \ desk.resolved, FALSE)
  /\ leaderBox' = Tail(leaderBox)
  /\ known' = known \cup {Head(leaderBox).id}
  /\ UNCHANGED <<proc, asked, granted>>

Unread(w) == Len(proc[w].inbox) + Len(link[w].held) + Len(link[w].toWorker)

\* The Leader calls request_permission_update, for itself or for a worker, with
\* the id of a request it has read of or without one (a new id).
LeaderAsks(worker, id, mode) ==
  /\ id \in known \cup {asked + 1}
  /\ \A w \in Workers : Unread(w) <= MaxAnswers
  /\ asked' = IF id > asked THEN id ELSE asked
  /\ known' = known \cup {id}
  /\ \E p \in Recovered(desk, [id |-> id, worker |-> worker, mode |-> mode]) :
       DeskBecomes(RequestUpdate(desk, p), link,
                   IF desk.eternal /\ p.mode # "yolo" THEN {p.id} ELSE {}, FALSE)
  /\ UNCHANGED <<proc, leaderBox, granted>>

\* The user answers in the web interface; all: "allow all".
UserAnswers(ok, all) ==
  /\ desk.gate # NoGate /\ (all => ok)
  /\ LET mode == IF all THEN "yolo" ELSE desk.gate.mode
     IN DeskBecomes(Resolve(desk, ok, mode), link,
                    IF ok THEN {desk.gate.id} ELSE {}, ok /\ mode = "yolo")
  /\ UNCHANGED <<proc, leaderBox, asked, known, granted>>

\* The user types a message. While the Leader waits for the user it is read as
\* conversation, whatever it says; otherwise /approve and /deny answer the gate,
\* and the Leader takes itself to wait for nobody, also if the next gate is open.
UserTypes(text) ==
  IF desk.waiting \/ desk.gate = NoGate
  THEN /\ desk' = [desk EXCEPT !.waiting = FALSE]
       /\ UNCHANGED <<proc, link, leaderBox, asked, known, granted, approved, consent>>
  ELSE /\ text # "other"
       /\ LET ok == text = "/approve"
              d == Resolve(desk, ok, desk.gate.mode)
          IN DeskBecomes([d EXCEPT !.waiting = FALSE], link,
                         IF ok THEN {desk.gate.id} ELSE {},
                         ok /\ desk.gate.mode = "yolo")
       /\ UNCHANGED <<proc, leaderBox, asked, known, granted>>

\* setPermissionMode, from the interface.
UserSetsMode(mode) ==
  /\ DeskBecomes(SetMode(desk, mode), link, {}, mode = "yolo")
  /\ UNCHANGED <<proc, leaderBox, asked, known, granted>>

\* A turn of the Leader ends with waitingForUser set.
TurnEnds ==
  /\ ~desk.waiting /\ desk' = [desk EXCEPT !.waiting = TRUE]
  /\ UNCHANGED <<proc, link, leaderBox, asked, known, granted, approved, consent>>

\* clearSoftWaitingForUser: a report of a worker, unless a gate is open.
WaitCleared ==
  /\ desk.waiting /\ desk.gate = NoGate
  /\ desk' = [desk EXCEPT !.waiting = FALSE]
  /\ UNCHANGED <<proc, link, leaderBox, asked, known, granted, approved, consent>>

\* setControlMode
SwitchMode ==
  /\ IF desk.eternal
     THEN DeskBecomes([desk EXCEPT !.eternal = FALSE], link, {}, FALSE)
     ELSE LET d == Replay([desk EXCEPT !.eternal = TRUE])
          IN DeskBecomes(d, link, Standing(desk) \ Standing(d), FALSE)
  /\ UNCHANGED <<proc, leaderBox, asked, known, granted>>

\* The process of the session ends and another resumes the session: the open
\* gate, the wait, the control mode and the session's layer of permissions are in
\* the database, all else was in memory.
Restart ==
  /\ desk' = [NewDesk EXCEPT !.gate = desk.gate, !.waiting = desk.waiting,
                             !.eternal = desk.eternal, !.layer = desk.layer]
  /\ proc' = [w \in Workers |-> [Started EXCEPT !.up = FALSE]]
  /\ link' = [w \in Workers |-> NoMessages] /\ leaderBox' = <<>>
  /\ UNCHANGED <<asked, known, granted, approved, consent>>

Next ==
  \/ \E w \in Workers :
       \/ AskPermission(w) \/ AnswerArrives(w) \/ BatchEnds(w)
       \/ WorkerDies(w) \/ WorkerReturns(w)
       \/ \E id \in Ids : WaitTimesOut(w, id)
       \/ \E running \in BOOLEAN : RequestArrives(w, running)
  \/ LeaderReads
  \/ \E worker \in Workers \cup {Leader}, id \in Ids, mode \in Modes :
       LeaderAsks(worker, id, mode)
  \/ \E ok, all \in BOOLEAN : UserAnswers(ok, all)
  \/ \E text \in {"/approve", "/deny", "other"} : UserTypes(text)
  \/ \E mode \in {"yolo", "other"} : UserSetsMode(mode)
  \/ TurnEnds \/ WaitCleared \/ SwitchMode \/ Restart

\* Fairness: the user answers a gate that stays open. Nothing obliges a worker,
\* a channel or the Leader.
Spec == Init /\ [][Next]_vars /\ WF_vars(\E ok, all \in BOOLEAN : UserAnswers(ok, all))

\* A tool call goes on only with a yes that was said to this very request, by
\* the user or by the eternal mode: not on the answer to an earlier request that
\* came after its timeout, to a parallel call, to the Leader's own request, or to
\* the process that had the worker's name before (BaseAgentRuntime.ts
\* requestPermissionFromLeader, the bridge and the inboxes in between).
GrantsAreApproved == granted \subseteq approved

\* A worker's request that the Leader knows to be unanswered is at the gate or in
\* the queue behind an open gate, so that an answer of the user leads to it
\* (openPermissionGate, openNextPermissionGate, recoverWorkerContext).
NoRequestForgotten ==
  /\ \A p \in desk.pending : AtGate(desk, p.id) \/ InQueue(desk, p.id)
  /\ desk.queue # <<>> => desk.gate # NoGate

\* The session is in mode "yolo" because it has no mode of its own and the
\* configuration says so, or else because the user set it or said yes to it: what the eternal
\* mode approves by itself, at once or by replay, whatever the Leader asks for,
\* with or without a mode, and however requests are queued and matched, never
\* brings a session that has left "yolo", or was not in it, there
\* (requestPermissionUpdate, replayPendingOnEternalEnable,
\* applyAndPersistPermissionUpdates).
YoloIsUsersChoice == InYolo(desk) => ByConfiguration(desk) \/ consent

\* A request in the queue reaches the gate, is answered by the eternal mode, or
\* goes with the process, if the user answers every gate that stays open
\* (closePermissionGate and openNextPermissionGate).
QueueIsServed ==
  \A id \in Ids : InQueue(desk, id) ~> ~InQueue(desk, id)

=============================================================================
