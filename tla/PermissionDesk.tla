----------------------------- MODULE PermissionDesk -----------------------------
(***************************************************************************)
(* agents/LeaderPermissionManager.ts: the requests for permission that the  *)
(* Leader of a session has before the user, as operators from a desk to a   *)
(* desk. The answers that an operator sends to a worker stand in the desk's *)
(* `out`, in order; the caller takes them to the workers.                   *)
(***************************************************************************)
EXTENDS Naturals, FiniteSets, Sequences

CONSTANTS
  Workers,      \* names of worker agents
  Leader,       \* stands for the worker name of a request of the Leader itself
  MaxRequests,  \* bound on request ids
  NoGate,       \* pendingPermissionRequest = null
  DefaultYolo,  \* security.permission_mode is "yolo", or is no mode at all
  BelowYolo     \* the mode of the layers below the session's is "yolo": the
                \* default, unless a permission file of user or project has one

ASSUME DeskAssumption ==
  /\ Leader \notin Workers /\ MaxRequests \in Nat \ {0}
  /\ DefaultYolo \in BOOLEAN /\ BelowYolo \in BOOLEAN

Ids == 1..MaxRequests

\* requestedMode, with "other" for all modes but "yolo"; a worker asks for
\* "networked" or "dev", the Leader's tool may leave the mode out ("none").
Modes == {"none", "yolo", "other"}

\* worker: the worker to be answered, or Leader (source "leader"). The destination
\* is the session, as it is unless the Leader's tool names a permission file.
Request == [id : Ids, worker : Workers \cup {Leader}, mode : Modes]
Response == [id : Ids, ok : BOOLEAN]

ASSUME GateAssumption == NoGate \notin Request

\* gate: pendingPermissionRequest. queue: pendingPermissionQueue.
\* pending: pendingWorkerRequests. resolved: resolvedPermissionRequestIds.
\* eternal: the control mode. waiting: waitingForUser of the Leader.
\* layer: the mode in the session's layer of permissions (TOOL_PERMISSION_CONTEXT),
\* "unset" if nothing is stored and "none" if what is stored has no mode.
Desk == [gate : Request \cup {NoGate}, queue : Seq(Request),
         pending : SUBSET Request, resolved : SUBSET Ids,
         eternal : BOOLEAN, waiting : BOOLEAN, layer : Modes \cup {"unset"},
         out : [Workers -> Seq(Response)]]

NothingSent == [w \in Workers |-> <<>>]

NewDesk == [gate |-> NoGate, queue |-> <<>>, pending |-> {}, resolved |-> {},
            eternal |-> FALSE, waiting |-> FALSE, layer |-> "unset",
            out |-> NothingSent]

\* The layers below the session's, or the default before anything is stored.
ByConfiguration(d) ==
  \/ d.layer = "unset" /\ DefaultYolo
  \/ d.layer = "none" /\ BelowYolo

\* permissionContext.mode is "yolo": the constructor, loadPermissionContextFromState
\* and every update leave it at what the layers say.
InYolo(d) == d.layer = "yolo" \/ ByConfiguration(d)

\* applyAndPersistPermissionUpdates: without a mode the layer is stored as it was.
SetMode(d, mode) ==
  [d EXCEPT !.layer =
     IF mode # "none" THEN mode ELSE IF @ = "unset" THEN "none" ELSE @]

AtGate(d, id) == d.gate # NoGate /\ d.gate.id = id
InQueue(d, id) == \E i \in 1..Len(d.queue) : d.queue[i].id = id
Standing(d) == {id \in Ids : AtGate(d, id) \/ InQueue(d, id)}

OpenGate(d, p) ==
  IF AtGate(d, p.id) \/ InQueue(d, p.id) THEN d
  ELSE IF d.gate # NoGate THEN [d EXCEPT !.queue = Append(@, p)]
  ELSE [d EXCEPT !.gate = p, !.waiting = TRUE]

OpenNext(d) ==
  IF d.queue = <<>> THEN d
  ELSE OpenGate([d EXCEPT !.queue = Tail(@)], Head(d.queue))

\* Mutant of CloseGate: the request stays at the gate.
CloseGateKeepsRequest(d) == [d EXCEPT !.waiting = FALSE]

CloseGate(d) == [d EXCEPT !.gate = NoGate, !.waiting = FALSE]

\* sendPermissionResponseToWorker. The window of 500 resolved ids is unbounded here.
Answer(d, p, ok) ==
  LET remembered == [d EXCEPT !.resolved = @ \cup {p.id}]
  IN IF p.worker = Leader THEN remembered
     ELSE [remembered EXCEPT
             !.out[p.worker] = Append(@, [id |-> p.id, ok |-> ok]),
             !.pending = {q \in @ : q.id # p.id}]

ApproveAutomatically(d, p) == Answer(SetMode(d, p.mode), p, TRUE)

\* Mutant of RequestUpdate: no exception for "yolo".
RequestUpdateWithoutLimit(d, p) ==
  IF d.eternal THEN ApproveAutomatically(d, p) ELSE OpenGate(d, p)

\* requestPermissionUpdate, with the worker's context recovered by the caller.
RequestUpdate(d, p) ==
  IF d.eternal /\ p.mode # "yolo" THEN ApproveAutomatically(d, p) ELSE OpenGate(d, p)

\* receiveWorkerPermissionRequest
Receive(d, p) ==
  IF p.id \in d.resolved THEN d
  ELSE RequestUpdate([d EXCEPT !.pending = {q \in @ : q.id # p.id} \cup {p}], p)

\* recoverWorkerContext: the payloads that a call of the Leader's tool may end
\* as. A call without a worker name is matched with a request still unanswered,
\* by its id or else by the name of its tool if only one request has it.
Recovered(d, p) ==
  IF p.worker # Leader THEN {p}
  ELSE LET byId == {q \in d.pending : q.id = p.id}
           found == IF byId # {} THEN byId ELSE d.pending
           as(q) == [p EXCEPT !.worker = q.worker, !.id = q.id]
       IN {as(q) : q \in found} \cup (IF byId = {} THEN {p} ELSE {})

\* Mutant of Resolve: the next request is not brought to the gate.
ResolveWithoutNext(d, ok, mode) ==
  CloseGate(Answer(IF ok THEN SetMode(d, mode) ELSE d, d.gate, ok))

\* The user's answer to the open gate: resolvePendingPermissionFromUserInput and
\* resolvePermissionFromWebUI. mode: what the answer sets, if it is a yes.
Resolve(d, ok, mode) ==
  LET set == IF ok THEN SetMode(d, mode) ELSE d
  IN OpenNext(CloseGate(Answer(set, d.gate, ok)))

\* A turn of replayPendingOnEternalEnable: approve what stands at the gate, unless
\* it is nothing or a request for "yolo".
ReplayTurn(d) ==
  IF d.gate = NoGate \/ d.gate.mode = "yolo" THEN d
  ELSE OpenNext(CloseGate(ApproveAutomatically(d, d.gate)))

\* replayPendingOnEternalEnable: the loop ends after as many turns as requests.
Replay(d) ==
  LET turn[k \in Nat] == IF k = 0 THEN d ELSE ReplayTurn(turn[k - 1])
  IN turn[Len(d.queue) + 1]

=============================================================================
