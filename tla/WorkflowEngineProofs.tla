------------------------- MODULE WorkflowEngineProofs -------------------------
(***************************************************************************)
(* The types of WorkflowEngine, that what is idle is settled, that a failure *)
(* is final, that a stop holds, that a completed execution has completed all *)
(* and that nodes work in the order of the edges, for all workflows,         *)
(* executions and bounds.                                                    *)
(*                                                                           *)
(* The last two rest on what each step does to one execution (Moved to       *)
(* Emptied): every action is one such step (EveryStep), and the invariants   *)
(* of an execution (Shaped, RunKnows, Ordered) are kept by each of them.     *)
(***************************************************************************)
EXTENDS WorkflowEngine, FiniteSetTheorems, WellFoundedInduction, TLAPS

\* What TypeOK says of walks alone.
WalksOK == walk \in [WalkIds -> Walk \cup {None}] /\ Placed /\ Nested

\* r may replace walk w: it belongs to the same walk, and is at a node of its body.
Continues(r, w) ==
  /\ r \in Walk /\ r.exec = walk[w].exec /\ r.role = walk[w].role
  /\ r.parent = walk[w].parent /\ r.body = walk[w].body
  /\ r.state \in {"start", "busy", "delay", "inside", "ended"} => r.at \in r.body

\* Walk v is a run of runWorkflow.
IsRun(v) == walk[v] # None /\ walk[v].role # "inside"

\* A step that neither begins nor ends a run, and one that leaves what is known of
\* an execution as a whole.
SameRuns ==
  \A v \in WalkIds :
    /\ IsRun(v)' <=> IsRun(v)
    /\ IsRun(v) => walk'[v].exec = walk[v].exec /\ walk'[v].role = walk[v].role
SameStatus ==
  \A e \in Executions :
    /\ exec'[e].status = exec[e].status /\ exec'[e].error = exec[e].error
    /\ exec'[e].active = exec[e].active /\ exec'[e].timer = exec[e].timer
    /\ exec'[e].row = exec[e].row

-----------------------------------------------------------------------------
(* The questions of the graph answer with nodes of the graph *)

\* A workflow of the instance has nodes and edges among Nodes.
LEMMA GraphNodes ==
  ASSUME NEW g \in Workflows, NEW n, NEW result \in BOOLEAN
  PROVE  /\ g.nodes \subseteq Nodes /\ Body(g, n) \subseteq g.nodes
         /\ Entries(g, n) \subseteq g.nodes /\ StartNodes(g) \subseteq g.nodes
         /\ ActiveTargets(g, n, result) \subseteq g.nodes
BY EngineAssumption DEF IsWorkflow, Edge, Body, Reach, Entries, Targets, OutOf, StartNodes,
   ActiveTargets, ChosenEdges, EngineAssumption

\* The first attempt and the first turn are within the bounds.
LEMMA ZeroInBounds == 0 \in 0..Retries /\ 0 \in 0..Turns
BY EngineAssumption DEF EngineAssumption

\* What a condition shuts off are nodes of the workflow.
LEMMA SkippedNodes ==
  ASSUME NEW g, NEW n, NEW result, NEW seen, NEW skipped, NEW completed
  PROVE  SkippedBy(g, n, result, seen, skipped, completed) \subseteq g.nodes
BY DEF SkippedBy, Reach

-----------------------------------------------------------------------------
(* What a step does to the walks *)

\* A walk goes on, and waits for nobody or still waits.
LEMMA WalkGoesOn ==
  ASSUME WalksOK, NEW w \in WalkIds, walk[w] # None, NEW r, Continues(r, w),
         walk[w].state # "inside" \/ r.state = "inside",
         walk' = [walk EXCEPT ![w] = r]
  PROVE  WalksOK' /\ SameRuns
<1>1. walk' \in [WalkIds -> Walk \cup {None}]
  BY DEF WalksOK, Continues
<1>2. r # None
  BY NoneAssumption DEF NoneAssumption, Continues
<1>3. Placed'
  BY <1>2 DEF WalksOK, Placed, Continues
<1>4. Nested'
  <2> SUFFICES ASSUME NEW v \in WalkIds, walk'[v] # None, walk'[v].parent # None
               PROVE  /\ walk'[v].parent # v
                      /\ walk'[v].role = "inside" /\ walk'[walk'[v].parent] # None
                      /\ walk'[walk'[v].parent].state = "inside"
                      /\ walk'[walk'[v].parent].exec = walk'[v].exec
    BY DEF Nested
  <2>1. walk[v] # None /\ walk'[v].parent = walk[v].parent
        /\ walk'[v].exec = walk[v].exec /\ walk'[v].role = walk[v].role
    BY DEF WalksOK, Continues
  <2>2. walk[v].parent \in WalkIds
    BY <2>1 DEF WalksOK, Walk
  <2>3. /\ walk[v].parent # v
        /\ walk[v].role = "inside" /\ walk[walk[v].parent] # None
        /\ walk[walk[v].parent].state = "inside"
        /\ walk[walk[v].parent].exec = walk[v].exec
    BY <2>1 DEF WalksOK, Nested
  <2> QED
    BY <1>2, <2>1, <2>2, <2>3 DEF WalksOK, Continues
<1>5. SameRuns
  BY <1>2 DEF SameRuns, IsRun, WalksOK, Continues
<1> QED
  BY <1>1, <1>3, <1>4, <1>5 DEF WalksOK

\* A walk ends its wait for those inside its node.
LEMMA WalkLeaves ==
  ASSUME WalksOK, NEW w \in WalkIds, walk[w] # None, NEW r, Continues(r, w),
         walk' = [LeftBehind(w) EXCEPT ![w] = r]
  PROVE  WalksOK' /\ SameRuns
<1> DEFINE L == LeftBehind(w)
<1>1. \A v \in WalkIds :
        \/ L[v] = None
        \/ v \notin Inside(w) /\ L[v] = walk[v]
        \/ walk[v] # None /\ L[v] = [walk[v] EXCEPT !.parent = None]
  BY DEF LeftBehind, Inside
<1>2. L \in [WalkIds -> Walk \cup {None}]
  BY <1>1 DEF LeftBehind, WalksOK, Walk
<1>3. r # None
  BY NoneAssumption DEF NoneAssumption, Continues
<1>4. walk' \in [WalkIds -> Walk \cup {None}] /\ walk'[w] = r
      /\ \A v \in WalkIds : v # w => walk'[v] = L[v]
  BY <1>2 DEF Continues
<1>5. \A v \in WalkIds : L[v] # None =>
        /\ walk[v] # None /\ L[v].exec = walk[v].exec /\ L[v].role = walk[v].role
        /\ L[v].body = walk[v].body /\ L[v].at = walk[v].at /\ L[v].state = walk[v].state
        /\ L[v].parent # None => v \notin Inside(w) /\ L[v].parent = walk[v].parent
  BY <1>1 DEF WalksOK, Walk
<1>8. \A v \in WalkIds : walk[v] # None /\ walk[v].state = "inside" => L[v] # None
  <2> SUFFICES ASSUME NEW v \in WalkIds, walk[v] # None, walk[v].state = "inside"
               PROVE  L[v] # None
    OBVIOUS
  <2>1. walk[v] \in Walk /\ [walk[v] EXCEPT !.parent = None] \in Walk
    BY DEF WalksOK, Walk
  <2> QED
    BY <2>1, NoneAssumption DEF LeftBehind, Returned, In, NoneAssumption
<1>9. \A v \in WalkIds : walk[v] # None /\ walk[v].role # "inside" => L[v] = walk[v]
  <2> SUFFICES ASSUME NEW v \in WalkIds, walk[v] # None, walk[v].role # "inside"
               PROVE  L[v] = walk[v]
    OBVIOUS
  <2>1. w # None
    BY NoneAssumption DEF NoneAssumption
  <2>2. v \notin Inside(w)
    BY <2>1 DEF Inside, WalksOK, Nested
  <2> QED
    BY <2>2 DEF LeftBehind
<1> HIDE DEF L
<1>6. Placed'
  BY <1>3, <1>4, <1>5 DEF WalksOK, Placed, Continues
<1>7. Nested'
  <2> SUFFICES ASSUME NEW v \in WalkIds, walk'[v] # None, walk'[v].parent # None
               PROVE  /\ walk'[v].parent # v
                      /\ walk'[v].role = "inside" /\ walk'[walk'[v].parent] # None
                      /\ walk'[walk'[v].parent].state = "inside"
                      /\ walk'[walk'[v].parent].exec = walk'[v].exec
    BY DEF Nested
  <2> DEFINE p == walk[v].parent
  <2>1. /\ walk[v] # None /\ walk'[v].parent = p /\ p # None
        /\ walk'[v].exec = walk[v].exec /\ walk'[v].role = walk[v].role
        /\ v # w => v \notin Inside(w)
    BY <1>4, <1>5 DEF Continues
  <2>2. /\ p # v /\ walk[v].role = "inside" /\ p \in WalkIds /\ walk[p] # None
        /\ walk[p].state = "inside" /\ walk[p].exec = walk[v].exec
    BY <2>1 DEF WalksOK, Nested, Walk
  <2>3. p # w
    <3>1. CASE v = w
      BY <2>2, <3>1
    <3>2. CASE v # w
      BY <2>1, <3>2 DEF Inside
    <3> QED BY <3>1, <3>2
  <2>4. walk'[p] = L[p] /\ L[p] # None
    BY <1>4, <1>8, <2>2, <2>3
  <2> QED
    BY <1>5, <2>1, <2>2, <2>4
<1>10. SameRuns
  BY <1>3, <1>4, <1>5, <1>9 DEF SameRuns, IsRun, Continues
<1> QED
  BY <1>4, <1>6, <1>7, <1>10 DEF WalksOK

\* A walk that has returned is given up.
LEMMA WalkIsFreed ==
  ASSUME WalksOK, NEW w \in WalkIds, Returned(w), walk' = [walk EXCEPT ![w] = None]
  PROVE  WalksOK'
<1>1. walk' \in [WalkIds -> Walk \cup {None}] /\ Placed'
  BY DEF WalksOK, Placed
<1>2. Nested'
  BY DEF WalksOK, Nested, Walk, Returned, In
<1> QED
  BY <1>1, <1>2 DEF WalksOK

\* A run of runWorkflow begins.
LEMMA RunBegins ==
  ASSUME WalksOK, NEW w \in WalkIds, walk[w] = None, NEW r \in Walk, r.parent = None,
         r.state \in {"next", "broken"}, walk' = [walk EXCEPT ![w] = r]
  PROVE  WalksOK'
<1>1. walk' \in [WalkIds -> Walk \cup {None}] /\ Placed'
  BY DEF WalksOK, Placed
<1>2. Nested'
  BY DEF WalksOK, Nested, Walk
<1> QED
  BY <1>1, <1>2 DEF WalksOK

\* Walks inside the node of a walk begin, with ids that are free or those of walks
\* inside it that have returned.
LEMMA WalksBeginInside ==
  ASSUME WalksOK, NEW w \in WalkIds, walk[w] # None,
         NEW r, Continues(r, w), r.state = "inside",
         NEW ids \in SUBSET WalkIds, w \notin ids,
         \A v \in ids : walk[v] = None \/ (Returned(v) /\ walk[v].role = "inside"),
         NEW b \in [ids -> Walk],
         \A v \in ids : /\ b[v].exec = walk[w].exec /\ b[v].role = "inside"
                        /\ b[v].parent = w /\ b[v].state = "next",
         walk' = [v \in WalkIds |-> IF v \in ids THEN b[v] ELSE IF v = w THEN r ELSE walk[v]]
  PROVE  WalksOK' /\ SameRuns
<1>1. walk' \in [WalkIds -> Walk \cup {None}]
  BY DEF WalksOK, Continues
<1>2. r # None /\ \A v \in ids : b[v] # None
  BY NoneAssumption DEF NoneAssumption, Continues
<1>3. Placed'
  BY <1>2 DEF WalksOK, Placed, Continues
<1>4. Nested'
  <2> SUFFICES ASSUME NEW v \in WalkIds, walk'[v] # None, walk'[v].parent # None
               PROVE  /\ walk'[v].parent # v
                      /\ walk'[v].role = "inside" /\ walk'[walk'[v].parent] # None
                      /\ walk'[walk'[v].parent].state = "inside"
                      /\ walk'[walk'[v].parent].exec = walk'[v].exec
    BY DEF Nested
  <2>1. CASE v \in ids
    BY <1>2, <2>1 DEF Continues
  <2>2. CASE v \notin ids
    <3> DEFINE p == walk[v].parent
    <3>1. /\ walk[v] # None /\ walk'[v].parent = p /\ p # None
          /\ walk'[v].exec = walk[v].exec /\ walk'[v].role = walk[v].role
      BY <2>2 DEF Continues
    <3>2. /\ p # v /\ walk[v].role = "inside" /\ p \in WalkIds /\ walk[p] # None
          /\ walk[p].state = "inside" /\ walk[p].exec = walk[v].exec
      BY <3>1 DEF WalksOK, Nested, Walk
    <3>3. p \notin ids
      BY <3>2 DEF Returned, In
    <3> QED
      BY <1>2, <3>1, <3>2, <3>3 DEF Continues
  <2> QED BY <2>1, <2>2
<1>5. SameRuns
  BY <1>2 DEF SameRuns, IsRun, WalksOK, Continues
<1> QED
  BY <1>1, <1>3, <1>4, <1>5 DEF WalksOK

-----------------------------------------------------------------------------
(* The inductive invariant *)

\* An execution that is paused can be resumed or cancelled.
PausedIsActive == \A e \in Executions : exec[e].status = "paused" => exec[e].active

\* An armed timer belongs to a run of execute that is under way.
TimerHasRun ==
  \A e \in Executions : exec[e].timer => \E w \in WalksOf(e) : walk[w].role = "execute"

\* An execution that could not be resumed has failed.
LostIsFailed == \A e \in Executions : exec[e].error = "lost" => exec[e].status = "failed"

KnownOK == PausedIsActive /\ TimerHasRun /\ LostIsFailed /\ IdleIsSettled

IInv == TypeOK /\ KnownOK

\* The types of everything but the walks.
RestOK == graph \in Workflows /\ cached \in BOOLEAN /\ exec \in [Executions -> Execution]

\* The type invariant in the parts that the lemmas keep one by one.
LEMMA TypeOKParts == TypeOK <=> WalksOK /\ RestOK
BY DEF TypeOK, Typed, WalksOK, RestOK

\* The parts together are the invariant.
LEMMA Together == ASSUME WalksOK', RestOK', KnownOK' PROVE IInv'
BY DEF IInv, TypeOK, Typed, WalksOK, RestOK

\* What is known of the executions stays true when no run begins or ends.
LEMMA NothingNew ==
  ASSUME IInv, SameRuns, SameStatus
  PROVE  KnownOK'
<1>1. \A e \in Executions : Runs(e)' = Runs(e)
  BY DEF SameRuns, IsRun, Runs, WalksOf
<1>2. TimerHasRun'
  BY DEF IInv, KnownOK, TimerHasRun, SameRuns, SameStatus, IsRun, WalksOf
<1> QED
  BY <1>1, <1>2 DEF IInv, KnownOK, PausedIsActive, LostIsFailed, IdleIsSettled, SameStatus

\* The node of a walk gets a state.
LEMMA NodeChanges ==
  ASSUME RestOK, NEW e \in Executions, NEW n \in Nodes, NEW s \in NodeStatuses,
         NEW m \in BOOLEAN,
         exec' = [exec EXCEPT ![e].nodes[n] = s, ![e].mixed = m]
  PROVE  exec' \in [Executions -> Execution] /\ SameStatus
BY DEF RestOK, Execution, SameStatus

\* An attempt at the node of a walk ends.
LEMMA AttemptFailsOK ==
  ASSUME TypeOK, NEW w \in WalkIds, walk[w] # None,
         walk[w].state \in {"start", "busy", "inside"}, AttemptFails(w)
  PROVE  /\ WalksOK' /\ exec' \in [Executions -> Execution] /\ SameRuns /\ SameStatus
<1> DEFINE again == walk[w].at \in graph.again /\ walk[w].tries < Retries
           r == [walk[w] EXCEPT !.state = IF again THEN "delay" ELSE "broken",
                                !.tries = IF again THEN @ + 1 ELSE @]
           e == walk[w].exec
<1>1. WalksOK /\ RestOK /\ walk[w] \in Walk /\ walk[w].at \in walk[w].body
  BY TypeOKParts DEF WalksOK, Placed
<1>2. walk[w].at \in Nodes /\ e \in Executions
  BY <1>1 DEF Walk
<1>3. Continues(r, w)
  <2>1. again => walk[w].tries + 1 \in 0..Retries
    BY <1>1, EngineAssumption DEF EngineAssumption, Walk
  <2> QED
    BY <1>1, <2>1 DEF Continues, Walk
<1>4. walk' = [LeftBehind(w) EXCEPT ![w] = r]
  <2>1. LeftBehind(w)[w] = walk[w]
    BY <1>1, NoneAssumption DEF LeftBehind, Inside, WalksOK, Nested, NoneAssumption
  <2>2. r \in Walk
    BY <1>3 DEF Continues
  <2>3. /\ DOMAIN walk' = WalkIds
        /\ walk'[w] = r
        /\ \A v \in WalkIds : v # w => walk'[v] = LeftBehind(w)[v]
    BY <1>1, <2>1, <2>2 DEF AttemptFails, LeftBehind, Walk
  <2> QED
    BY <2>2, <2>3 DEF AttemptFails, LeftBehind
<1>5. WalksOK' /\ SameRuns
  BY <1>1, <1>3, <1>4, WalkLeaves
<1>6. exec' \in [Executions -> Execution] /\ SameStatus
  BY <1>1, <1>2 DEF AttemptFails, RestOK, Execution, SameStatus, NodeStatuses
<1> QED
  BY <1>5, <1>6

\* An attempt at the node of a walk succeeds.
LEMMA AttemptSucceedsOK ==
  ASSUME TypeOK, NEW w \in WalkIds, walk[w] # None,
         walk[w].state \in {"start", "busy", "inside"}, AttemptSucceeds(w)
  PROVE  /\ WalksOK' /\ exec' \in [Executions -> Execution] /\ SameRuns /\ SameStatus
<1> DEFINE e == walk[w].exec
<1>1. WalksOK /\ RestOK /\ walk[w] \in Walk /\ walk[w].at \in walk[w].body
  BY TypeOKParts DEF WalksOK, Placed
<1>2. walk[w].at \in Nodes /\ e \in Executions
  BY <1>1 DEF Walk
<1>3. Continues([walk[w] EXCEPT !.state = IF Stopped(e) THEN "over" ELSE "ended"], w)
  BY <1>1 DEF Continues, Walk
<1>4. walk' = [LeftBehind(w) EXCEPT ![w] =
                 [walk[w] EXCEPT !.state = IF Stopped(e) THEN "over" ELSE "ended"]]
  <2>1. LeftBehind(w)[w] = walk[w]
    BY <1>1, NoneAssumption DEF LeftBehind, Inside, WalksOK, Nested, NoneAssumption
  <2> QED
    BY <2>1 DEF AttemptSucceeds, LeftBehind
<1>5. WalksOK' /\ SameRuns
  BY <1>1, <1>3, <1>4, WalkLeaves
<1>6. exec' \in [Executions -> Execution] /\ SameStatus
  BY <1>1, <1>2 DEF AttemptSucceeds, RestOK, Execution, SameStatus, NodeStatuses
<1> QED
  BY <1>5, <1>6

-----------------------------------------------------------------------------
(* Each action preserves the invariant *)

\* A step that only moves walks, or the nodes of an execution.
LEMMA Moves ==
  ASSUME IInv, WalksOK', RestOK', SameRuns, SameStatus
  PROVE  IInv'
BY NothingNew, Together

\* A walk takes its next node (loop of runWorkflow).
LEMMA TakeOK == ASSUME IInv, NEW w \in WalkIds, Take(w) PROVE IInv' /\ SameStatus
<1> DEFINE e == walk[w].exec
<1>1. /\ WalksOK /\ RestOK /\ walk[w] # None /\ walk[w] \in Walk /\ walk[w].state = "next"
      /\ UNCHANGED <<graph, cached>>
  BY TypeOKParts DEF WalksOK, IInv, Take, In
<1>2. e \in Executions
  BY <1>1 DEF Walk
<1>3. CASE walk' = [walk EXCEPT ![w].state = "over"] /\ UNCHANGED exec
  <2>1. Continues([walk[w] EXCEPT !.state = "over"], w)
    BY <1>1 DEF Continues, Walk
  <2>2. WalksOK' /\ SameRuns
    BY <1>1, <1>3, <2>1, WalkGoesOn
  <2> QED
    BY <1>1, <1>3, <2>2, Moves DEF RestOK, SameStatus, Take
<1>4. ASSUME NEW n \in Ready(w),
             walk' = [walk EXCEPT ![w].queue = @ \ {n}, ![w].at = n,
                                  ![w].state = "start", ![w].tries = 0],
             exec' = [exec EXCEPT ![e].nodes[n] = "running"]
      PROVE  IInv' /\ SameStatus
  <2> DEFINE r == [walk[w] EXCEPT !.queue = @ \ {n}, !.at = n, !.state = "start", !.tries = 0]
  <2>1. n \in walk[w].body /\ n \in Nodes
    BY <1>1, <1>4 DEF Ready, Walk
  <2>2. Continues(r, w)
    BY <1>1, <2>1, ZeroInBounds DEF Continues, Walk
  <2>3. walk' = [walk EXCEPT ![w] = r]
    <3>1. r \in Walk /\ walk'[w] = r /\ DOMAIN walk' = WalkIds
          /\ \A v \in WalkIds : v # w => walk'[v] = walk[v]
      BY <1>1, <1>4, <2>2 DEF WalksOK, Continues, Walk
    <3> QED
      BY <1>1, <1>4, <3>1 DEF WalksOK
  <2>4. WalksOK' /\ SameRuns
    BY <1>1, <2>2, <2>3, WalkGoesOn
  <2>5. RestOK' /\ SameStatus
    BY <1>1, <1>2, <1>4, <2>1 DEF RestOK, Execution, SameStatus, NodeStatuses
  <2> QED
    BY <2>4, <2>5, Moves
<1> QED
  BY <1>3, <1>4 DEF Take

\* An executor begins: a node works, branches start, a loop gets ready, or it refuses.
LEMMA BeginOK == ASSUME IInv, NEW w \in WalkIds, Begin(w) PROVE IInv' /\ SameStatus
<1> DEFINE n == walk[w].at
           kind == graph.kind[n]
<1>1. /\ WalksOK /\ RestOK /\ walk[w] # None /\ walk[w] \in Walk /\ walk[w].state = "start"
      /\ n \in walk[w].body /\ UNCHANGED <<graph, cached>>
  BY TypeOKParts DEF WalksOK, Placed, IInv, Begin, In
<1>2. CASE walk' = [walk EXCEPT ![w].state = "busy"] /\ UNCHANGED exec
  <2>1. Continues([walk[w] EXCEPT !.state = "busy"], w)
    BY <1>1 DEF Continues, Walk
  <2>2. WalksOK' /\ SameRuns
    BY <1>1, <1>2, <2>1, WalkGoesOn
  <2> QED
    BY <1>1, <1>2, <2>2, Moves DEF RestOK, SameStatus
<1>3. CASE AttemptFails(w)
  BY <1>1, <1>3, AttemptFailsOK, Moves DEF RestOK, IInv
<1> DEFINE free == {v \in WalkIds : walk[v] = None}
           branch(n1) == NewWalk(walk[w].exec, "inside", w, Body(graph, n), {n1}, {n}, "next")
<1>4. ASSUME NEW ids \in SUBSET free, NEW entry \in [ids -> Entries(graph, n)],
             walk' = [v \in WalkIds |->
                        IF v \in ids THEN branch(entry[v])
                        ELSE IF v = w THEN [walk[w] EXCEPT !.state = "inside", !.turn = 0]
                        ELSE walk[v]],
             UNCHANGED exec
      PROVE  IInv' /\ SameStatus
  <2> DEFINE r == [walk[w] EXCEPT !.state = "inside", !.turn = 0]
             b == [v \in ids |-> branch(entry[v])]
  <2>1. Continues(r, w) /\ r.state = "inside"
    BY <1>1, ZeroInBounds DEF Continues, Walk
  <2>2. /\ walk[w].exec \in Executions /\ n \in Nodes /\ Body(graph, n) \in SUBSET Nodes
        /\ Entries(graph, n) \in SUBSET Nodes
    BY <1>1, GraphNodes DEF RestOK, Walk
  <2>3. \A n1 \in Entries(graph, n) :
          /\ branch(n1) \in Walk /\ branch(n1).exec = walk[w].exec
          /\ branch(n1).role = "inside" /\ branch(n1).parent = w /\ branch(n1).state = "next"
    BY <2>2, ZeroInBounds DEF NewWalk, Walk
  <2> HIDE DEF r, branch
  <2>4. /\ b \in [ids -> Walk]
        /\ \A v \in ids : /\ b[v].exec = walk[w].exec /\ b[v].role = "inside"
                          /\ b[v].parent = w /\ b[v].state = "next"
    BY <2>3
  <2>5. walk' = [v \in WalkIds |-> IF v \in ids THEN b[v] ELSE IF v = w THEN r ELSE walk[v]]
    BY <1>4 DEF r
  <2>6. ids \in SUBSET WalkIds /\ w \notin ids /\ \A v \in ids : walk[v] = None
    BY <1>1
  <2> HIDE DEF b
  <2>7. WalksOK' /\ SameRuns
    BY <1>1, <2>1, <2>4, <2>5, <2>6, WalksBeginInside
  <2> QED
    BY <1>1, <1>4, <2>7, Moves DEF RestOK, SameStatus
<1> QED
  BY <1>2, <1>3, <1>4 DEF Begin

\* The branches inside a parallel node have returned, or one was rejected (Promise.all).
LEMMA JoinOK == ASSUME IInv, NEW w \in WalkIds, Join(w) PROVE IInv' /\ SameStatus
<1>1. /\ TypeOK /\ RestOK /\ walk[w] # None /\ walk[w].state = "inside"
      /\ UNCHANGED <<graph, cached>> /\ (AttemptSucceeds(w) \/ AttemptFails(w))
  BY TypeOKParts DEF IInv, Join, In
<1> QED
  BY <1>1, AttemptSucceedsOK, AttemptFailsOK, Moves DEF RestOK

\* The executor of a node that has no body ends.
LEMMA NodeEndsOK ==
  ASSUME IInv, NEW w \in WalkIds, NEW ok \in BOOLEAN, NodeEnds(w, ok)
  PROVE  IInv' /\ SameStatus
<1>1. /\ TypeOK /\ RestOK /\ walk[w] # None /\ walk[w].state = "busy"
      /\ UNCHANGED <<graph, cached>> /\ (AttemptSucceeds(w) \/ AttemptFails(w))
  BY TypeOKParts DEF IInv, NodeEnds, In
<1> QED
  BY <1>1, AttemptSucceedsOK, AttemptFailsOK, Moves DEF RestOK

\* An iteration of a loop has returned.
LEMMA IterateOK ==
  ASSUME IInv, NEW w \in WalkIds, NEW goes \in BOOLEAN, Iterate(w, goes)
  PROVE  IInv' /\ SameStatus
<1> DEFINE n == walk[w].at
           ids == IF Inside(w) = {} THEN FirstFree ELSE Inside(w)
           again(child) == NewWalk(walk[w].exec, "inside", w, Body(graph, n),
                                   Entries(graph, n), {n}, "next")
<1>1. /\ TypeOK /\ WalksOK /\ RestOK /\ walk[w] # None /\ walk[w] \in Walk
      /\ walk[w].state = "inside" /\ n \in walk[w].body /\ UNCHANGED <<graph, cached>>
      /\ \A v \in Inside(w) : Returned(v)
  BY TypeOKParts DEF WalksOK, Placed, IInv, Iterate, In
<1>2. CASE AttemptFails(w) \/ AttemptSucceeds(w)
  BY <1>1, <1>2, AttemptSucceedsOK, AttemptFailsOK, Moves DEF RestOK
<1>3. ASSUME walk[w].turn # Turns, NEW child \in ids,
             walk' = [walk EXCEPT ![w].turn = @ + 1, ![child] = again(child)],
             UNCHANGED exec
      PROVE  IInv' /\ SameStatus
  <2> DEFINE r == [walk[w] EXCEPT !.turn = @ + 1]
             b == [v \in {child} |-> again(child)]
  <2>1. r.turn \in 0..Turns
    BY <1>1, <1>3, EngineAssumption DEF EngineAssumption, Walk
  <2>2. Continues(r, w) /\ r.state = "inside"
    BY <1>1, <2>1 DEF Continues, Walk
  <2>3. /\ child \in WalkIds /\ child # w
        /\ walk[child] = None \/ (Returned(child) /\ walk[child].role = "inside")
    <3>1. w # None
      BY NoneAssumption DEF NoneAssumption
    <3>2. CASE child \in Inside(w)
      BY <1>1, <3>1, <3>2 DEF Inside, WalksOK, Nested
    <3>3. CASE child \in FirstFree
      BY <1>1, <3>3 DEF FirstFree
    <3> QED
      BY <3>2, <3>3
  <2>4. /\ walk[w].exec \in Executions /\ n \in Nodes /\ Body(graph, n) \in SUBSET Nodes
        /\ Entries(graph, n) \in SUBSET Nodes
    BY <1>1, GraphNodes DEF RestOK, Walk
  <2>5. /\ again(child) \in Walk /\ again(child).exec = walk[w].exec
        /\ again(child).role = "inside" /\ again(child).parent = w
        /\ again(child).state = "next"
    BY <2>4, ZeroInBounds DEF NewWalk, Walk
  <2>6. walk' = [v \in WalkIds |-> IF v \in {child} THEN b[v] ELSE IF v = w THEN r ELSE walk[v]]
    <3>1. DOMAIN walk' = WalkIds /\ walk'[child] = again(child) /\ walk'[w] = r
          /\ \A v \in WalkIds : v # w /\ v # child => walk'[v] = walk[v]
      BY <1>1, <1>3, <2>3 DEF WalksOK, Walk
    <3> HIDE DEF r, again
    <3> QED
      BY <1>3, <2>3, <3>1
  <2> HIDE DEF r, again
  <2>7. /\ b \in [{child} -> Walk]
        /\ \A v \in {child} : /\ b[v].exec = walk[w].exec /\ b[v].role = "inside"
                              /\ b[v].parent = w /\ b[v].state = "next"
    BY <2>5
  <2> HIDE DEF b
  <2>8. {child} \in SUBSET WalkIds /\ w \notin {child}
        /\ \A v \in {child} : walk[v] = None \/ (Returned(v) /\ walk[v].role = "inside")
    BY <2>3
  <2>9. WalksOK' /\ SameRuns
    BY <1>1, <2>2, <2>6, <2>7, <2>8, WalksBeginInside
  <2> QED
    BY <1>1, <1>3, <2>9, Moves DEF RestOK, SameStatus
<1> QED
  BY <1>2, <1>3 DEF Iterate

\* Where a walk goes on from a node that has ended.
LEMMA OnwardNext ==
  ASSUME NEW w \in WalkIds, walk \in [WalkIds -> Walk \cup {None}], NEW result \in BOOLEAN,
         Onward(w, result), ~Stopped(walk[w].exec)
  PROVE  walk'[w].state = "next"
<1> DEFINE e == walk[w].exec
           n == walk[w].at
           whole == walk[w].role # "inside"
           done == walk[w].done \cup {n} \cup (IF whole THEN Body(graph, n) ELSE {})
           seen == {m \in Nodes : exec[e].nodes[m] # "none"}
           hit == IF whole /\ graph.kind[n] = "condition"
                  THEN SkippedBy(graph, n, result, seen, walk[w].skipped, done) ELSE {}
           skipped == walk[w].skipped \cup hit
           next == IF whole
                   THEN {m \in graph.nodes : DependenciesSatisfied(graph, m, done \cup skipped)}
                          \ (done \cup skipped)
                   ELSE {m \in ActiveTargetsWithin(graph, n, result) \cap walk[w].body :
                           DependenciesSatisfiedWithin(graph, m, done, walk[w].body)} \ done
           queue == (IF whole THEN {} ELSE walk[w].queue) \cup next
<1>1. walk' = [walk EXCEPT ![w].done = done, ![w].skipped = skipped,
                           ![w].queue = queue, ![w].state = "next", ![w].at = None]
  BY DEF Onward
<1> HIDE DEF done, skipped, queue
<1>2. walk[w] \in Walk
  BY DEF Onward, In
<1> QED
  BY <1>1, <1>2 DEF Walk

\* A walk goes on from a node that has ended.
LEMMA OnwardOK ==
  ASSUME IInv, NEW w \in WalkIds, NEW result \in BOOLEAN, Onward(w, result)
  PROVE  IInv' /\ SameStatus
<1> DEFINE e == walk[w].exec
           n == walk[w].at
<1>1. /\ WalksOK /\ RestOK /\ walk[w] # None /\ walk[w] \in Walk /\ walk[w].state = "ended"
      /\ n \in walk[w].body /\ UNCHANGED <<graph, cached>>
  BY TypeOKParts DEF WalksOK, Placed, IInv, Onward, In
<1>2. e \in Executions /\ n \in Nodes
  BY <1>1 DEF Walk
<1>3. CASE walk' = [walk EXCEPT ![w].state = "over"] /\ UNCHANGED exec
  <2>1. Continues([walk[w] EXCEPT !.state = "over"], w)
    BY <1>1 DEF Continues, Walk
  <2>2. WalksOK' /\ SameRuns
    BY <1>1, <1>3, <2>1, WalkGoesOn
  <2> QED
    BY <1>1, <1>3, <2>2, Moves DEF RestOK, SameStatus
<1>4. ASSUME NEW done \in SUBSET Nodes, NEW skipped \in SUBSET Nodes,
             NEW queue \in SUBSET Nodes, NEW hit,
             walk' = [walk EXCEPT ![w].done = done, ![w].skipped = skipped,
                                  ![w].queue = queue, ![w].state = "next", ![w].at = None],
             exec' = [exec EXCEPT ![e].nodes =
                        [m \in Nodes |-> IF m \in hit THEN "skipped" ELSE @[m]]]
      PROVE  IInv' /\ SameStatus
  <2> DEFINE r == [walk[w] EXCEPT !.done = done, !.skipped = skipped, !.queue = queue,
                                  !.state = "next", !.at = None]
  <2>1. Continues(r, w)
    BY <1>1 DEF Continues, Walk
  <2>2. walk' = [walk EXCEPT ![w] = r]
    <3>1. r \in Walk /\ walk'[w] = r /\ DOMAIN walk' = WalkIds
          /\ \A v \in WalkIds : v # w => walk'[v] = walk[v]
      BY <1>1, <1>4, <2>1 DEF WalksOK, Continues, Walk
    <3> QED
      BY <1>1, <1>4, <3>1 DEF WalksOK
  <2>3. WalksOK' /\ SameRuns
    BY <1>1, <2>1, <2>2, WalkGoesOn
  <2>4. [m \in Nodes |-> IF m \in hit THEN "skipped" ELSE exec[e].nodes[m]]
          \in [Nodes -> NodeStatuses]
    BY <1>1, <1>2 DEF RestOK, Execution, NodeStatuses
  <2>5. RestOK' /\ SameStatus
    BY <1>1, <1>2, <1>4, <2>4 DEF RestOK, Execution, SameStatus
  <2> QED
    BY <2>3, <2>5, Moves
<1>5. /\ graph.nodes \subseteq Nodes /\ Body(graph, n) \subseteq Nodes
      /\ ActiveTargetsWithin(graph, n, result) \cap walk[w].body \subseteq Nodes
  BY <1>1, GraphNodes DEF RestOK, Walk
<1>6. \A seen, skipped, completed :
        SkippedBy(graph, n, result, seen, skipped, completed) \subseteq Nodes
  BY <1>5, SkippedNodes
<1> DEFINE whole == walk[w].role # "inside"
           done == walk[w].done \cup {n} \cup (IF whole THEN Body(graph, n) ELSE {})
           seen == {m \in Nodes : exec[e].nodes[m] # "none"}
           hit == IF whole /\ graph.kind[n] = "condition"
                  THEN SkippedBy(graph, n, result, seen, walk[w].skipped, done) ELSE {}
           skipped == walk[w].skipped \cup hit
           next == IF whole
                   THEN {m \in graph.nodes : DependenciesSatisfied(graph, m, done \cup skipped)}
                          \ (done \cup skipped)
                   ELSE {m \in ActiveTargetsWithin(graph, n, result) \cap walk[w].body :
                           DependenciesSatisfiedWithin(graph, m, done, walk[w].body)} \ done
           queue == (IF whole THEN {} ELSE walk[w].queue) \cup next
<1>7. done \in SUBSET Nodes /\ skipped \in SUBSET Nodes /\ queue \in SUBSET Nodes
  BY <1>1, <1>2, <1>5, <1>6 DEF Walk
<1>8. CASE ~Stopped(e)
  <2>1. /\ walk' = [walk EXCEPT ![w].done = done, ![w].skipped = skipped,
                                ![w].queue = queue, ![w].state = "next", ![w].at = None]
        /\ exec' = [exec EXCEPT ![e].nodes =
                      [m \in Nodes |-> IF m \in hit THEN "skipped" ELSE @[m]]]
    BY <1>8 DEF Onward
  <2> HIDE DEF done, skipped, queue, hit
  <2> QED
    BY <1>4, <1>7, <2>1
<1> QED
  BY <1>3, <1>8 DEF Onward

\* A branch that nobody waits for is given up.
LEMMA VanishOK == ASSUME IInv, NEW w \in WalkIds, Vanish(w) PROVE IInv' /\ SameStatus
<1>1. WalksOK /\ RestOK /\ Returned(w) /\ walk[w].role = "inside"
      /\ walk' = [walk EXCEPT ![w] = None] /\ UNCHANGED <<graph, exec, cached>>
  BY TypeOKParts DEF IInv, Vanish
<1>2. WalksOK'
  BY <1>1, WalkIsFreed
<1>3. SameRuns
  BY <1>1 DEF SameRuns, IsRun, WalksOK
<1> QED
  BY <1>1, <1>2, <1>3, Moves DEF RestOK, SameStatus

\* The delay before a retry is over.
LEMMA RetryDueOK == ASSUME IInv, NEW w \in WalkIds, RetryDue(w) PROVE IInv' /\ SameStatus
<1> DEFINE s == IF Stopped(walk[w].exec) THEN "over" ELSE "start"
<1>1. /\ WalksOK /\ RestOK /\ walk[w] # None /\ walk[w] \in Walk /\ walk[w].state = "delay"
      /\ walk[w].at \in walk[w].body
      /\ walk' = [walk EXCEPT ![w].state = s] /\ UNCHANGED <<graph, exec, cached>>
  BY TypeOKParts DEF IInv, WalksOK, Placed, RetryDue, In
<1>2. Continues([walk[w] EXCEPT !.state = s], w)
  BY <1>1 DEF Continues, Walk
<1>3. walk' = [walk EXCEPT ![w] = [walk[w] EXCEPT !.state = s]]
  BY <1>1
<1>4. WalksOK' /\ SameRuns
  BY <1>1, <1>2, <1>3, WalkGoesOn
<1> QED
  BY <1>1, <1>4, Moves DEF RestOK, SameStatus

-----------------------------------------------------------------------------
(* Runs begin and end, and the user acts *)

\* A run of runWorkflow returns to execute or resume.
LEMMA RunEndsOK == ASSUME IInv, NEW w \in WalkIds, RunEnds(w) PROVE IInv'
<1> DEFINE e == walk[w].exec
           status == EndStatus(w)
<1>1. /\ WalksOK /\ RestOK /\ KnownOK /\ Returned(w) /\ walk[w] # None /\ walk[w] \in Walk
      /\ walk[w].role # "inside" /\ walk' = [walk EXCEPT ![w] = None]
      /\ cached' = (cached /\ status = "paused") /\ UNCHANGED graph
  BY TypeOKParts DEF IInv, RunEnds, Returned, In, WalksOK
<1>2. e \in Executions
  BY <1>1 DEF Walk
<1>3. /\ status \in Statuses /\ status # "running"
      /\ status = "paused" => exec[e].status = "paused"
      /\ exec[e].status = "failed" => status = "failed"
  BY <1>1, <1>2 DEF EndStatus, Broke, RestOK, Execution, Statuses, Returned, In
<1> DEFINE x == [exec[e] EXCEPT !.status = status, !.row = status,
                    !.error = IF Broke(w) THEN "other" ELSE exec[e].error,
                    !.timer = exec[e].timer /\ walk[w].role # "execute",
                    !.active = exec[e].active /\ status = "paused"]
<1>10. exec' = [exec EXCEPT ![e] = x]
  BY DEF RunEnds
<1>11. exec[e] \in Execution
  BY <1>1, <1>2 DEF RestOK
<1>12. /\ x \in Execution /\ x.status = status /\ x.row = status
       /\ x.error = IF Broke(w) THEN "other" ELSE exec[e].error
       /\ x.timer = (exec[e].timer /\ walk[w].role # "execute")
       /\ x.active = (exec[e].active /\ status = "paused")
  BY <1>3, <1>11 DEF Execution
<1> HIDE DEF x
<1>4. /\ exec' \in [Executions -> Execution]
      /\ exec'[e].status = status /\ exec'[e].row = status
      /\ exec'[e].error = IF Broke(w) THEN "other" ELSE exec[e].error
      /\ exec'[e].timer = (exec[e].timer /\ walk[w].role # "execute")
      /\ exec'[e].active = (exec[e].active /\ status = "paused")
      /\ \A d \in Executions : d # e => exec'[d] = exec[d]
  BY <1>1, <1>2, <1>10, <1>12 DEF RestOK
<1>5. WalksOK' /\ RestOK'
  BY <1>1, <1>4, WalkIsFreed DEF RestOK
<1>6. PausedIsActive' /\ LostIsFailed'
  BY <1>1, <1>2, <1>3, <1>4 DEF KnownOK, PausedIsActive, LostIsFailed
<1>7. \A d \in Executions : d # e => Runs(d)' = Runs(d)
  BY <1>1 DEF Runs, WalksOf, WalksOK
<1>8. IdleIsSettled'
  BY <1>1, <1>2, <1>3, <1>4, <1>6, <1>7 DEF KnownOK, PausedIsActive, IdleIsSettled
<1>9. TimerHasRun'
  <2> SUFFICES ASSUME NEW d \in Executions, exec'[d].timer
               PROVE  \E v \in WalksOf(d)' : walk'[v].role = "execute"
    BY DEF TimerHasRun
  <2>1. exec[d].timer /\ (d = e => walk[w].role # "execute")
    BY <1>4 DEF RestOK
  <2>2. PICK v \in WalksOf(d) : walk[v].role = "execute"
    BY <1>1, <2>1 DEF KnownOK, TimerHasRun
  <2>3. v # w
    BY <2>1, <2>2 DEF WalksOf
  <2> QED
    BY <1>1, <2>2, <2>3 DEF WalksOf, WalksOK
<1> QED
  BY <1>5, <1>6, <1>8, <1>9, Together DEF KnownOK

\* A run begins: the other walks go on.
LEMMA RunOK ==
  ASSUME WalksOK, graph \in Workflows, NEW e \in Executions, NEW role \in {"execute", "resume"},
         Run(e, role)
  PROVE  /\ WalksOK' /\ \A v \in WalkIds : walk[v] # None => walk'[v] = walk[v]
         /\ \E w \in WalkIds : /\ walk'[w] # None /\ walk'[w].exec = e
                               /\ walk'[w].role = role
<1> DEFINE r == NewWalk(e, role, None, graph.nodes, StartNodes(graph), {},
                        IF Valid(graph) THEN "next" ELSE "broken")
<1>1. PICK w \in FirstFree : walk' = [walk EXCEPT ![w] = r]
  BY DEF Run
<1>2. w \in WalkIds /\ walk[w] = None
  BY DEF FirstFree
<1>3. graph.nodes \subseteq Nodes /\ StartNodes(graph) \subseteq Nodes
  BY GraphNodes
<1>4. /\ r \in Walk /\ r.parent = None /\ r.state \in {"next", "broken"}
      /\ r.exec = e /\ r.role = role
  BY <1>3, ZeroInBounds DEF NewWalk, Walk
<1> HIDE DEF r
<1>5. WalksOK'
  BY <1>1, <1>2, <1>4, RunBegins
<1>6. walk'[w] = r /\ r # None
  BY <1>1, <1>2, <1>4, NoneAssumption DEF WalksOK, NoneAssumption
<1> QED
  BY <1>1, <1>2, <1>4, <1>5, <1>6 DEF WalksOK

\* After it, executions have the runs and walks they had, and maybe one more.
LEMMA WalksStay ==
  ASSUME \A v \in WalkIds : walk[v] # None => walk'[v] = walk[v]
  PROVE  \A d : /\ WalksOf(d) \subseteq WalksOf(d)' /\ Runs(d) \subseteq Runs(d)'
                /\ \A v \in WalksOf(d) : walk'[v] = walk[v]
BY DEF WalksOf, Runs

\* The context of an execution that does not exist is well typed.
LEMMA NoExecutionType == NoExecution \in Execution
BY DEF NoExecution, Execution, NodeStatuses, Statuses

\* The user starts an execution.
LEMMA ExecuteOK ==
  ASSUME IInv, NEW e \in Executions, NEW timed \in BOOLEAN, Execute(e, timed)
  PROVE  IInv'
<1> DEFINE x == [NoExecution EXCEPT !.status = "running", !.active = TRUE, !.timer = timed]
<1>1. /\ WalksOK /\ RestOK /\ KnownOK /\ Run(e, "execute") /\ UNCHANGED graph /\ cached' = TRUE
      /\ exec' = [exec EXCEPT ![e] = x]
  BY TypeOKParts DEF IInv, Execute
<1>2. /\ x \in Execution /\ x.status = "running" /\ x.error = "none" /\ x.active
  BY NoExecutionType DEF NoExecution, Execution, Statuses
<1> HIDE DEF x
<1>3. /\ exec' \in [Executions -> Execution] /\ exec'[e] = x
      /\ \A d \in Executions : d # e => exec'[d] = exec[d]
  BY <1>1, <1>2 DEF RestOK
<1>4. PICK w \in WalkIds : walk'[w] # None /\ walk'[w].exec = e /\ walk'[w].role = "execute"
  BY <1>1, RunOK DEF RestOK
<1>5. WalksOK' /\ \A v \in WalkIds : walk[v] # None => walk'[v] = walk[v]
  BY <1>1, RunOK DEF RestOK
<1>6. PausedIsActive' /\ LostIsFailed'
  BY <1>1, <1>2, <1>3 DEF KnownOK, PausedIsActive, LostIsFailed
<1>7. TimerHasRun'
  BY <1>1, <1>3, <1>4, <1>5, WalksStay DEF KnownOK, TimerHasRun, WalksOf
<1>8. w \in Runs(e)'
  BY <1>4 DEF Runs, WalksOf
<1>9. IdleIsSettled'
  BY <1>1, <1>3, <1>5, <1>8, WalksStay DEF KnownOK, IdleIsSettled
<1> QED
  BY <1>1, <1>3, <1>5, <1>6, <1>7, <1>9, Together DEF KnownOK, RestOK

\* The user resumes an execution.
LEMMA ResumeOK == ASSUME IInv, NEW e \in Executions, Resume(e) PROVE IInv'
<1>1. /\ WalksOK /\ RestOK /\ KnownOK /\ exec[e].active /\ exec[e].status = "paused"
      /\ UNCHANGED <<graph, cached>>
  BY TypeOKParts DEF IInv, Resume
<1>2. CASE ~cached
  <2>1. /\ exec' = [exec EXCEPT ![e].status = "failed", ![e].error = "lost", ![e].active = FALSE]
        /\ walk' = walk
    BY <1>2 DEF Resume
  <2>2. /\ exec' \in [Executions -> Execution] /\ exec'[e].error = "lost"
        /\ exec'[e].status = "failed" /\ exec'[e].timer = exec[e].timer
        /\ \A d \in Executions : d # e => exec'[d] = exec[d]
    BY <1>1, <2>1 DEF RestOK, Execution, Statuses
  <2>3. WalksOK' /\ \A d \in Executions : Runs(d)' = Runs(d) /\ WalksOf(d)' = WalksOf(d)
    BY <1>1, <2>1 DEF WalksOK, Placed, Nested, Runs, WalksOf
  <2>4. KnownOK'
    BY <1>1, <2>1, <2>2, <2>3
    DEF KnownOK, PausedIsActive, LostIsFailed, TimerHasRun, IdleIsSettled
  <2> QED
    BY <1>1, <2>2, <2>3, <2>4, Together DEF RestOK
<1>3. CASE cached
  <2>1. /\ exec' = [exec EXCEPT ![e].status = "running", ![e].mixed = @ \/ WalksOf(e) # {}]
        /\ Run(e, "resume")
    BY <1>3 DEF Resume
  <2> DEFINE m == exec[e].mixed \/ WalksOf(e) # {}
             x == [exec[e] EXCEPT !.status = "running", !.mixed = m]
  <2>9. exec[e] \in Execution /\ m \in BOOLEAN
    BY <1>1 DEF RestOK
  <2>10. exec' = [exec EXCEPT ![e] = x]
    <3> DEFINE y == [exec EXCEPT ![e].status = "running", ![e].mixed = m]
    <3>1. exec' = y
      BY <2>1
    <3> HIDE DEF m
    <3>2. y = [exec EXCEPT ![e] = x]
      <4>1. y[e] = x /\ \A d \in Executions : d # e => y[d] = exec[d]
        BY <1>1, <2>9 DEF RestOK, Execution
      <4> QED
        BY <1>1, <4>1 DEF RestOK
    <3> QED
      BY <3>1, <3>2
  <2> HIDE DEF m
  <2>2. /\ exec' \in [Executions -> Execution] /\ exec'[e].error = exec[e].error
        /\ exec'[e].status = "running" /\ exec'[e].timer = exec[e].timer
        /\ \A d \in Executions : d # e => exec'[d] = exec[d]
    BY <1>1, <2>9, <2>10 DEF RestOK, Execution, Statuses
  <2>3. PICK w \in WalkIds : walk'[w] # None /\ walk'[w].exec = e /\ walk'[w].role = "resume"
    BY <1>1, <2>1, RunOK DEF RestOK
  <2>4. WalksOK' /\ \A v \in WalkIds : walk[v] # None => walk'[v] = walk[v]
    BY <1>1, <2>1, RunOK DEF RestOK
  <2>5. PausedIsActive' /\ LostIsFailed'
    BY <1>1, <2>2 DEF KnownOK, PausedIsActive, LostIsFailed
  <2>6. TimerHasRun'
    BY <1>1, <2>2, <2>4, WalksStay DEF KnownOK, TimerHasRun
  <2>7. w \in Runs(e)'
    BY <2>3 DEF Runs, WalksOf
  <2>8. IdleIsSettled'
    BY <1>1, <2>2, <2>4, <2>7, WalksStay DEF KnownOK, IdleIsSettled
  <2> QED
    BY <1>1, <2>2, <2>4, <2>5, <2>6, <2>8, Together DEF KnownOK, RestOK
<1> QED
  BY <1>2, <1>3

\* The calls of the user and the timer that move no walk.
LEMMA NoWalkMoves ==
  ASSUME IInv, UNCHANGED <<graph, walk, cached>>, exec' \in [Executions -> Execution], KnownOK'
  PROVE  IInv'
<1>1. WalksOK' /\ RestOK'
  BY TypeOKParts DEF IInv, WalksOK, Placed, Nested, RestOK
<1> QED
  BY <1>1, Together

\* Pause, cancel, the timer, and an execution that is forgotten.
LEMMA UserOK ==
  ASSUME IInv, NEW e \in Executions, TimesOut(e) \/ Cancel(e) \/ Pause(e) \/ Forget(e)
  PROVE  IInv'
<1>1. /\ WalksOK /\ RestOK /\ KnownOK /\ UNCHANGED <<graph, walk, cached>>
  BY TypeOKParts DEF IInv, TimesOut, Cancel, Pause, Forget
<1>2. /\ exec' \in [Executions -> Execution]
      /\ \A d \in Executions : d # e => exec'[d] = exec[d]
  <2>1. CASE TimesOut(e)
    <3>1. exec[e] \in Execution
      BY <1>1 DEF RestOK
    <3>2. /\ [exec[e] EXCEPT !.status = "failed", !.error = "timeout", !.timer = FALSE]
               \in Execution
          /\ [exec[e] EXCEPT !.timer = FALSE] \in Execution
      BY <3>1 DEF Execution, Statuses
    <3> QED
      BY <1>1, <2>1, <3>2 DEF RestOK, TimesOut
  <2>2. CASE Cancel(e)
    BY <1>1, <2>2 DEF RestOK, Execution, Statuses, Cancel
  <2>3. CASE Pause(e)
    BY <1>1, <2>3 DEF RestOK, Execution, Statuses, Pause
  <2>4. CASE Forget(e)
    BY <1>1, <2>4, NoExecutionType DEF RestOK, Forget
  <2> QED
    BY <2>1, <2>2, <2>3, <2>4
<1>3. \A d \in Executions : Runs(d)' = Runs(d) /\ WalksOf(d)' = WalksOf(d)
  BY <1>1 DEF Runs, WalksOf
<1>4. TimerHasRun => Runs(e) # {} \/ ~exec[e].timer
  BY DEF TimerHasRun, Runs, WalksOf
<1>5. CASE TimesOut(e)
  <2>1. /\ exec[e].timer /\ ~exec'[e].timer
        /\ exec'[e].active = exec[e].active
        /\ exec'[e].status \in {"failed", exec[e].status}
        /\ exec'[e].error \in {"timeout", exec[e].error}
        /\ exec[e].status = "failed" => exec'[e].status = "failed"
        /\ exec'[e].error = "lost" => exec[e].error = "lost"
    BY <1>1, <1>5 DEF TimesOut, RestOK, Execution
  <2> QED
    BY <1>1, <1>2, <1>3, <1>4, <2>1, NoWalkMoves
    DEF KnownOK, PausedIsActive, LostIsFailed, TimerHasRun, IdleIsSettled
<1>6. CASE Cancel(e)
  <2>1. /\ exec'[e].status = "failed" /\ exec'[e].row = "failed" /\ ~exec'[e].active
        /\ exec'[e].timer = exec[e].timer
    BY <1>1, <1>6 DEF Cancel, RestOK, Execution
  <2> QED
    BY <1>1, <1>2, <1>3, <2>1, NoWalkMoves
    DEF KnownOK, PausedIsActive, LostIsFailed, TimerHasRun, IdleIsSettled
<1>7. CASE Pause(e)
  <2>1. /\ exec[e].status = "running" /\ exec[e].active /\ exec'[e].active
        /\ exec'[e].status = "paused" /\ exec'[e].error = exec[e].error
        /\ exec'[e].timer = exec[e].timer
    BY <1>1, <1>7 DEF Pause, RestOK, Execution
  <2> QED
    BY <1>1, <1>2, <1>3, <2>1, NoWalkMoves
    DEF KnownOK, PausedIsActive, LostIsFailed, TimerHasRun, IdleIsSettled
<1>8. CASE Forget(e)
  <2>1. exec'[e].status = "none" /\ exec'[e].error = "none" /\ ~exec'[e].timer
    BY <1>1, <1>8 DEF Forget, RestOK, NoExecution
  <2> QED
    BY <1>1, <1>2, <1>3, <2>1, NoWalkMoves
    DEF KnownOK, PausedIsActive, LostIsFailed, TimerHasRun, IdleIsSettled
<1> QED
  BY <1>5, <1>6, <1>7, <1>8

-----------------------------------------------------------------------------
(* The invariant *)

\* No execution, no walk: everything holds.
LEMMA InitOK == ASSUME Init PROVE IInv
<1>1. exec \in [Executions -> Execution] /\ \A e \in Executions : exec[e] = NoExecution
  BY NoExecutionType DEF Init
<1>2. TypeOK
  BY <1>1 DEF Init, TypeOK, Typed, Placed, Nested
<1>3. KnownOK
  BY <1>1 DEF KnownOK, PausedIsActive, TimerHasRun, LostIsFailed, IdleIsSettled, NoExecution
<1> QED
  BY <1>2, <1>3 DEF IInv

\* Every step keeps the invariant.
LEMMA NextOK == ASSUME IInv, [Next]_vars PROVE IInv'
<1>1. CASE UNCHANGED vars
  <2>1. WalksOK' /\ RestOK'
    BY <1>1, TypeOKParts DEF IInv, WalksOK, Placed, Nested, RestOK, vars
  <2>2. SameRuns /\ SameStatus
    BY <1>1 DEF SameRuns, SameStatus, IsRun, vars
  <2> QED
    BY <2>1, <2>2, Moves
<1>2. ASSUME NEW w \in WalkIds, Step(w)
      PROVE  IInv'
  BY <1>2, TakeOK, BeginOK, JoinOK, RunEndsOK, VanishOK, IterateOK, OnwardOK DEF Step
<1>3. ASSUME NEW w \in WalkIds, RetryDue(w) \/ \E ok \in BOOLEAN : NodeEnds(w, ok)
      PROVE  IInv'
  BY <1>3, RetryDueOK, NodeEndsOK
<1>4. ASSUME NEW e \in Executions,
             \/ \E timed \in BOOLEAN : Execute(e, timed)
             \/ TimesOut(e) \/ Cancel(e) \/ Pause(e) \/ Resume(e) \/ Forget(e)
      PROVE  IInv'
  BY <1>4, ExecuteOK, ResumeOK, UserOK
<1> QED
  BY <1>1, <1>2, <1>3, <1>4 DEF Next, Chain

\* The inductive invariant: types, every walk is at a node of its body and inside a
\* walk that waits for it, a paused execution is in activeExecutions, a timer has
\* its run, and what is idle is settled (WorkflowEngine.ts, execute to cancel).
THEOREM EngineInvariant == Spec => []IInv
<1>1. Init => IInv
  BY InitOK
<1>2. IInv /\ [Next]_vars => IInv'
  BY NextOK
<1> QED
  BY <1>1, <1>2, PTL DEF Spec

\* Every value has its type: in particular no walk waits inside a walk that has gone
\* on, and a branch belongs to the execution of its parallel node (executeBranch).
THEOREM TypeCorrect == Spec => []TypeOK
<1>1. IInv => TypeOK
  BY DEF IInv
<1> QED
  BY <1>1, EngineInvariant, PTL

\* Once no run of an execution is under way it is paused and can be resumed, or has
\* ended, and its row tells the same (finally of execute and resume).
THEOREM IdleSettled == Spec => []IdleIsSettled
<1>1. IInv => IdleIsSettled
  BY DEF IInv, KnownOK
<1> QED
  BY <1>1, EngineInvariant, PTL

-----------------------------------------------------------------------------
(* What a step never does *)

\* No step revives a failed execution.
LEMMA FinalStep ==
  ASSUME IInv, [Next]_vars, NEW e \in Executions, exec[e].status = "failed"
  PROVE  exec'[e].status \in {"failed", "none"}
<1>1. TypeOK /\ exec \in [Executions -> Execution]
  BY DEF IInv, TypeOK, Typed
<1>2. SameStatus => exec'[e].status = "failed"
  BY DEF SameStatus
<1>3. CASE UNCHANGED exec
  BY <1>3
<1>4. ASSUME NEW w \in WalkIds, RunEnds(w)
      PROVE  exec'[e].status = "failed"
  <2>1. walk[w].exec = e => EndStatus(w) = "failed"
    BY <1>4 DEF EndStatus, Broke
  <2> QED
    BY <1>1, <1>4, <2>1 DEF RunEnds, Execution
<1>5. ASSUME NEW w \in WalkIds, Step(w)
      PROVE  exec'[e].status = "failed"
  BY <1>2, <1>4, <1>5, TakeOK, BeginOK, JoinOK, VanishOK, IterateOK, OnwardOK DEF Step
<1>6. ASSUME NEW w \in WalkIds, RetryDue(w) \/ \E ok \in BOOLEAN : NodeEnds(w, ok)
      PROVE  exec'[e].status = "failed"
  BY <1>2, <1>6, RetryDueOK, NodeEndsOK
<1>7. ASSUME NEW d \in Executions,
             \/ \E timed \in BOOLEAN : Execute(d, timed)
             \/ TimesOut(d) \/ Cancel(d) \/ Pause(d) \/ Resume(d) \/ Forget(d)
      PROVE  exec'[e].status \in {"failed", "none"}
  <2>1. ASSUME NEW timed \in BOOLEAN, Execute(d, timed)
        PROVE  exec'[e].status = "failed"
    BY <1>1, <2>1 DEF Execute, Execution
  <2>2. CASE TimesOut(d)
    BY <1>1, <2>2 DEF TimesOut, Execution
  <2>3. CASE Cancel(d) \/ Pause(d)
    BY <1>1, <2>3 DEF Cancel, Pause, Execution
  <2>4. CASE Resume(d)
    BY <1>1, <2>4 DEF Resume, Execution
  <2>5. CASE Forget(d)
    BY <1>1, <2>5 DEF Forget, NoExecution
  <2> QED
    BY <1>7, <2>1, <2>2, <2>3, <2>4, <2>5
<1> QED
  BY <1>3, <1>5, <1>6, <1>7 DEF Next, Chain, vars

\* No end of a node, timer or call changes an execution that has failed.
THEOREM FailureFinal == Spec => FailedIsFinal
<1>1. IInv /\ [Next]_vars =>
        [\A e \in Executions : exec[e].status = "failed" => exec'[e].status \in {"failed", "none"}]_vars
  BY FinalStep
<1> QED
  BY <1>1, EngineInvariant, PTL DEF Spec, FailedIsFinal

\* No step begins an attempt in a stopped execution.
LEMMA StopStep ==
  ASSUME IInv, [Next]_vars, NEW w \in WalkIds, In(w, {"start"})', ~In(w, {"start"})
  PROVE  ~Stopped(walk'[w].exec)
<1>1. walk \in [WalkIds -> Walk \cup {None}]
  BY DEF IInv, TypeOK, Typed
<1>2. ~UNCHANGED walk
  BY DEF In
<1> DEFINE Others(v) == \A u \in WalkIds : u # v => walk'[u] = walk[u]
<1>9. \A v : Others(v) => w = v
  BY DEF In
<1>3. ASSUME NEW v \in WalkIds, walk[v] # None, AttemptFails(v) \/ AttemptSucceeds(v)
      PROVE  FALSE
  <2>1. \A u \in WalkIds : LeftBehind(v)[u] # None =>
          /\ walk[u] # None /\ (LeftBehind(v)[u]).state = walk[u].state
    BY <1>1 DEF LeftBehind, Inside, Walk
  <2>2. w # v => walk'[w] = LeftBehind(v)[w]
    BY <1>3 DEF AttemptFails, AttemptSucceeds, LeftBehind
  <2>3. ASSUME w = v, In(w, {"start"})'
        PROVE  FALSE
    <3>1. LeftBehind(v) \in [WalkIds -> Walk \cup {None}]
      <4>1. \A u \in WalkIds : walk[u] # None => [walk[u] EXCEPT !.parent = None] \in Walk
        BY <1>1 DEF Walk
      <4> QED
        BY <1>1, <4>1 DEF LeftBehind, Inside
    <3>2. LeftBehind(v)[v] = walk[v]
      BY NoneAssumption
      DEF LeftBehind, Inside, IInv, TypeOK, Nested, NoneAssumption
    <3>3. walk[v] \in Walk
      BY <1>1, <1>3
    <3>4. walk'[v].state \in {"delay", "broken", "over", "ended"}
      <4>1. CASE AttemptFails(v)
        BY <3>1, <3>2, <3>3, <4>1 DEF AttemptFails, Walk
      <4>2. CASE AttemptSucceeds(v)
        BY <3>1, <3>2, <3>3, <4>2 DEF AttemptSucceeds, Walk
      <4> QED
        BY <1>3, <4>1, <4>2
    <3> QED
      BY <2>3, <3>4 DEF In
  <2> QED
    BY <2>1, <2>2, <2>3 DEF In
<1>4. ASSUME NEW v \in WalkIds, Step(v)
      PROVE  ~Stopped(walk'[w].exec)
  <2>1. CASE Take(v)
    <3>1. walk[v] \in Walk /\ walk[v].state = "next"
      BY <1>1, <2>1 DEF Take, In
    <3>2. Others(v)
      BY <1>1, <2>1 DEF Take
    <3>3. CASE walk' = [walk EXCEPT ![v].state = "over"]
      BY <1>1, <1>9, <3>1, <3>2, <3>3 DEF In, Walk
    <3>4. CASE ~Stopped(walk[v].exec)
      <4>1. walk'[v].exec = walk[v].exec
        <5>1. CASE walk' = [walk EXCEPT ![v].state = "over"]
          BY <1>1, <3>1, <5>1 DEF Walk
        <5>2. ASSUME NEW n, walk' = [walk EXCEPT ![v].queue = @ \ {n}, ![v].at = n,
                                                 ![v].state = "start", ![v].tries = 0]
              PROVE  walk'[v].exec = walk[v].exec
          BY <1>1, <3>1, <5>2 DEF Walk
        <5> QED
          BY <2>1, <5>1, <5>2 DEF Take
      <4> QED
        BY <1>9, <3>2, <3>4, <4>1
    <3> QED
      BY <2>1, <3>3, <3>4 DEF Take
  <2>2. CASE Begin(v)
    <3>1. walk[v] \in Walk /\ walk[v].state = "start"
      BY <1>1, <2>2 DEF Begin, In
    <3>2. ~AttemptFails(v)
      BY <1>3, <3>1, NoneAssumption DEF NoneAssumption
    <3>3. CASE walk' = [walk EXCEPT ![v].state = "busy"]
      BY <1>1, <1>9, <3>1, <3>3 DEF In, Walk
    <3> DEFINE n == walk[v].at
               free == {u \in WalkIds : walk[u] = None}
               branch(n1) == NewWalk(walk[v].exec, "inside", v, Body(graph, n),
                                     {n1}, {n}, "next")
    <3>4. ASSUME NEW ids \in SUBSET free, NEW entry \in [ids -> Entries(graph, n)],
                 walk' = [u \in WalkIds |->
                   IF u \in ids THEN branch(entry[u])
                   ELSE IF u = v THEN [walk[v] EXCEPT !.state = "inside", !.turn = 0]
                   ELSE walk[u]]
          PROVE  FALSE
      BY <3>1, <3>4 DEF NewWalk, In, Walk
    <3> QED
      BY <2>2, <3>2, <3>3, <3>4 DEF Begin
  <2>3. CASE Join(v)
    BY <1>3, <2>3 DEF Join, In
  <2>4. CASE RunEnds(v) \/ Vanish(v)
    BY <1>1, <2>4 DEF RunEnds, Vanish, In
  <2>5. ASSUME NEW goes \in BOOLEAN, Iterate(v, goes)
        PROVE  FALSE
    BY <1>1, <1>3, <2>5 DEF Iterate, NewWalk, In, Walk
  <2>6. ASSUME NEW result \in BOOLEAN, Onward(v, result)
        PROVE  FALSE
    <3>1. walk[v] \in Walk /\ walk[v].state = "ended" /\ Others(v)
      BY <1>1, <2>6 DEF Onward, In
    <3>2. walk'[v].state \in {"over", "next"}
      <4>1. CASE walk' = [walk EXCEPT ![v].state = "over"]
        BY <1>1, <3>1, <4>1 DEF Walk
      <4>2. CASE ~Stopped(walk[v].exec)
        BY <1>1, <2>6, <3>1, <4>2, OnwardNext DEF Walk
      <4> QED
        BY <2>6, <4>1, <4>2 DEF Onward
    <3> QED
      BY <1>9, <3>1, <3>2 DEF In
  <2> QED
    BY <1>4, <2>1, <2>2, <2>3, <2>4, <2>5, <2>6 DEF Step
<1>5. ASSUME NEW v \in WalkIds, RetryDue(v)
      PROVE  ~Stopped(walk'[w].exec)
  BY <1>1, <1>5 DEF RetryDue, In, Walk
<1>6. ASSUME NEW v \in WalkIds, NEW ok \in BOOLEAN, NodeEnds(v, ok)
      PROVE  FALSE
  BY <1>3, <1>6 DEF NodeEnds, In
<1>7. ASSUME NEW e \in Executions, NEW role, Run(e, role)
      PROVE  FALSE
  BY <1>1, <1>7 DEF Run, NewWalk, In, FirstFree
<1>8. ASSUME NEW e \in Executions,
             \/ \E timed \in BOOLEAN : Execute(e, timed)
             \/ TimesOut(e) \/ Cancel(e) \/ Pause(e) \/ Resume(e) \/ Forget(e)
      PROVE  FALSE
  BY <1>2, <1>7, <1>8 DEF Execute, TimesOut, Cancel, Pause, Resume, Forget
<1> QED
  BY <1>2, <1>4, <1>5, <1>6, <1>8 DEF Next, Chain, vars

\* While an execution is paused or has failed no attempt at a node of it begins.
THEOREM StopsHold == Spec => StopHolds
<1>1. IInv /\ [Next]_vars =>
        [\A w \in WalkIds :
           In(w, {"start"})' /\ ~In(w, {"start"}) => ~Stopped(walk'[w].exec)]_vars
  BY StopStep
<1> QED
  BY <1>1, EngineInvariant, PTL DEF Spec, StopHolds

-----------------------------------------------------------------------------
(* Bodies, and the first of some nodes *)

\* What is not entered from a node into its body.
Shut(g, n) == Targets({e \in OutOf(g, n) : e.type \notin {BodyType(g, n), "data"}}) \cup {n}

\* What a body is: the least set with the entries that edges do not leave.
LEMMA BodyIsLeast ==
  ASSUME NEW g, NEW n, g.kind[n] \notin {"work", "condition"}
  PROVE  Body(g, n) = {m \in g.nodes : \A R \in SUBSET g.nodes :
           (/\ Entries(g, n) \ Shut(g, n) \subseteq R
            /\ \A d \in Control(g) : d.from \in R => d.to \in R \cup Shut(g, n)) => m \in R}
BY DEF Body, Reach, Shut

\* A body has no more than any such set, in particular not the node itself.
LEMMA BodyWithin ==
  ASSUME NEW g, NEW n, NEW R \in SUBSET g.nodes, Entries(g, n) \ Shut(g, n) \subseteq R,
         \A d \in Control(g) : d.from \in R => d.to \in R \cup Shut(g, n)
  PROVE  Body(g, n) \subseteq R
<1>1. CASE g.kind[n] \in {"work", "condition"}
  BY <1>1 DEF Body
<1>2. CASE g.kind[n] \notin {"work", "condition"}
  BY <1>2, BodyIsLeast
<1> QED
  BY <1>1, <1>2

\* A node is not in its own body.
LEMMA NotInOwnBody ==
  ASSUME NEW g \in Workflows, NEW n
  PROVE  n \notin Body(g, n)
<1> DEFINE R == g.nodes \ {n}
<1>1. Entries(g, n) \ Shut(g, n) \subseteq R
  BY GraphNodes DEF Shut
<1>2. \A d \in Control(g) : d.from \in R => d.to \in R \cup Shut(g, n)
  BY EngineAssumption DEF EngineAssumption, IsWorkflow, Edge, Control, Shut
<1>3. Body(g, n) \subseteq R
  <2> HIDE DEF R
  <2>1. R \in SUBSET g.nodes
    BY DEF R
  <2> QED
    BY <1>1, <1>2, <2>1, BodyWithin
<1> QED
  BY <1>3

\* It has the entries, and what its edges lead to.
LEMMA BodyHas ==
  ASSUME NEW g \in Workflows, NEW n, g.kind[n] \notin {"work", "condition"}
  PROVE  /\ Entries(g, n) \ Shut(g, n) \subseteq Body(g, n)
         /\ \A d \in Control(g) :
              d.from \in Body(g, n) => d.to \in Body(g, n) \cup Shut(g, n)
<1>1. Entries(g, n) \subseteq g.nodes
  BY GraphNodes
<1>2. \A d \in Control(g) : d.to \in g.nodes
  BY EngineAssumption DEF EngineAssumption, IsWorkflow, Edge, Control
<1>3. Entries(g, n) \ Shut(g, n) \subseteq Body(g, n)
  BY <1>1, BodyIsLeast
<1>4. ASSUME NEW d \in Control(g), d.from \in Body(g, n), d.to \notin Shut(g, n)
      PROVE  d.to \in Body(g, n)
  <2> SUFFICES ASSUME NEW R \in SUBSET g.nodes, Entries(g, n) \ Shut(g, n) \subseteq R,
                      \A c \in Control(g) : c.from \in R => c.to \in R \cup Shut(g, n)
               PROVE  d.to \in R
    BY <1>2, BodyIsLeast
  <2>1. d.from \in R
    BY <1>4, BodyIsLeast
  <2> QED
    BY <1>4, <2>1
<1> QED
  BY <1>3, <1>4

\* An edge leads from a node to each of its entries.
LEMMA EntryEdge ==
  ASSUME NEW g, NEW n, NEW m \in Entries(g, n)
  PROVE  \E d \in Into(g, m) : d.from = n
BY DEF Entries, Targets, OutOf, BodyType, Into, Control

\* A set that has, with a node, those of B with an edge to it, has nothing of the body
\* of a node of B that it lacks, if the body lies in B.
LEMMA BackToOwner ==
  ASSUME NEW g \in Workflows, NEW B, NEW X, NEW n \in B, Body(g, n) \subseteq B,
         \A x \in X : \A d \in Into(g, x) : d.from \in B => d.from \in X, n \notin X
  PROVE  Body(g, n) \cap X = {}
<1>1. CASE g.kind[n] \in {"work", "condition"}
  BY <1>1 DEF Body
<1>2. CASE g.kind[n] \notin {"work", "condition"}
  <2> DEFINE R == Body(g, n) \ X
  <2>1. Entries(g, n) \ Shut(g, n) \subseteq R
    BY <1>2, BodyHas, EntryEdge
  <2>2. \A d \in Control(g) : d.from \in R => d.to \in R \cup Shut(g, n)
    BY <1>2, BodyHas DEF Into
  <2>3. R \in SUBSET g.nodes
    BY GraphNodes
  <2>4. Body(g, n) \subseteq R
    <3> HIDE DEF R
    <3> QED
      BY <2>1, <2>2, <2>3, BodyWithin
  <2> QED
    BY <2>4
<1> QED
  BY <1>1, <1>2

\* The least number of a set.
LEMMA LeastOf ==
  ASSUME NEW T \in SUBSET Nat, T # {}
  PROVE  \E m \in T : \A k \in T : m <= k
<1>1. PICK m \in T : \A k \in T : ~(<<k, m>> \in OpToRel(<, Nat))
  BY NatLessThanWellFounded, WFMin
<1>2. \A k \in T : ~(k < m)
  BY <1>1 DEF OpToRel
<1> QED
  BY <1>2

\* In a workflow without a cycle some node of a set has no edge from the set.
LEMMA SomeNodeIsFirst ==
  ASSUME NEW g \in Workflows, ~HasCycle(g), NEW S \in SUBSET g.nodes, S # {}
  PROVE  \E m \in S : \A d \in g.edges : d.to = m => d.from \notin S
<1> DEFINE After(k) == Reach(g, g.edges, Targets(OutOf(g, k)), {})
           Before(m) == {k \in g.nodes : m \in After(k)}
<1>1. IsFiniteSet(g.nodes) /\ \A d \in g.edges : d.from \in g.nodes /\ d.to \in g.nodes
  BY GraphNodes, NodesAssumption, EngineAssumption, FS_Subset
  DEF NodesAssumption, EngineAssumption, IsWorkflow, Edge
<1>2. \A m \in g.nodes : m \notin Before(m)
  BY DEF HasCycle
<1>3. ASSUME NEW d \in g.edges
      PROVE  d.from \in Before(d.to) /\ Before(d.from) \subseteq Before(d.to)
  <2>1. d.to \in After(d.from)
    BY <1>1 DEF Reach, Targets, OutOf
  <2>2. \A k \in g.nodes : d.from \in After(k) => d.to \in After(k)
    BY <1>1 DEF Reach
  <2> QED
    BY <1>1, <2>1, <2>2
<1> HIDE DEF After
<1>4. \A m \in g.nodes : Before(m) \subseteq g.nodes /\ IsFiniteSet(Before(m))
                         /\ Cardinality(Before(m)) \in Nat
  BY <1>1, FS_Subset, FS_CardinalityType
<1> HIDE DEF Before
<1>5. PICK m \in S : \A k \in S : Cardinality(Before(m)) <= Cardinality(Before(k))
  <2> DEFINE T == {Cardinality(Before(k)) : k \in S}
  <2>1. T \in SUBSET Nat /\ T # {}
    BY <1>4
  <2>2. PICK c \in T : \A k \in T : c <= k
    BY <2>1, LeastOf
  <2> QED
    BY <2>2
<1>6. ASSUME NEW d \in g.edges, d.to = m, d.from \in S
      PROVE  FALSE
  <2>1. Before(d.from) \subseteq Before(m) /\ d.from \in Before(m)
    BY <1>3, <1>6
  <2>2. d.from \notin Before(d.from)
    BY <1>2, <1>6
  <2>3. Cardinality(Before(d.from)) <= Cardinality(Before(m))
        /\ Cardinality(Before(m)) # Cardinality(Before(d.from))
    BY <1>4, <2>1, <2>2, FS_Subset
  <2> QED
    BY <1>4, <1>5, <1>6, <2>3
<1> QED
  BY <1>6

-----------------------------------------------------------------------------
(* What a step does to one execution *)

\* Walk w goes on; the others stay as they are.
Moved(w) ==
  /\ w \in WalkIds /\ walk[w] # None /\ walk'[w] # None
  /\ walk'[w].exec = walk[w].exec /\ walk'[w].role = walk[w].role
  /\ walk'[w].parent = walk[w].parent /\ walk'[w].body = walk[w].body
  /\ \A v \in WalkIds \ {w} : walk'[v] = walk[v]

SameLists(w) ==
  /\ walk'[w].queue = walk[w].queue /\ walk'[w].done = walk[w].done
  /\ walk'[w].skipped = walk[w].skipped /\ walk'[w].at = walk[w].at

\* It returns early, or has no node left.
Halts(w) ==
  /\ Moved(w) /\ SameLists(w) /\ exec' = exec
  /\ walk[w].state \in {"next", "ended", "delay"} /\ walk'[w].state = "over"
  /\ Stopped(walk[w].exec) \/ (walk[w].state = "next" /\ Ready(w) = {})

\* Its executor works, or the node begins again.
Shifts(w) ==
  /\ Moved(w) /\ SameLists(w) /\ exec' = exec
  /\ walk[w].state \in {"start", "delay"} /\ walk'[w].state \in {"start", "busy"}
  /\ walk'[w].state = "busy" => graph.kind[walk[w].at] \in {"work", "condition"}

\* It takes node n.
Picks(w, n) ==
  /\ Moved(w) /\ n \in Ready(w) /\ walk[w].state = "next" /\ walk'[w].state = "start"
  /\ walk'[w].queue = walk[w].queue \ {n} /\ walk'[w].at = n
  /\ walk'[w].done = walk[w].done /\ walk'[w].skipped = walk[w].skipped
  /\ exec'[walk[w].exec].status = exec[walk[w].exec].status
  /\ \A m \in Nodes \ {n} : exec'[walk[w].exec].nodes[m] = exec[walk[w].exec].nodes[m]

\* An attempt at its node ends, and the walks inside it are given up.
Closes(w) ==
  /\ w \in WalkIds /\ walk[w] # None /\ walk'[w] # None
  /\ walk'[w].exec = walk[w].exec /\ walk'[w].role = walk[w].role
  /\ walk'[w].parent = walk[w].parent /\ walk'[w].body = walk[w].body
  /\ SameLists(w)
  /\ walk[w].state \in {"start", "busy", "inside"}
  /\ walk'[w].state \in {"delay", "broken", "over", "ended"}
  /\ walk'[w].state = "over" => Stopped(walk[w].exec)
  /\ \A v \in Inside(w) :
       /\ walk'[v] # None => /\ walk'[v].exec = walk[v].exec /\ walk'[v].parent = None
                             /\ walk'[v].at = walk[v].at
       /\ ~exec'[walk[w].exec].mixed => Returned(v) /\ walk'[v] = None
  /\ \A v \in WalkIds \ {w} : v \notin Inside(w) => walk'[v] = walk[v]
  /\ exec'[walk[w].exec].status = exec[walk[w].exec].status
  /\ \A n \in Nodes \ {walk[w].at} :
       exec'[walk[w].exec].nodes[n] = exec[walk[w].exec].nodes[n]
  /\ walk'[w].state = "ended" => exec'[walk[w].exec].nodes[walk[w].at] = "completed"

\* The walks N begin inside its node: branches, or an iteration in the place of the last.
Opens(w, N) ==
  /\ w \in WalkIds /\ walk[w] # None /\ walk'[w] # None
  /\ walk'[w].exec = walk[w].exec /\ walk'[w].role = walk[w].role
  /\ walk'[w].parent = walk[w].parent /\ walk'[w].body = walk[w].body
  /\ SameLists(w) /\ exec' = exec
  /\ walk[w].state \in {"start", "inside"} /\ walk'[w].state = "inside"
  /\ N \in SUBSET WalkIds /\ w \notin N /\ Inside(w) \subseteq N
  /\ graph.kind[walk[w].at] \notin {"work", "condition"}
  /\ graph.kind[walk[w].at] # "parallel" => \A v, u \in N : v = u
  /\ \A v \in N : /\ walk[v] = None \/ (v \in Inside(w) /\ Returned(v))
                  /\ walk'[v] # None
                  /\ walk'[v].exec = walk[w].exec /\ walk'[v].role = "inside"
                  /\ walk'[v].parent = w /\ walk'[v].state = "next"
                  /\ walk'[v].body = Body(graph, walk[w].at)
                  /\ walk'[v].done = {walk[w].at} /\ walk'[v].skipped = {}
                  /\ walk'[v].queue \subseteq Entries(graph, walk[w].at)
                  /\ walk'[v].at = None
  /\ \A v, u \in N : v # u => walk'[v].queue \cap walk'[u].queue = {}
  /\ \A v \in WalkIds \ (N \cup {w}) : walk'[v] = walk[v]

\* It goes on after its node has ended: inside a node with what this node leads to,
\* else with all that is ready, and the nodes hit are skipped.
Advances(w, hit) ==
  /\ Moved(w) /\ walk[w].state = "ended" /\ walk'[w].state = "next" /\ walk'[w].at = None
  /\ exec'[walk[w].exec].status = exec[walk[w].exec].status
  /\ \A m \in Nodes : exec'[walk[w].exec].nodes[m] =
       IF m \in hit THEN "skipped" ELSE exec[walk[w].exec].nodes[m]
  /\ \A m \in Nodes \cap hit : exec[walk[w].exec].nodes[m] = "none"
  /\ walk'[w].skipped = walk[w].skipped \cup hit
  /\ IF walk[w].role = "inside"
     THEN /\ hit = {} /\ walk'[w].done = walk[w].done \cup {walk[w].at}
          /\ \A m \in walk'[w].queue \ walk[w].queue :
               /\ m \in walk[w].body /\ \E d \in Into(graph, m) : d.from = walk[w].at
               /\ \A d \in Into(graph, m) :
                    d.from \in walk[w].body => d.from \in walk'[w].done
     ELSE /\ walk'[w].done = walk[w].done \cup {walk[w].at} \cup Body(graph, walk[w].at)
          /\ walk'[w].queue =
               {m \in graph.nodes :
                  DependenciesSatisfied(graph, m, walk'[w].done \cup walk'[w].skipped)}
                 \ (walk'[w].done \cup walk'[w].skipped)

\* It has returned and is given up. A run may change the status of its execution.
Frees(w) ==
  /\ w \in WalkIds /\ Returned(w) /\ walk[w].parent = None /\ walk'[w] = None
  /\ \A v \in WalkIds \ {w} : walk'[v] = walk[v]
  /\ exec'[walk[w].exec].nodes = exec[walk[w].exec].nodes
  /\ IF walk[w].role = "inside" THEN exec' = exec
     ELSE exec'[walk[w].exec].status = EndStatus(w)

\* A run begins in an execution that had none.
Begins(e, w) ==
  /\ w \in WalkIds /\ WalksOf(e)' = {w}
  /\ walk'[w].parent = None /\ walk'[w].role # "inside" /\ walk'[w].body = graph.nodes
  /\ walk'[w].queue = StartNodes(graph) /\ walk'[w].done = {} /\ walk'[w].skipped = {}
  /\ walk'[w].at = None
  /\ walk'[w].state = IF Valid(graph) THEN "next" ELSE "broken"
  /\ exec'[e].status = "running"

\* Nothing moves in execution e, or nothing is left in it.
Rests(e) ==
  /\ WalksOf(e)' = WalksOf(e) /\ \A v \in WalksOf(e) : walk'[v] = walk[v]
  /\ exec'[e].nodes = exec[e].nodes /\ exec'[e].mixed = exec[e].mixed
  /\ exec'[e].status \in {exec[e].status, "paused", "failed"}

Emptied(e) == WalksOf(e)' = {} /\ exec'[e].status = "none"

StepOfWalk(w) ==
  \/ Halts(w) \/ Shifts(w) \/ (\E n \in Nodes : Picks(w, n)) \/ Closes(w)
  \/ (\E N \in SUBSET WalkIds : Opens(w, N))
  \/ (\E hit \in SUBSET Nodes : Advances(w, hit)) \/ Frees(w)

\* It leaves other executions alone.
ActsInOne(w) ==
  /\ StepOfWalk(w) /\ graph' = graph
  /\ \A d \in Executions : d # walk[w].exec => exec'[d] = exec[d]
  /\ exec[walk[w].exec].mixed => exec'[walk[w].exec].mixed

\* An execution that is not known has no walk.
NoWalkUnknown == \A e \in Executions : exec[e].status = "none" => WalksOf(e) = {}

-----------------------------------------------------------------------------
(* Every action is such a step *)

\* A record that goes on in the place of a walk is a move of this walk alone.
LEMMA OneMoves ==
  ASSUME WalksOK, NEW w \in WalkIds, walk[w] # None, NEW r, Continues(r, w),
         walk' = [walk EXCEPT ![w] = r]
  PROVE  Moved(w) /\ walk'[w] = r
<1>1. r \in Walk /\ r # None
  BY NoneAssumption DEF NoneAssumption, Continues
<1> QED
  BY <1>1 DEF Moved, Continues, WalksOK

\* A walk that takes a node picks one that is ready, or halts.
LEMMA TakeActs == ASSUME IInv, NEW w \in WalkIds, Take(w) PROVE ActsInOne(w)
<1> DEFINE e == walk[w].exec
<1>1. /\ WalksOK /\ RestOK /\ walk[w] # None /\ walk[w] \in Walk /\ walk[w].state = "next"
      /\ UNCHANGED <<graph, cached>>
  BY TypeOKParts DEF WalksOK, IInv, Take, In
<1>2. e \in Executions
  BY <1>1 DEF Walk
<1>3. CASE /\ Stopped(e) \/ Ready(w) = {}
           /\ walk' = [walk EXCEPT ![w].state = "over"] /\ UNCHANGED exec
  <2> DEFINE r == [walk[w] EXCEPT !.state = "over"]
  <2>1. Continues(r, w) /\ r.state = "over" /\ r.queue = walk[w].queue /\ r.at = walk[w].at
        /\ r.done = walk[w].done /\ r.skipped = walk[w].skipped
    BY <1>1 DEF Continues, Walk
  <2>2. walk' = [walk EXCEPT ![w] = r]
    BY <1>3
  <2> HIDE DEF r
  <2>3. Moved(w) /\ walk'[w] = r
    BY <1>1, <2>1, <2>2, OneMoves
  <2>4. Halts(w)
    BY <1>1, <1>3, <2>1, <2>3 DEF Halts, SameLists
  <2> QED
    BY <1>1, <1>3, <2>4 DEF ActsInOne, StepOfWalk
<1>4. ASSUME NEW n \in Ready(w),
             walk' = [walk EXCEPT ![w].queue = @ \ {n}, ![w].at = n,
                                  ![w].state = "start", ![w].tries = 0],
             exec' = [exec EXCEPT ![e].nodes[n] = "running"]
      PROVE  ActsInOne(w)
  <2> DEFINE r == [walk[w] EXCEPT !.queue = @ \ {n}, !.at = n, !.state = "start", !.tries = 0]
  <2>1. n \in walk[w].body /\ n \in Nodes
    BY <1>1, <1>4 DEF Ready, Walk
  <2>2. Continues(r, w) /\ r.state = "start" /\ r.queue = walk[w].queue \ {n} /\ r.at = n
        /\ r.done = walk[w].done /\ r.skipped = walk[w].skipped
    BY <1>1, <2>1, ZeroInBounds DEF Continues, Walk
  <2>3. walk' = [walk EXCEPT ![w] = r]
    <3>1. r \in Walk /\ walk'[w] = r /\ DOMAIN walk' = WalkIds
          /\ \A v \in WalkIds : v # w => walk'[v] = walk[v]
      BY <1>1, <1>4, <2>2 DEF WalksOK, Continues, Walk
    <3> QED
      BY <1>1, <1>4, <3>1 DEF WalksOK
  <2> HIDE DEF r
  <2>4. Moved(w) /\ walk'[w] = r
    BY <1>1, <2>2, <2>3, OneMoves
  <2>5. /\ \A d \in Executions : d # e => exec'[d] = exec[d]
        /\ exec'[e].mixed = exec[e].mixed /\ exec'[e].status = exec[e].status
        /\ \A m \in Nodes \ {n} : exec'[e].nodes[m] = exec[e].nodes[m]
    BY <1>1, <1>2, <1>4 DEF RestOK, Execution
  <2>6. Picks(w, n)
    BY <1>1, <1>4, <2>2, <2>4, <2>5 DEF Picks
  <2> QED
    BY <1>1, <2>1, <2>5, <2>6 DEF ActsInOne, StepOfWalk
<1> QED
  BY <1>3, <1>4 DEF Take

\* After the delay a walk shifts to the next attempt, or halts when stopped.
LEMMA RetryActs == ASSUME IInv, NEW w \in WalkIds, RetryDue(w) PROVE ActsInOne(w)
<1> DEFINE s == IF Stopped(walk[w].exec) THEN "over" ELSE "start"
           r == [walk[w] EXCEPT !.state = s]
<1>1. /\ WalksOK /\ walk[w] # None /\ walk[w] \in Walk /\ walk[w].state = "delay"
      /\ walk[w].at \in walk[w].body
      /\ walk' = [walk EXCEPT ![w] = r] /\ UNCHANGED <<graph, exec, cached>>
  BY TypeOKParts DEF IInv, WalksOK, Placed, RetryDue, In
<1>2. Continues(r, w) /\ r.state = s /\ r.queue = walk[w].queue /\ r.at = walk[w].at
      /\ r.done = walk[w].done /\ r.skipped = walk[w].skipped
  BY <1>1 DEF Continues, Walk
<1> HIDE DEF r
<1>3. Moved(w) /\ walk'[w] = r
  BY <1>1, <1>2, OneMoves
<1>4. Halts(w) \/ Shifts(w)
  BY <1>1, <1>2, <1>3 DEF Halts, Shifts, SameLists
<1> QED
  BY <1>1, <1>4 DEF ActsInOne, StepOfWalk

\* The ends of an attempt.
LEMMA AttemptActs ==
  ASSUME TypeOK, NEW w \in WalkIds, walk[w] # None, graph' = graph,
         walk[w].state \in {"start", "busy", "inside"},
         \/ AttemptFails(w)
         \/ AttemptSucceeds(w) /\ \A v \in Inside(w) : Returned(v)
  PROVE  ActsInOne(w)
<1> DEFINE e == walk[w].exec
           L == LeftBehind(w)
<1>1. WalksOK /\ RestOK /\ walk[w] \in Walk
  BY TypeOKParts DEF WalksOK
<1>2. walk[w].at \in Nodes /\ e \in Executions
  <2>1. walk[w].at \in walk[w].body
    BY <1>1 DEF WalksOK, Placed
  <2> QED
    BY <1>1, <2>1 DEF Walk
<1>3. /\ L[w] = walk[w] /\ w \notin Inside(w) /\ DOMAIN L = WalkIds
      /\ \A v \in WalkIds : v \notin Inside(w) => L[v] = walk[v]
      /\ \A v \in Inside(w) : IF Returned(v) THEN L[v] = None
                             ELSE /\ L[v].exec = walk[v].exec /\ L[v].parent = None
                                  /\ L[v].at = walk[v].at
  <2>1. w # None
    BY NoneAssumption DEF NoneAssumption
  <2>2. \A v \in Inside(w) : v \in WalkIds /\ walk[v] \in Walk
    BY <1>1 DEF Inside, WalksOK
  <2>3. \A v \in Inside(w) : ~Returned(v) => /\ L[v].exec = walk[v].exec /\ L[v].parent = None
                                            /\ L[v].at = walk[v].at
    BY <2>2 DEF LeftBehind, Walk
  <2> QED
    BY <1>1, <2>1, <2>2, <2>3 DEF LeftBehind, Inside, WalksOK, Nested
<1> HIDE DEF L
<1>4. /\ \A d \in Executions : d # e => exec'[d] = exec[d]
      /\ exec'[e].status = exec[e].status /\ (exec[e].mixed => exec'[e].mixed)
      /\ \A n \in Nodes \ {walk[w].at} : exec'[e].nodes[n] = exec[e].nodes[n]
      /\ (\E v \in Inside(w) : ~Returned(v)) => exec'[e].mixed
  <2> DEFINE mixed == exec[e].mixed \/ \E v \in Inside(w) : ~Returned(v)
  <2>0. exec[e] \in Execution /\ mixed \in BOOLEAN
    BY <1>1, <1>2 DEF RestOK
  <2>1. CASE AttemptFails(w)
    <3>1. PICK s \in NodeStatuses :
            exec' = [exec EXCEPT ![e].nodes[walk[w].at] = s, ![e].mixed = mixed]
      BY <2>1 DEF AttemptFails, NodeStatuses
    <3> HIDE DEF mixed
    <3>2. /\ \A d \in Executions : d # e => exec'[d] = exec[d]
          /\ exec'[e].status = exec[e].status /\ exec'[e].mixed = mixed
          /\ \A n \in Nodes \ {walk[w].at} : exec'[e].nodes[n] = exec[e].nodes[n]
      BY <1>1, <1>2, <2>0, <3>1 DEF RestOK, Execution
    <3> QED
      BY <3>2 DEF mixed
  <2>2. CASE AttemptSucceeds(w) /\ \A v \in Inside(w) : Returned(v)
    BY <1>1, <1>2, <2>2 DEF AttemptSucceeds, RestOK, Execution
  <2> QED
    BY <2>1, <2>2
<1>5. PICK r : /\ walk' = [L EXCEPT ![w] = r] /\ r \in Walk /\ r.exec = e
               /\ r.role = walk[w].role /\ r.parent = walk[w].parent
               /\ r.body = walk[w].body /\ r.queue = walk[w].queue /\ r.at = walk[w].at
               /\ r.done = walk[w].done /\ r.skipped = walk[w].skipped
               /\ r.state \in {"delay", "broken", "over", "ended"}
               /\ r.state = "over" => Stopped(e)
               /\ r.state = "ended" => exec'[e].nodes[walk[w].at] = "completed"
  <2>1. CASE AttemptFails(w)
    <3> DEFINE again == walk[w].at \in graph.again /\ walk[w].tries < Retries
               r == [walk[w] EXCEPT !.state = IF again THEN "delay" ELSE "broken",
                                    !.tries = IF again THEN @ + 1 ELSE @]
    <3>1. r \in Walk
      <4>1. again => walk[w].tries + 1 \in 0..Retries
        BY <1>1, EngineAssumption DEF EngineAssumption, Walk
      <4> QED
        BY <1>1, <4>1 DEF Walk
    <3>2. walk' = [L EXCEPT ![w] = r]
      <4>1. /\ DOMAIN walk' = WalkIds /\ walk'[w] = r
            /\ \A v \in WalkIds : v # w => walk'[v] = L[v]
        BY <1>1, <1>3, <2>1, <3>1 DEF AttemptFails, L, Walk
      <4> HIDE DEF r
      <4>3. \A v \in WalkIds : walk'[v] = [L EXCEPT ![w] = r][v]
        BY <1>3, <4>1
      <4>4. walk' = [v \in WalkIds |-> walk'[v]]
        BY <2>1, <4>1 DEF AttemptFails, LeftBehind
      <4>5. [L EXCEPT ![w] = r] = [v \in WalkIds |-> [L EXCEPT ![w] = r][v]]
        BY <1>3 DEF L, LeftBehind
      <4> QED
        BY <4>3, <4>4, <4>5
    <3> QED
      BY <1>1, <3>1, <3>2 DEF Walk
  <2>2. CASE AttemptSucceeds(w)
    <3> DEFINE r == [walk[w] EXCEPT !.state = IF Stopped(e) THEN "over" ELSE "ended"]
    <3>1. r \in Walk
      BY <1>1 DEF Walk
    <3>2. walk' = [L EXCEPT ![w] = r]
      BY <1>3, <2>2 DEF AttemptSucceeds, L
    <3>3. ~Stopped(e) => exec'[e].nodes[walk[w].at] = "completed"
      BY <1>1, <1>2, <2>2 DEF AttemptSucceeds, RestOK, Execution
    <3> QED
      BY <1>1, <3>1, <3>2, <3>3 DEF Walk
  <2> QED
    BY <2>1, <2>2
<1>6. /\ walk'[w] = r /\ r # None
      /\ \A v \in WalkIds \ {w} : walk'[v] = L[v]
  BY <1>3, <1>5, NoneAssumption DEF NoneAssumption
<1>7. Closes(w)
  BY <1>1, <1>3, <1>4, <1>5, <1>6 DEF Closes, SameLists, Inside
<1> QED
  BY <1>1, <1>4, <1>7 DEF ActsInOne, StepOfWalk

\* Nobody is inside the node of a walk that does not wait.
LEMMA NobodyInside ==
  ASSUME WalksOK, NEW w \in WalkIds, walk[w] # None, walk[w].state # "inside"
  PROVE  Inside(w) = {}
<1>1. w # None
  BY NoneAssumption DEF NoneAssumption
<1> QED
  BY <1>1 DEF WalksOK, Nested, Inside

\* Walks N inside the node of w begin, each with its queue.
StartsInside(w, N, Q) ==
  /\ N \in SUBSET WalkIds /\ w \notin N /\ Inside(w) \subseteq N
  /\ graph.kind[walk[w].at] \notin {"work", "condition"}
  /\ graph.kind[walk[w].at] # "parallel" => \A v, u \in N : v = u
  /\ \A v \in N : /\ walk[v] = None \/ (v \in Inside(w) /\ Returned(v))
                  /\ Q[v] \subseteq Entries(graph, walk[w].at)
                  /\ walk'[v] = NewWalk(walk[w].exec, "inside", w, Body(graph, walk[w].at),
                                        Q[v], {walk[w].at}, "next")
  /\ \A v, u \in N : v # u => Q[v] \cap Q[u] = {}
  /\ \A v \in WalkIds \ (N \cup {w}) : walk'[v] = walk[v]

\* Walk w goes on, and waits for those inside its node.
Waits(w, r) ==
  /\ Continues(r, w) /\ r.state = "inside" /\ r.queue = walk[w].queue
  /\ r.at = walk[w].at /\ r.done = walk[w].done /\ r.skipped = walk[w].skipped

\* Walks that start inside the node of a walk open it.
LEMMA OpensActs ==
  ASSUME IInv, NEW w \in WalkIds, walk[w] # None, walk[w].state \in {"start", "inside"},
         NEW r, Waits(w, r), walk'[w] = r, NEW N, NEW Q, StartsInside(w, N, Q),
         exec' = exec, graph' = graph
  PROVE  ActsInOne(w)
<1> DEFINE n == walk[w].at
<1>1. WalksOK /\ RestOK /\ walk[w] \in Walk /\ n \in walk[w].body
  BY TypeOKParts DEF IInv, WalksOK, Placed
<1>2. r # None
  BY NoneAssumption DEF NoneAssumption, Waits, Continues
<1>3. /\ walk[w].exec \in Executions /\ n \in Nodes /\ Body(graph, n) \in SUBSET Nodes
      /\ \A v \in N : Q[v] \in SUBSET Nodes
  BY <1>1, GraphNodes DEF RestOK, Walk, StartsInside
<1>4. \A v \in N : /\ walk'[v] # None
                   /\ walk'[v].exec = walk[w].exec /\ walk'[v].role = "inside"
                   /\ walk'[v].parent = w /\ walk'[v].state = "next"
                   /\ walk'[v].body = Body(graph, n) /\ walk'[v].done = {n}
                   /\ walk'[v].skipped = {} /\ walk'[v].queue = Q[v] /\ walk'[v].at = None
  <2> SUFFICES ASSUME NEW v \in N
               PROVE  /\ walk'[v] # None
                      /\ walk'[v].exec = walk[w].exec /\ walk'[v].role = "inside"
                      /\ walk'[v].parent = w /\ walk'[v].state = "next"
                      /\ walk'[v].body = Body(graph, n) /\ walk'[v].done = {n}
                      /\ walk'[v].skipped = {} /\ walk'[v].queue = Q[v] /\ walk'[v].at = None
    OBVIOUS
  <2>1. PICK B \in SUBSET Nodes : B = Body(graph, n)
    BY <1>3
  <2>2. PICK q \in SUBSET Nodes : q = Q[v]
    BY <1>3
  <2>3. walk'[v] = NewWalk(walk[w].exec, "inside", w, B, q, {n}, "next")
    BY <2>1, <2>2 DEF StartsInside
  <2>4. walk'[v] \in Walk
    BY <1>3, <2>3, ZeroInBounds DEF NewWalk, Walk
  <2>5. walk'[v] # None
    BY <2>4, NoneAssumption DEF NoneAssumption
  <2> QED
    BY <2>1, <2>2, <2>3, <2>5 DEF NewWalk
<1>5. Opens(w, N)
  <2>1. /\ walk'[w] # None /\ walk'[w].exec = walk[w].exec /\ walk'[w].role = walk[w].role
        /\ walk'[w].parent = walk[w].parent /\ walk'[w].body = walk[w].body
        /\ SameLists(w) /\ walk'[w].state = "inside"
    BY <1>2 DEF Waits, Continues, SameLists
  <2>2. \A v, u \in N : v # u => walk'[v].queue \cap walk'[u].queue = {}
    BY <1>4 DEF StartsInside
  <2>3. \A v \in N : walk'[v].queue \subseteq Entries(graph, n)
    BY <1>4 DEF StartsInside
  <2> QED
    BY <1>4, <2>1, <2>2, <2>3 DEF Opens, StartsInside
<1> QED
  BY <1>5 DEF ActsInOne, StepOfWalk, StartsInside

\* An attempt that begins shifts the walk, opens its node, or fails at once.
LEMMA BeginActs == ASSUME IInv, NEW w \in WalkIds, Begin(w) PROVE ActsInOne(w)
<1> DEFINE n == walk[w].at
           kind == graph.kind[n]
           free == {v \in WalkIds : walk[v] = None}
           branch(n1) == NewWalk(walk[w].exec, "inside", w, Body(graph, n), {n1}, {n}, "next")
<1>1. /\ TypeOK /\ WalksOK /\ RestOK /\ walk[w] # None /\ walk[w] \in Walk
      /\ walk[w].state = "start" /\ n \in walk[w].body /\ UNCHANGED <<graph, cached>>
  BY TypeOKParts DEF WalksOK, Placed, IInv, Begin, In
<1>2. Inside(w) = {}
  BY <1>1, NobodyInside
<1>3. CASE /\ kind \in {"work", "condition"}
           /\ walk' = [walk EXCEPT ![w].state = "busy"] /\ UNCHANGED exec
  <2> DEFINE r == [walk[w] EXCEPT !.state = "busy"]
  <2>1. Continues(r, w) /\ r.state = "busy" /\ r.queue = walk[w].queue /\ r.at = walk[w].at
        /\ r.done = walk[w].done /\ r.skipped = walk[w].skipped
    BY <1>1 DEF Continues, Walk
  <2>2. walk' = [walk EXCEPT ![w] = r]
    BY <1>3
  <2> HIDE DEF r
  <2>3. Moved(w) /\ walk'[w] = r
    BY <1>1, <2>1, <2>2, OneMoves
  <2>4. Shifts(w)
    BY <1>1, <1>3, <2>1, <2>3 DEF Shifts, SameLists
  <2> QED
    BY <1>1, <1>3, <2>4 DEF ActsInOne, StepOfWalk
<1>4. CASE AttemptFails(w)
  BY <1>1, <1>4, AttemptActs
<1>5. ASSUME kind \notin {"work", "condition"},
             NEW ids \in SUBSET free, NEW entry \in [ids -> Entries(graph, n)],
             IF kind = "parallel"
             THEN /\ {entry[v] : v \in ids} = Entries(graph, n)
                  /\ Cardinality(ids) = Cardinality(Entries(graph, n))
             ELSE ids = {},
             walk' = [v \in WalkIds |->
                        IF v \in ids THEN branch(entry[v])
                        ELSE IF v = w THEN [walk[w] EXCEPT !.state = "inside", !.turn = 0]
                        ELSE walk[v]],
             UNCHANGED exec
      PROVE  ActsInOne(w)
  <2> DEFINE r == [walk[w] EXCEPT !.state = "inside", !.turn = 0]
             Q == [v \in ids |-> {entry[v]}]
  <2>1. Waits(w, r)
    BY <1>1, ZeroInBounds DEF Waits, Continues, Walk
  <2>2. w \notin ids /\ ids \in SUBSET WalkIds /\ \A v \in ids : walk[v] = None
    BY <1>1
  <2>3. \A v, u \in ids : v # u => entry[v] # entry[u]
    <3>1. CASE kind = "parallel"
      <4>1. IsFiniteSet(ids) /\ IsFiniteSet(Entries(graph, n))
        <5>1. IsFiniteSet(WalkIds)
          BY FS_Interval, EngineAssumption DEF EngineAssumption, WalkIds
        <5>2. Entries(graph, n) \subseteq Nodes
          BY <1>1, GraphNodes DEF RestOK
        <5> QED
          BY <2>2, <5>1, <5>2, NodesAssumption, FS_Subset DEF NodesAssumption
      <4>2. entry \in Surjection(ids, Entries(graph, n))
        BY <1>5, <3>1 DEF Surjection
      <4> QED
        BY <1>5, <3>1, <4>1, <4>2, FS_SurjSameCardinalityImpliesInj DEF Injection, IsInjective
    <3>2. CASE kind # "parallel"
      BY <1>5, <3>2
    <3> QED
      BY <3>1, <3>2
  <2>4. walk'[w] = r /\ (\A v \in WalkIds \ (ids \cup {w}) : walk'[v] = walk[v])
        /\ \A v \in ids : walk'[v] = NewWalk(walk[w].exec, "inside", w, Body(graph, n), Q[v],
                                             {n}, "next")
    BY <1>5, <2>2
  <2>5. \A v \in ids : Q[v] \subseteq Entries(graph, n)
    OBVIOUS
  <2>6. \A v, u \in ids : v # u => Q[v] \cap Q[u] = {}
    BY <2>3
  <2>7. kind # "parallel" => \A v, u \in ids : v = u
    BY <1>5
  <2> HIDE DEF r, Q
  <2>8. StartsInside(w, ids, Q)
    BY <1>2, <1>5, <2>2, <2>4, <2>5, <2>6, <2>7 DEF StartsInside
  <2> QED
    BY <1>1, <1>5, <2>1, <2>4, <2>8, OpensActs
<1> QED
  BY <1>3, <1>4, <1>5 DEF Begin

\* A parallel node whose branches have returned, or one was rejected, closes.
LEMMA JoinActs == ASSUME IInv, NEW w \in WalkIds, Join(w) PROVE ActsInOne(w)
<1>1. /\ TypeOK /\ walk[w] # None /\ walk[w].state = "inside" /\ graph' = graph
      /\ \/ AttemptFails(w)
         \/ AttemptSucceeds(w) /\ \A v \in Inside(w) : Returned(v)
  BY DEF IInv, Join, In, Returned
<1> QED
  BY <1>1, AttemptActs

\* An executor that ends closes its node.
LEMMA NodeEndsActs ==
  ASSUME IInv, NEW w \in WalkIds, NEW ok \in BOOLEAN, NodeEnds(w, ok)
  PROVE  ActsInOne(w)
<1>1. /\ TypeOK /\ WalksOK /\ walk[w] # None /\ walk[w].state = "busy" /\ graph' = graph
      /\ (AttemptSucceeds(w) \/ AttemptFails(w))
  BY TypeOKParts DEF IInv, NodeEnds, In
<1>2. Inside(w) = {}
  BY <1>1, NobodyInside
<1> QED
  BY <1>1, <1>2, AttemptActs

\* Only one walk at a time goes through the body of a loop.
InOneLoop(w, v) ==
  /\ walk[w] # None /\ walk[v] # None /\ walk[w].parent = walk[v].parent
  /\ walk[w].parent # None /\ graph.kind[walk[walk[w].parent].at] # "parallel"

OneIteration == \A w, v \in WalkIds : InOneLoop(w, v) => w = v

\* An iteration that has returned opens the next one, or closes the loop.
LEMMA IterateActs ==
  ASSUME IInv, OneIteration, NEW w \in WalkIds, NEW goes \in BOOLEAN, Iterate(w, goes)
  PROVE  ActsInOne(w)
<1> DEFINE n == walk[w].at
           ids == IF Inside(w) = {} THEN FirstFree ELSE Inside(w)
           again(child) == NewWalk(walk[w].exec, "inside", w, Body(graph, n),
                                   Entries(graph, n), {n}, "next")
<1>1. /\ TypeOK /\ WalksOK /\ RestOK /\ walk[w] # None /\ walk[w] \in Walk
      /\ walk[w].state = "inside" /\ n \in walk[w].body /\ UNCHANGED <<graph, cached>>
      /\ graph.kind[n] \in {"loop", "while"} /\ \A v \in Inside(w) : Returned(v)
  BY TypeOKParts DEF WalksOK, Placed, IInv, Iterate, In
<1>2. CASE AttemptFails(w) \/ AttemptSucceeds(w)
  BY <1>1, <1>2, AttemptActs
<1>3. ASSUME NEW child \in ids, walk[w].turn # Turns,
             walk' = [walk EXCEPT ![w].turn = @ + 1, ![child] = again(child)],
             UNCHANGED exec
      PROVE  ActsInOne(w)
  <2> DEFINE r == [walk[w] EXCEPT !.turn = @ + 1]
             N == {child}
             Q == [v \in N |-> Entries(graph, n)]
  <2>1. r.turn \in 0..Turns
    BY <1>1, <1>3, EngineAssumption DEF EngineAssumption, Walk
  <2>2. Waits(w, r) /\ r \in Walk
    BY <1>1, <2>1 DEF Waits, Continues, Walk
  <2>3. w # None
    BY NoneAssumption DEF NoneAssumption
  <2>4. /\ child \in WalkIds /\ child # w
        /\ walk[child] = None \/ (child \in Inside(w) /\ Returned(child))
    <3>1. CASE child \in Inside(w)
      BY <1>1, <2>3, <3>1 DEF Inside, WalksOK, Nested
    <3>2. CASE child \in FirstFree
      BY <1>1, <3>2 DEF FirstFree
    <3> QED
      BY <3>1, <3>2
  <2>5. Inside(w) \subseteq N
    BY <1>1, <2>3, <2>4 DEF OneIteration, InOneLoop, Inside
  <2>6. walk'[w] = r /\ (\A v \in WalkIds \ (N \cup {w}) : walk'[v] = walk[v])
        /\ walk'[child] = again(child)
    BY <1>1, <1>3, <2>4 DEF WalksOK, Walk
  <2> HIDE DEF r
  <2>7. StartsInside(w, N, Q)
    BY <1>1, <2>4, <2>5, <2>6 DEF StartsInside
  <2> HIDE DEF N, Q
  <2> QED
    BY <1>1, <1>3, <2>2, <2>6, <2>7, OpensActs
<1> QED
  BY <1>2, <1>3 DEF Iterate

\* Only nodes without a state are skipped.
LEMMA SkippedAreFresh ==
  ASSUME NEW g \in Workflows, NEW n, NEW result, NEW seen, NEW skipped, NEW completed
  PROVE  SkippedBy(g, n, result, seen, skipped, completed) \cap seen = {}
<1> DEFINE active == ActiveTargets(g, n, result)
           shut == skipped \cup seen \cup active
           kept == {m \in g.nodes : \E e \in Into(g, m) : e.from \in active \cup completed}
           R == g.nodes \ shut
<1>1. \A e \in g.edges : e.to \in g.nodes
  BY EngineAssumption DEF EngineAssumption, IsWorkflow, Edge
<1>2. Targets(OutOf(g, n)) \ shut \subseteq R
  BY <1>1 DEF Targets, OutOf
<1>3. \A e \in Control(g) : e.from \in R => e.to \in R \cup (shut \cup kept)
  BY <1>1 DEF Control
<1>4. Reach(g, Control(g), Targets(OutOf(g, n)) \ shut, shut \cup kept) \subseteq R
  BY <1>2, <1>3 DEF Reach
<1> QED
  BY <1>4 DEF SkippedBy

\* An edge leads to what a node makes ready inside a body.
LEMMA ActiveEdge ==
  ASSUME NEW g, NEW n, NEW result, NEW m \in ActiveTargetsWithin(g, n, result)
  PROVE  \E d \in Into(g, m) : d.from = n
BY DEF ActiveTargetsWithin, ChosenEdges, Targets, OutOf, Into, Control

\* A walk behind an ended node advances, or halts when stopped.
LEMMA OnwardActs ==
  ASSUME IInv, NEW w \in WalkIds, NEW result \in BOOLEAN, Onward(w, result)
  PROVE  ActsInOne(w)
<1> DEFINE e == walk[w].exec
           n == walk[w].at
<1>1. /\ WalksOK /\ RestOK /\ walk[w] # None /\ walk[w] \in Walk /\ walk[w].state = "ended"
      /\ n \in walk[w].body /\ UNCHANGED <<graph, cached>>
  BY TypeOKParts DEF WalksOK, Placed, IInv, Onward, In
<1>2. e \in Executions /\ n \in Nodes
  BY <1>1 DEF Walk
<1>3. CASE Stopped(e)
  <2> DEFINE r == [walk[w] EXCEPT !.state = "over"]
  <2>1. Continues(r, w) /\ r.state = "over" /\ r.queue = walk[w].queue /\ r.at = walk[w].at
        /\ r.done = walk[w].done /\ r.skipped = walk[w].skipped
    BY <1>1 DEF Continues, Walk
  <2>2. walk' = [walk EXCEPT ![w] = r] /\ exec' = exec
    BY <1>3 DEF Onward
  <2> HIDE DEF r
  <2>3. Moved(w) /\ walk'[w] = r
    BY <1>1, <2>1, <2>2, OneMoves
  <2>4. Halts(w)
    BY <1>1, <1>3, <2>1, <2>2, <2>3 DEF Halts, SameLists
  <2> QED
    BY <1>1, <2>2, <2>4 DEF ActsInOne, StepOfWalk
<1>4. ASSUME NEW done \in SUBSET Nodes, NEW skipped \in SUBSET Nodes,
             NEW queue \in SUBSET Nodes, NEW hit \in SUBSET Nodes,
             walk' = [walk EXCEPT ![w].done = done, ![w].skipped = skipped,
                                  ![w].queue = queue, ![w].state = "next", ![w].at = None],
             exec' = [exec EXCEPT ![e].nodes =
                        [m \in Nodes |-> IF m \in hit THEN "skipped" ELSE @[m]]]
      PROVE  /\ Moved(w) /\ walk'[w].done = done /\ walk'[w].skipped = skipped
             /\ walk'[w].queue = queue /\ walk'[w].state = "next" /\ walk'[w].at = None
             /\ exec'[e].status = exec[e].status /\ exec'[e].mixed = exec[e].mixed
             /\ \A m \in Nodes : exec'[e].nodes[m] =
                  IF m \in hit THEN "skipped" ELSE exec[e].nodes[m]
             /\ \A d \in Executions : d # e => exec'[d] = exec[d]
  <2> DEFINE r == [walk[w] EXCEPT !.done = done, !.skipped = skipped, !.queue = queue,
                                  !.state = "next", !.at = None]
  <2>1. Continues(r, w) /\ r.done = done /\ r.skipped = skipped /\ r.queue = queue
        /\ r.state = "next" /\ r.at = None
    BY <1>1 DEF Continues, Walk
  <2>2. walk' = [walk EXCEPT ![w] = r]
    <3>1. r \in Walk /\ walk'[w] = r /\ DOMAIN walk' = WalkIds
          /\ \A v \in WalkIds : v # w => walk'[v] = walk[v]
      BY <1>1, <1>4, <2>1 DEF WalksOK, Continues, Walk
    <3> QED
      BY <1>1, <1>4, <3>1 DEF WalksOK
  <2> HIDE DEF r
  <2>3. Moved(w) /\ walk'[w] = r
    BY <1>1, <2>1, <2>2, OneMoves
  <2>4. /\ exec'[e].status = exec[e].status /\ exec'[e].mixed = exec[e].mixed
        /\ \A m \in Nodes : exec'[e].nodes[m] =
             IF m \in hit THEN "skipped" ELSE exec[e].nodes[m]
        /\ \A d \in Executions : d # e => exec'[d] = exec[d]
    BY <1>1, <1>2, <1>4 DEF RestOK, Execution
  <2> QED
    BY <2>1, <2>3, <2>4
<1>5. /\ graph.nodes \subseteq Nodes /\ Body(graph, n) \subseteq Nodes
      /\ ActiveTargetsWithin(graph, n, result) \cap walk[w].body \subseteq Nodes
  BY <1>1, GraphNodes DEF RestOK, Walk
<1>6. \A seen, skipped, completed :
        /\ SkippedBy(graph, n, result, seen, skipped, completed) \subseteq Nodes
        /\ SkippedBy(graph, n, result, seen, skipped, completed) \cap seen = {}
  BY <1>1, <1>5, SkippedNodes, SkippedAreFresh DEF RestOK
<1> DEFINE whole == walk[w].role # "inside"
           done == walk[w].done \cup {n} \cup (IF whole THEN Body(graph, n) ELSE {})
           seen == {m \in Nodes : exec[e].nodes[m] # "none"}
           hit == IF whole /\ graph.kind[n] = "condition"
                  THEN SkippedBy(graph, n, result, seen, walk[w].skipped, done) ELSE {}
           skipped == walk[w].skipped \cup hit
           next == IF whole
                   THEN {m \in graph.nodes : DependenciesSatisfied(graph, m, done \cup skipped)}
                          \ (done \cup skipped)
                   ELSE {m \in ActiveTargetsWithin(graph, n, result) \cap walk[w].body :
                           DependenciesSatisfiedWithin(graph, m, done, walk[w].body)} \ done
           queue == (IF whole THEN {} ELSE walk[w].queue) \cup next
<1>7. done \in SUBSET Nodes /\ skipped \in SUBSET Nodes /\ queue \in SUBSET Nodes
      /\ hit \in SUBSET Nodes /\ hit \cap seen = {}
  BY <1>1, <1>2, <1>5, <1>6 DEF Walk
<1>8. CASE ~Stopped(e)
  <2>1. /\ walk' = [walk EXCEPT ![w].done = done, ![w].skipped = skipped,
                                ![w].queue = queue, ![w].state = "next", ![w].at = None]
        /\ exec' = [exec EXCEPT ![e].nodes =
                      [m \in Nodes |-> IF m \in hit THEN "skipped" ELSE @[m]]]
    BY <1>8 DEF Onward
  <2>2. ~whole => \A m \in queue \ walk[w].queue :
          /\ m \in walk[w].body /\ \E d \in Into(graph, m) : d.from = n
          /\ \A d \in Into(graph, m) : d.from \in walk[w].body => d.from \in done
    <3> SUFFICES ASSUME ~whole, NEW m \in queue \ walk[w].queue
                 PROVE  /\ m \in walk[w].body /\ \E d \in Into(graph, m) : d.from = n
                        /\ \A d \in Into(graph, m) : d.from \in walk[w].body => d.from \in done
      OBVIOUS
    <3>1. m \in ActiveTargetsWithin(graph, n, result) /\ m \in walk[w].body
          /\ DependenciesSatisfiedWithin(graph, m, done, walk[w].body)
      OBVIOUS
    <3> QED
      BY <3>1, ActiveEdge DEF DependenciesSatisfiedWithin
  <2>3. ~whole => hit = {} /\ done = walk[w].done \cup {n}
    OBVIOUS
  <2>4. whole => /\ done = walk[w].done \cup {n} \cup Body(graph, n)
                 /\ queue = {m \in graph.nodes :
                               DependenciesSatisfied(graph, m, done \cup skipped)}
                              \ (done \cup skipped)
    OBVIOUS
  <2>5. \A m \in Nodes \cap hit : exec[e].nodes[m] = "none"
    BY <1>7
  <2>6. skipped = walk[w].skipped \cup hit
    OBVIOUS
  <2> HIDE DEF done, skipped, queue, hit
  <2>7. /\ Moved(w) /\ walk'[w].done = done /\ walk'[w].skipped = skipped
        /\ walk'[w].queue = queue /\ walk'[w].state = "next" /\ walk'[w].at = None
        /\ exec'[e].status = exec[e].status /\ exec'[e].mixed = exec[e].mixed
        /\ \A m \in Nodes : exec'[e].nodes[m] =
             IF m \in hit THEN "skipped" ELSE exec[e].nodes[m]
        /\ \A d \in Executions : d # e => exec'[d] = exec[d]
    BY <1>4, <1>7, <2>1
  <2>8. Advances(w, hit)
    <3>1. CASE whole
      BY <1>1, <2>4, <2>5, <2>6, <2>7, <3>1 DEF Advances
    <3>2. CASE ~whole
      BY <1>1, <2>2, <2>3, <2>5, <2>6, <2>7, <3>2 DEF Advances
    <3> QED
      BY <3>1, <3>2
  <2> QED
    BY <1>1, <1>7, <2>7, <2>8 DEF ActsInOne, StepOfWalk
<1> QED
  BY <1>3, <1>8

\* A branch that is given up is freed.
LEMMA VanishActs == ASSUME IInv, NEW w \in WalkIds, Vanish(w) PROVE ActsInOne(w)
<1>1. /\ WalksOK /\ Returned(w) /\ walk[w].role = "inside" /\ walk[w].parent = None
      /\ walk' = [walk EXCEPT ![w] = None] /\ UNCHANGED <<graph, exec, cached>>
  BY TypeOKParts DEF IInv, Vanish
<1>2. Frees(w)
  BY <1>1 DEF Frees, WalksOK
<1> QED
  BY <1>1, <1>2 DEF ActsInOne, StepOfWalk

\* A run that returns is freed, and sets the status of its execution.
LEMMA RunEndsActs == ASSUME IInv, NEW w \in WalkIds, RunEnds(w) PROVE ActsInOne(w)
<1> DEFINE e == walk[w].exec
           status == EndStatus(w)
           x == [exec[e] EXCEPT !.status = status, !.row = status,
                    !.error = IF Broke(w) THEN "other" ELSE exec[e].error,
                    !.timer = exec[e].timer /\ walk[w].role # "execute",
                    !.active = exec[e].active /\ status = "paused"]
<1>1. /\ WalksOK /\ RestOK /\ Returned(w) /\ walk[w] # None /\ walk[w] \in Walk
      /\ walk[w].role # "inside" /\ walk' = [walk EXCEPT ![w] = None]
      /\ graph' = graph /\ exec' = [exec EXCEPT ![e] = x]
  BY TypeOKParts DEF IInv, RunEnds, Returned, In, WalksOK
<1>2. e \in Executions
  BY <1>1 DEF Walk
<1>3. exec[e] \in Execution
  BY <1>1, <1>2 DEF RestOK
<1>4. x.status = status /\ x.nodes = exec[e].nodes /\ x.mixed = exec[e].mixed
  BY <1>3 DEF Execution
<1> HIDE DEF x
<1>5. exec'[e] = x /\ \A d \in Executions : d # e => exec'[d] = exec[d]
  BY <1>1, <1>2 DEF RestOK
<1>6. walk[w].parent = None
  BY <1>1 DEF WalksOK, Nested
<1>7. Frees(w)
  BY <1>1, <1>4, <1>5, <1>6 DEF Frees, WalksOK
<1> QED
  BY <1>1, <1>4, <1>5, <1>7 DEF ActsInOne, StepOfWalk

-----------------------------------------------------------------------------
(* What is done from outside, and every step *)

\* Walks begin that are inside no other; the rest goes on.
RunStarts ==
  \A v \in WalkIds :
    walk'[v] # walk[v] => walk[v] = None /\ walk'[v] # None /\ walk'[v].parent = None

\* Two walks over the same nodes.
Clutters(e) == exec'[e].mixed /\ exec'[e].status = "running"

FromOutside ==
  /\ graph' = graph /\ RunStarts
  /\ \A e \in Executions :
       Rests(e) \/ Emptied(e) \/ Clutters(e) \/ \E w \in WalkIds : Begins(e, w)

\* A run of runWorkflow begins in execution e.
LEMMA RunActs ==
  ASSUME IInv, NEW e \in Executions, NEW role \in {"execute", "resume"}, Run(e, role),
         graph' = graph,
         exec'[e].status = "running", exec'[e].mixed \/ WalksOf(e) = {},
         \A d \in Executions : d # e => exec'[d] = exec[d]
  PROVE  FromOutside
<1> DEFINE s == IF Valid(graph) THEN "next" ELSE "broken"
<1>1. /\ WalksOK /\ graph \in Workflows /\ graph.nodes \in SUBSET Nodes
      /\ StartNodes(graph) \in SUBSET Nodes /\ s \in {"next", "broken"}
  BY TypeOKParts, GraphNodes DEF IInv, RestOK
<1>2. PICK w \in FirstFree :
        walk' = [walk EXCEPT ![w] =
                   NewWalk(e, role, None, graph.nodes, StartNodes(graph), {}, s)]
  BY DEF Run
<1>3. w \in WalkIds /\ walk[w] = None
  BY DEF FirstFree
<1>4. /\ walk'[w] # None /\ walk'[w].exec = e /\ walk'[w].role # "inside"
      /\ walk'[w].parent = None /\ walk'[w].body = graph.nodes
      /\ walk'[w].queue = StartNodes(graph) /\ walk'[w].done = {} /\ walk'[w].skipped = {}
      /\ walk'[w].at = None /\ walk'[w].state = s
  <2>1. PICK B \in SUBSET Nodes : B = graph.nodes
    BY <1>1
  <2>2. PICK q \in SUBSET Nodes : q = StartNodes(graph)
    BY <1>1
  <2> HIDE DEF s
  <2>3. walk'[w] = NewWalk(e, role, None, B, q, {}, s)
    BY <1>1, <1>2, <1>3, <2>1, <2>2 DEF WalksOK
  <2>4. walk'[w] \in Walk
    BY <1>1, <2>3, ZeroInBounds DEF NewWalk, Walk
  <2>5. walk'[w] # None
    BY <2>4, NoneAssumption DEF NoneAssumption
  <2> QED
    BY <2>1, <2>2, <2>3, <2>5 DEF NewWalk
<1>5. \A v \in WalkIds : v # w => walk'[v] = walk[v]
  BY <1>1, <1>2 DEF WalksOK
<1>6. RunStarts
  BY <1>3, <1>4, <1>5 DEF RunStarts
<1>7. ASSUME NEW d \in Executions, d # e
      PROVE  Rests(d)
  BY <1>3, <1>4, <1>5, <1>7 DEF Rests, WalksOf
<1>8. CASE exec'[e].mixed
  BY <1>6, <1>7, <1>8 DEF FromOutside, Clutters
<1>9. CASE WalksOf(e) = {}
  <2>1. WalksOf(e)' = {w}
    BY <1>3, <1>4, <1>5, <1>9 DEF WalksOf
  <2>2. Begins(e, w)
    BY <1>3, <1>4, <2>1 DEF Begins
  <2> QED
    BY <1>3, <1>6, <1>7, <2>2 DEF FromOutside
<1> QED
  BY <1>8, <1>9

\* Only what an execution is known by changes.
LEMMA CallActs ==
  ASSUME UNCHANGED <<graph, walk>>, NEW e \in Executions,
         /\ exec'[e].nodes = exec[e].nodes /\ exec'[e].mixed = exec[e].mixed
         /\ exec'[e].status \in {exec[e].status, "paused", "failed"},
         \A d \in Executions : d # e => exec'[d] = exec[d]
  PROVE  FromOutside
<1>1. \A d \in Executions : Rests(d)
  BY DEF Rests, WalksOf
<1> QED
  BY <1>1 DEF FromOutside, RunStarts

\* A new execution begins in the place of none.
LEMMA ExecuteActs ==
  ASSUME IInv, NoWalkUnknown, NEW e \in Executions, NEW timed \in BOOLEAN, Execute(e, timed)
  PROVE  FromOutside
<1> DEFINE x == [NoExecution EXCEPT !.status = "running", !.active = TRUE, !.timer = timed]
<1>1. /\ RestOK /\ Run(e, "execute") /\ graph' = graph /\ exec' = [exec EXCEPT ![e] = x]
      /\ exec[e].status = "none"
  BY TypeOKParts DEF IInv, Execute
<1>2. x.status = "running"
  BY DEF NoExecution
<1> HIDE DEF x
<1>3. exec'[e] = x /\ \A d \in Executions : d # e => exec'[d] = exec[d]
  BY <1>1 DEF RestOK
<1>4. WalksOf(e) = {}
  BY <1>1 DEF NoWalkUnknown
<1> QED
  BY <1>1, <1>2, <1>3, <1>4, RunActs

\* A resumed execution begins a run beside none, or becomes mixed.
LEMMA ResumeActs ==
  ASSUME IInv, NEW e \in Executions, Resume(e)
  PROVE  FromOutside
<1>1. RestOK /\ graph' = graph /\ exec[e] \in Execution
  BY TypeOKParts DEF IInv, RestOK, Resume
<1>2. CASE ~cached
  <2>1. /\ exec' = [exec EXCEPT ![e].status = "failed", ![e].error = "lost", ![e].active = FALSE]
        /\ walk' = walk
    BY <1>2 DEF Resume
  <2>2. /\ exec'[e].nodes = exec[e].nodes /\ exec'[e].mixed = exec[e].mixed
        /\ exec'[e].status = "failed" /\ \A d \in Executions : d # e => exec'[d] = exec[d]
    BY <1>1, <2>1 DEF RestOK, Execution
  <2> QED
    BY <1>1, <2>1, <2>2, CallActs
<1>3. CASE cached
  <2> DEFINE m == exec[e].mixed \/ WalksOf(e) # {}
  <2>1. exec' = [exec EXCEPT ![e].status = "running", ![e].mixed = m] /\ Run(e, "resume")
    BY <1>3 DEF Resume
  <2>2. m \in BOOLEAN
    BY <1>1 DEF Execution
  <2>3. ~m => WalksOf(e) = {}
    OBVIOUS
  <2> HIDE DEF m
  <2>4. /\ exec'[e].status = "running" /\ exec'[e].mixed = m
        /\ \A d \in Executions : d # e => exec'[d] = exec[d]
    BY <1>1, <2>1, <2>2 DEF RestOK, Execution
  <2>5. exec'[e].mixed \/ WalksOf(e) = {}
    BY <2>3, <2>4
  <2> QED
    BY <1>1, <2>1, <2>4, <2>5, RunActs
<1> QED
  BY <1>2, <1>3

\* The other calls of the user and the timer move no walk.
LEMMA UserActs ==
  ASSUME IInv, NEW e \in Executions, TimesOut(e) \/ Cancel(e) \/ Pause(e) \/ Forget(e)
  PROVE  FromOutside
<1>1. RestOK /\ UNCHANGED <<graph, walk>> /\ exec[e] \in Execution
  BY TypeOKParts DEF IInv, RestOK, TimesOut, Cancel, Pause, Forget
<1>2. CASE TimesOut(e)
  <2> DEFINE no == FALSE
             x == IF exec[e].status \in {"running", "paused"}
                  THEN [exec[e] EXCEPT !.status = "failed", !.error = "timeout", !.timer = no]
                  ELSE [exec[e] EXCEPT !.timer = no]
  <2>1. exec' = [exec EXCEPT ![e] = x]
    BY <1>2 DEF TimesOut
  <2>2. x.nodes = exec[e].nodes /\ x.mixed = exec[e].mixed
        /\ x.status \in {exec[e].status, "failed"}
    <3> HIDE DEF no
    <3>1. CASE exec[e].status \in {"running", "paused"}
      BY <1>1, <3>1 DEF Execution
    <3>2. CASE exec[e].status \notin {"running", "paused"}
      BY <1>1, <3>2 DEF Execution
    <3> QED
      BY <3>1, <3>2
  <2> HIDE DEF x
  <2>3. exec'[e] = x /\ \A d \in Executions : d # e => exec'[d] = exec[d]
    BY <1>1, <2>1 DEF RestOK
  <2> QED
    BY <1>1, <2>2, <2>3, CallActs
<1>3. CASE Cancel(e) \/ Pause(e)
  <2>1. /\ exec'[e].nodes = exec[e].nodes /\ exec'[e].mixed = exec[e].mixed
        /\ exec'[e].status \in {"paused", "failed"}
        /\ \A d \in Executions : d # e => exec'[d] = exec[d]
    BY <1>1, <1>3 DEF RestOK, Execution, Cancel, Pause
  <2> QED
    BY <1>1, <2>1, CallActs
<1>4. CASE Forget(e)
  <2>1. /\ exec'[e].status = "none" /\ WalksOf(e) = {}
        /\ \A d \in Executions : d # e => exec'[d] = exec[d]
    BY <1>1, <1>4 DEF RestOK, Forget, NoExecution
  <2>2. WalksOf(e)' = {} /\ \A d \in Executions : d # e => Rests(d)
    BY <1>1, <2>1 DEF Rests, WalksOf
  <2> QED
    BY <1>1, <2>1, <2>2 DEF FromOutside, RunStarts, Emptied
<1> QED
  BY <1>2, <1>3, <1>4

\* Walks outside the execution of w stay, and no walk comes to another execution.
LEMMA OthersStay ==
  ASSUME WalksOK, NEW w \in WalkIds, walk[w] # None, StepOfWalk(w), NEW v \in WalkIds
  PROVE  \/ walk'[v] = walk[v]
         \/ /\ walk[v] # None => walk[v].exec = walk[w].exec
            /\ walk'[v] # None => walk'[v].exec = walk[w].exec
<1>1. w # None
  BY NoneAssumption DEF NoneAssumption
<1>2. v \in Inside(w) => walk[v] # None /\ walk[v].exec = walk[w].exec
  BY <1>1 DEF WalksOK, Nested, Inside
<1>3. CASE Moved(w)
  BY <1>3 DEF Moved
<1>4. CASE Closes(w)
  BY <1>2, <1>4 DEF Closes
<1>5. ASSUME NEW N \in SUBSET WalkIds, Opens(w, N)
      PROVE  \/ walk'[v] = walk[v]
             \/ /\ walk[v] # None => walk[v].exec = walk[w].exec
                /\ walk'[v] # None => walk'[v].exec = walk[w].exec
  BY <1>2, <1>5 DEF Opens
<1>6. CASE Frees(w)
  BY <1>6 DEF Frees
<1> QED
  BY <1>3, <1>4, <1>5, <1>6 DEF StepOfWalk, Halts, Shifts, Picks, Advances

\* A step of a walk of another execution lets this one rest.
LEMMA RestsAside ==
  ASSUME WalksOK, NEW w \in WalkIds, walk[w] # None, ActsInOne(w), NEW d \in Executions,
         d # walk[w].exec
  PROVE  Rests(d)
<1>1. StepOfWalk(w) /\ exec'[d] = exec[d]
  BY DEF ActsInOne
<1>2. \A v \in WalkIds : \/ walk'[v] = walk[v]
                         \/ /\ walk[v] # None => walk[v].exec = walk[w].exec
                            /\ walk'[v] # None => walk'[v].exec = walk[w].exec
  BY <1>1, OthersStay
<1> QED
  BY <1>1, <1>2 DEF Rests, WalksOf

\* Every step.
LEMMA EveryStep ==
  ASSUME IInv, NoWalkUnknown, OneIteration, [Next]_vars
  PROVE  FromOutside \/ \E w \in WalkIds : walk[w] # None /\ ActsInOne(w)
<1>1. CASE UNCHANGED vars
  BY <1>1 DEF vars, FromOutside, RunStarts, Rests, WalksOf
<1>2. ASSUME NEW w \in WalkIds, Step(w)
      PROVE  walk[w] # None /\ ActsInOne(w)
  <2>1. walk[w] # None
    BY <1>2 DEF Step, Take, Begin, Join, RunEnds, Vanish, Iterate, Onward, In, Returned
  <2> QED
    BY <1>2, <2>1, TakeActs, BeginActs, JoinActs, RunEndsActs, VanishActs, IterateActs,
       OnwardActs DEF Step
<1>3. ASSUME NEW w \in WalkIds, RetryDue(w) \/ \E ok \in BOOLEAN : NodeEnds(w, ok)
      PROVE  walk[w] # None /\ ActsInOne(w)
  <2>1. walk[w] # None
    BY <1>3 DEF RetryDue, NodeEnds, In
  <2> QED
    BY <1>3, <2>1, RetryActs, NodeEndsActs
<1>4. ASSUME NEW e \in Executions,
             \/ \E timed \in BOOLEAN : Execute(e, timed)
             \/ TimesOut(e) \/ Cancel(e) \/ Pause(e) \/ Resume(e) \/ Forget(e)
      PROVE  FromOutside
  BY <1>4, ExecuteActs, ResumeActs, UserActs
<1> QED
  BY <1>1, <1>2, <1>3, <1>4 DEF Next, Chain

\* A walk inside another one has been there, or has just begun.
LEMMA InsideBefore ==
  ASSUME WalksOK, WalksOK', NEW w \in WalkIds, walk[w] # None, StepOfWalk(w),
         NEW v \in WalkIds, walk'[v] # None, walk'[v].parent # None
  PROVE  LET p == walk'[v].parent
         IN /\ p \in WalkIds /\ walk[p] # None /\ walk'[p].at = walk[p].at
            /\ \/ walk[v] # None /\ walk[v].parent = p
               \/ \E N \in SUBSET WalkIds : Opens(w, N) /\ v \in N /\ p = w
<1> DEFINE p == walk'[v].parent
<1>1. /\ p \in WalkIds /\ walk'[p] # None /\ walk'[p].state = "inside" /\ p # v
  BY DEF WalksOK, Nested, Walk
<1>2. CASE Halts(w) \/ Shifts(w) \/ (\E n \in Nodes : Picks(w, n))
           \/ (\E hit \in SUBSET Nodes : Advances(w, hit))
  <2>1. Moved(w) /\ walk'[w].state # "inside"
    BY <1>2 DEF Halts, Shifts, Picks, Advances
  <2> QED
    BY <1>1, <2>1 DEF Moved
<1>3. CASE Closes(w)
  BY <1>1, <1>3 DEF Closes, Inside
<1>4. ASSUME NEW N \in SUBSET WalkIds, Opens(w, N)
      PROVE  /\ walk[p] # None /\ walk'[p].at = walk[p].at
             /\ (walk[v] # None /\ walk[v].parent = p) \/ (v \in N /\ p = w)
  <2>1. p \notin N
    BY <1>1, <1>4 DEF Opens
  <2>2. walk[p] # None /\ walk'[p].at = walk[p].at
    BY <1>1, <1>4, <2>1 DEF Opens, SameLists
  <2>3. CASE v \in N
    BY <1>4, <2>2, <2>3 DEF Opens
  <2>4. CASE v \notin N
    BY <1>4, <2>2, <2>4 DEF Opens
  <2> QED
    BY <2>2, <2>3, <2>4
<1>5. CASE Frees(w)
  BY <1>1, <1>5 DEF Frees
<1> QED
  BY <1>1, <1>2, <1>3, <1>4, <1>5 DEF StepOfWalk

\* A loop keeps to one iteration at a time.
LEMMA OneIterationStays ==
  ASSUME IInv, IInv', NoWalkUnknown, OneIteration, [Next]_vars
  PROVE  OneIteration'
<1>1. WalksOK /\ WalksOK'
  BY DEF IInv, TypeOK, Typed, WalksOK
<1>2. CASE FromOutside
  <2> SUFFICES ASSUME NEW v \in WalkIds, NEW u \in WalkIds, InOneLoop(v, u)'
               PROVE  v = u
    BY DEF OneIteration
  <2>0. /\ walk'[v] # None /\ walk'[u] # None /\ walk'[v].parent = walk'[u].parent
        /\ walk'[v].parent # None /\ graph'.kind[walk'[walk'[v].parent].at] # "parallel"
    BY DEF InOneLoop
  <2>1. walk[v] = walk'[v] /\ walk[u] = walk'[u] /\ graph' = graph
    BY <1>2, <2>0 DEF FromOutside, RunStarts
  <2>2. walk[walk[v].parent] # None /\ walk[v].parent \in WalkIds
    BY <1>1, <2>0, <2>1 DEF WalksOK, Nested, Walk
  <2>3. walk'[walk[v].parent] = walk[walk[v].parent]
    BY <1>2, <2>2 DEF FromOutside, RunStarts
  <2> QED
    BY <2>0, <2>1, <2>3 DEF OneIteration, InOneLoop
<1>3. ASSUME NEW w \in WalkIds, walk[w] # None, ActsInOne(w)
      PROVE  OneIteration'
  <2> SUFFICES ASSUME NEW v \in WalkIds, NEW u \in WalkIds, InOneLoop(v, u)'
               PROVE  v = u
    BY DEF OneIteration
  <2>0. /\ walk'[v] # None /\ walk'[u] # None /\ walk'[v].parent = walk'[u].parent
        /\ walk'[v].parent # None /\ graph'.kind[walk'[walk'[v].parent].at] # "parallel"
    BY DEF InOneLoop
  <2> DEFINE p == walk'[v].parent
  <2>1. StepOfWalk(w) /\ graph' = graph
    BY <1>3 DEF ActsInOne
  <2>2. p \in WalkIds /\ walk[p] # None /\ walk'[p].at = walk[p].at
    BY <1>1, <1>3, <2>0, <2>1, InsideBefore
  <2>3. \/ walk[v] # None /\ walk[v].parent = p
        \/ \E N \in SUBSET WalkIds : Opens(w, N) /\ v \in N /\ p = w
    BY <1>1, <1>3, <2>0, <2>1, InsideBefore
  <2>4. \/ walk[u] # None /\ walk[u].parent = p
        \/ \E N \in SUBSET WalkIds : Opens(w, N) /\ u \in N /\ p = w
    BY <1>1, <1>3, <2>0, <2>1, InsideBefore
  <2>5. ASSUME NEW N \in SUBSET WalkIds, Opens(w, N), p = w, v \in N \/ u \in N
        PROVE  v = u
    <3>1. \A x \in WalkIds : walk[x] # None /\ walk[x].parent = w => x \in N
      BY <2>5 DEF Opens, Inside
    <3>2. \A x \in WalkIds \ (N \cup {w}) : walk'[x] = walk[x]
      BY <2>5 DEF Opens
    <3>3. v # w /\ u # w
      BY <1>1, <2>0, <2>5 DEF WalksOK, Nested
    <3>4. v \in N /\ u \in N
      BY <2>0, <2>5, <3>1, <3>2, <3>3
    <3>5. graph.kind[walk[w].at] # "parallel"
      BY <2>0, <2>1, <2>2, <2>5
    <3> QED
      BY <2>5, <3>4, <3>5 DEF Opens
  <2>6. CASE walk[v] # None /\ walk[v].parent = p /\ walk[u] # None /\ walk[u].parent = p
    BY <2>0, <2>1, <2>2, <2>6 DEF OneIteration, InOneLoop
  <2> QED
    BY <2>3, <2>4, <2>5, <2>6
<1> QED
  BY <1>2, <1>3, EveryStep

\* A walk keeps belonging to an execution that is known.
LEMMA NoWalkUnknownStays ==
  ASSUME IInv, IInv', NoWalkUnknown, OneIteration, [Next]_vars
  PROVE  NoWalkUnknown'
<1> SUFFICES ASSUME NEW e \in Executions, exec'[e].status = "none"
             PROVE  WalksOf(e)' = {}
  BY DEF NoWalkUnknown
<1>1. WalksOK /\ RestOK
  BY TypeOKParts DEF IInv
<1>2. CASE Rests(e)
  BY <1>2 DEF Rests, NoWalkUnknown
<1>3. CASE FromOutside
  BY <1>2, <1>3 DEF FromOutside, Emptied, Clutters, Begins
<1>4. ASSUME NEW w \in WalkIds, walk[w] # None, ActsInOne(w)
      PROVE  WalksOf(e)' = {}
  <2>1. CASE walk[w].exec # e
    BY <1>1, <1>2, <1>4, <2>1, RestsAside
  <2>2. CASE walk[w].exec = e
    <3>1. exec[e].status # "none"
      BY <1>4, <2>2 DEF NoWalkUnknown, WalksOf
    <3>2. exec'[e].status = exec[e].status \/ exec'[e].status = EndStatus(w)
      <4>1. CASE Halts(w) \/ Shifts(w) \/ Closes(w) \/ Frees(w)
        BY <2>2, <4>1 DEF Halts, Shifts, Closes, Frees
      <4>2. ASSUME NEW N \in SUBSET WalkIds, Opens(w, N)
            PROVE  exec'[e].status = exec[e].status
        BY <4>2 DEF Opens
      <4>3. ASSUME NEW hit \in SUBSET Nodes, Advances(w, hit)
            PROVE  exec'[e].status = exec[e].status
        BY <2>2, <4>3 DEF Advances
      <4>4. ASSUME NEW n \in Nodes, Picks(w, n)
            PROVE  exec'[e].status = exec[e].status
        BY <2>2, <4>4 DEF Picks
      <4> QED
        BY <1>4, <4>1, <4>2, <4>3, <4>4 DEF ActsInOne, StepOfWalk
    <3>3. EndStatus(w) # "none"
      BY <2>2, <3>1 DEF EndStatus
    <3> QED
      BY <3>1, <3>2, <3>3
  <2> QED
    BY <2>1, <2>2
<1> QED
  BY <1>3, <1>4, EveryStep

\* What a step does to an execution that is not mixed after it.
LEMMA EffectOn ==
  ASSUME IInv, NoWalkUnknown, OneIteration, [Next]_vars, NEW e \in Executions, ~exec'[e].mixed
  PROVE  /\ graph' = graph
         /\ \/ Emptied(e) \/ (\E w \in WalkIds : Begins(e, w))
            \/ /\ ~exec[e].mixed
               /\ Rests(e) \/ \E w \in WalksOf(e) : StepOfWalk(w)
<1>1. WalksOK
  BY TypeOKParts DEF IInv
<1>2. Rests(e) => ~exec[e].mixed
  BY DEF Rests
<1>3. CASE FromOutside
  BY <1>2, <1>3 DEF FromOutside, Clutters
<1>4. ASSUME NEW w \in WalkIds, walk[w] # None, ActsInOne(w)
      PROVE  /\ graph' = graph /\ ~exec[e].mixed
             /\ Rests(e) \/ \E v \in WalksOf(e) : StepOfWalk(v)
  <2>1. CASE walk[w].exec # e
    BY <1>1, <1>2, <1>4, <2>1, RestsAside DEF ActsInOne
  <2>2. CASE walk[w].exec = e
    BY <1>4, <2>2 DEF ActsInOne, WalksOf
  <2> QED
    BY <2>1, <2>2
<1> QED
  BY <1>3, <1>4, EveryStep

-----------------------------------------------------------------------------
(* The walks of an execution *)

\* Walks that are inside no other: its run, if it is not mixed.
Tops(e) == {w \in WalksOf(e) : walk[w].parent = None}

TopShaped(t) ==
  /\ walk[t].role # "inside" /\ walk[t].body = graph.nodes
  /\ Valid(graph) \/ walk[t].state = "broken"
  /\ walk[t].at \notin walk[t].skipped

InnerShaped(v) ==
  LET n == walk[walk[v].parent].at
  IN walk[v].body = Body(graph, n) /\ n \in walk[v].done /\ walk[v].done \subseteq walk[v].body \cup {n}

AtShaped(v) ==
  /\ walk[v].at \notin walk[v].done
  /\ walk[v].state = "next" => walk[v].at = None
  /\ walk[v].state = "busy" => graph.kind[walk[v].at] \in {"work", "condition"}

\* They are a tree: its root is the run, and a walk inside a node knows its body.
Shaped(e) ==
  /\ \A t, u \in Tops(e) : t = u
  /\ \A S \in SUBSET WalksOf(e) : S # {} => \E v \in S : walk[v].parent \notin S
  /\ \A v \in WalksOf(e) : AtShaped(v)
  /\ \A t \in Tops(e) : TopShaped(t)
  /\ \A v \in WalksOf(e) \ Tops(e) : InnerShaped(v)

\* A walk that is no run is inside a walk of the same execution.
LEMMA InnerHasParent ==
  ASSUME WalksOK, NEW e \in Executions, NEW v \in WalksOf(e) \ Tops(e)
  PROVE  /\ walk[v].parent \in WalksOf(e) /\ walk[walk[v].parent].state = "inside"
         /\ walk[v].parent # v /\ walk[v].role = "inside"
BY DEF WalksOK, Nested, WalksOf, Tops, Walk

\* One walk moves that nobody is inside of.
LEMMA MoveKeepsShape ==
  ASSUME WalksOK, graph' = graph, NEW e \in Executions, Shaped(e), NEW w \in WalksOf(e),
         Moved(w), walk[w].state # "inside", AtShaped(w)',
         walk[w].state # "broken", walk[w].done \subseteq walk'[w].done,
         walk'[w].done \subseteq walk[w].done \cup walk[w].body,
         walk[w].parent = None => walk'[w].at \notin walk'[w].skipped
  PROVE  Shaped(e)'
<1>1. WalksOf(e)' = WalksOf(e) /\ Tops(e)' = Tops(e)
      /\ \A v \in WalksOf(e) : walk'[v].parent = walk[v].parent
  BY DEF Moved, WalksOf, Tops
<1>2. \A t, u \in Tops(e)' : t = u
  BY <1>1 DEF Shaped
<1>3. \A S \in SUBSET WalksOf(e)' : S # {} => \E v \in S : walk'[v].parent \notin S
  BY <1>1 DEF Shaped
<1>4. \A v \in WalksOf(e) : v # w => walk'[v] = walk[v]
  BY DEF Moved, WalksOf
<1>5. \A v \in WalksOf(e)' : AtShaped(v)'
  BY <1>1, <1>4 DEF Shaped, AtShaped
<1>6. \A t \in Tops(e)' : TopShaped(t)'
  <2> SUFFICES ASSUME NEW t \in Tops(e) PROVE TopShaped(t)'
    BY <1>1
  <2>1. TopShaped(t) /\ t \in WalksOf(e)
    BY DEF Shaped, Tops
  <2>2. CASE t = w
    BY <2>1, <2>2 DEF Moved, TopShaped, Tops
  <2>3. CASE t # w
    BY <1>4, <2>1, <2>3 DEF TopShaped
  <2> QED
    BY <2>2, <2>3
<1>7. \A v \in WalksOf(e)' \ Tops(e)' : InnerShaped(v)'
  <2> SUFFICES ASSUME NEW v \in WalksOf(e) \ Tops(e) PROVE InnerShaped(v)'
    BY <1>1
  <2>1. InnerShaped(v) /\ walk'[v].parent = walk[v].parent
    BY <1>1 DEF Shaped
  <2>2. walk'[walk[v].parent] = walk[walk[v].parent]
    BY <1>4, InnerHasParent
  <2>3. CASE v = w
    BY <2>1, <2>2, <2>3 DEF Moved, InnerShaped
  <2>4. CASE v # w
    BY <1>4, <2>1, <2>2, <2>4 DEF InnerShaped
  <2> QED
    BY <2>3, <2>4
<1> QED
  BY <1>2, <1>3, <1>5, <1>6, <1>7 DEF Shaped

\* A walk that halts, shifts, picks or advances keeps the tree.
LEMMA SoloKeepsShape ==
  ASSUME IInv, IInv', graph' = graph, NEW e \in Executions, Shaped(e), NEW w \in WalksOf(e),
         \/ Halts(w) \/ Shifts(w) \/ (\E n \in Nodes : Picks(w, n))
         \/ (\E hit \in SUBSET Nodes : Advances(w, hit))
  PROVE  Shaped(e)'
<1>1. /\ WalksOK /\ WalksOK' /\ graph \in Workflows /\ AtShaped(w) /\ w \in WalkIds
      /\ walk[w] \in Walk
  BY DEF IInv, TypeOK, Typed, WalksOK, Shaped, WalksOf
<1>2. walk[w].parent = None => TopShaped(w)
  BY DEF Shaped, Tops
<1>3. CASE Halts(w) \/ Shifts(w)
  <2>1. /\ Moved(w) /\ SameLists(w) /\ walk[w].state \notin {"inside", "broken"}
        /\ walk'[w].state # "next"
        /\ walk'[w].state = "busy" => graph.kind[walk[w].at] \in {"work", "condition"}
    BY <1>3 DEF Halts, Shifts
  <2> QED
    BY <1>1, <1>2, <2>1, MoveKeepsShape DEF SameLists, AtShaped, TopShaped
<1>4. ASSUME NEW n \in Nodes, Picks(w, n)
      PROVE  Shaped(e)'
  BY <1>1, <1>4, MoveKeepsShape DEF Picks, Ready, AtShaped
<1>5. ASSUME NEW hit \in SUBSET Nodes, Advances(w, hit)
      PROVE  Shaped(e)'
  <2>1. /\ Moved(w) /\ walk[w].state = "ended" /\ walk'[w].state = "next" /\ walk'[w].at = None
        /\ walk'[w] \in Walk
    BY <1>1, <1>5 DEF Advances, Moved, WalksOK
  <2>2. None \notin walk'[w].done /\ None \notin walk'[w].skipped
    BY <2>1, NoneAssumption DEF NoneAssumption, Walk
  <2>3. walk[w].at \in walk[w].body
    BY <1>1, <2>1 DEF WalksOK, Placed, Moved
  <2>4. walk[w].role # "inside" => Body(graph, walk[w].at) \subseteq walk[w].body
    <3>1. walk[w].role # "inside" => walk[w].parent = None
      BY <1>1 DEF WalksOK, Nested, WalksOf
    <3> QED
      BY <1>1, <1>2, <3>1, GraphNodes DEF TopShaped
  <2>5. /\ walk[w].done \subseteq walk'[w].done
        /\ walk'[w].done \subseteq walk[w].done \cup walk[w].body
    BY <1>5, <2>3, <2>4 DEF Advances
  <2> QED
    BY <1>1, <2>1, <2>2, <2>5, MoveKeepsShape DEF AtShaped
<1> QED
  BY <1>3, <1>4, <1>5

\* An attempt that ends takes the walks inside its node out of the tree.
LEMMA CloseKeepsShape ==
  ASSUME IInv, graph' = graph, NEW e \in Executions, Shaped(e), NEW w \in WalksOf(e),
         ~exec'[e].mixed, Closes(w)
  PROVE  Shaped(e)' /\ WalksOf(e)' = WalksOf(e) \ Inside(w)
         /\ \A v \in WalksOf(e)' : v # w => walk'[v] = walk[v]
<1>1. WalksOK /\ walk[w].exec = e /\ w \in WalkIds /\ w # None
  BY NoneAssumption, TypeOKParts DEF IInv, WalksOf, NoneAssumption
<1>2. \A v \in Inside(w) : Returned(v) /\ walk'[v] = None /\ v \in WalksOf(e) /\ v # w
  BY <1>1 DEF Closes, Inside, WalksOK, Nested, WalksOf
<1>3. WalksOf(e)' = WalksOf(e) \ Inside(w)
  BY <1>1, <1>2 DEF Closes, WalksOf
<1>4. \A v \in WalksOf(e)' : v # w => walk'[v] = walk[v]
  BY <1>3 DEF Closes, WalksOf
<1>5. \A v \in WalksOf(e)' : /\ v \in WalksOf(e) /\ walk'[v].parent = walk[v].parent
                             /\ walk'[v].at = walk[v].at /\ walk'[v].done = walk[v].done
                             /\ walk'[v].skipped = walk[v].skipped
                             /\ walk'[v].role = walk[v].role /\ walk'[v].body = walk[v].body
  BY <1>3, <1>4 DEF Closes, SameLists
<1>6. \A v \in WalksOf(e)' : v \in Tops(e)' <=> v \in Tops(e)
  BY <1>5 DEF Tops
<1>7. \A t, u \in Tops(e)' : t = u
  BY <1>6 DEF Shaped, Tops
<1>8. \A S \in SUBSET WalksOf(e)' : S # {} => \E v \in S : walk'[v].parent \notin S
  BY <1>3, <1>5 DEF Shaped
<1>9. \A v \in WalksOf(e)' : AtShaped(v)'
  <2> SUFFICES ASSUME NEW v \in WalksOf(e)' PROVE AtShaped(v)'
    OBVIOUS
  <2>1. walk'[v].state \notin {"next", "busy"} \/ walk'[v] = walk[v]
    BY <1>4 DEF Closes
  <2> QED
    BY <1>5, <2>1 DEF Shaped, AtShaped
<1>10. \A t \in Tops(e)' : TopShaped(t)'
  <2> SUFFICES ASSUME NEW t \in Tops(e)' PROVE TopShaped(t)'
    OBVIOUS
  <2>1. t \in WalksOf(e)' /\ TopShaped(t)
    BY <1>6 DEF Shaped, Tops
  <2>2. walk[t].state # "broken" \/ walk'[t] = walk[t]
    BY <1>4, <2>1 DEF Closes
  <2> QED
    BY <1>5, <2>1, <2>2 DEF TopShaped
<1>11. \A v \in WalksOf(e)' \ Tops(e)' : InnerShaped(v)'
  <2> SUFFICES ASSUME NEW v \in WalksOf(e)', v \notin Tops(e)' PROVE InnerShaped(v)'
    OBVIOUS
  <2>1. v \in WalksOf(e) \ Tops(e) /\ InnerShaped(v)
    BY <1>5, <1>6 DEF Shaped
  <2>2. walk[v].parent \in WalksOf(e) /\ walk[walk[v].parent].state = "inside"
    BY <1>1, <2>1, InnerHasParent
  <2>3. walk[v].parent \notin Inside(w)
    BY <1>2, <2>2 DEF Returned, In
  <2>4. walk'[walk[v].parent].at = walk[walk[v].parent].at
    BY <1>3, <1>5, <2>2, <2>3
  <2> QED
    BY <1>5, <2>1, <2>4 DEF InnerShaped
<1> QED
  BY <1>3, <1>4, <1>7, <1>8, <1>9, <1>10, <1>11 DEF Shaped

\* Walks that begin inside a node hang below the walk that waits there.
LEMMA OpenKeepsShape ==
  ASSUME IInv, graph' = graph, NEW e \in Executions, Shaped(e), NEW w \in WalksOf(e),
         NEW N \in SUBSET WalkIds, Opens(w, N)
  PROVE  Shaped(e)' /\ WalksOf(e)' = WalksOf(e) \cup N /\ N \cap Tops(e)' = {}
         /\ Tops(e)' = Tops(e)
         /\ \A v \in WalksOf(e) \ Tops(e) : walk[v].parent \notin N
<1>1. WalksOK /\ walk[w].exec = e /\ w \in WalkIds /\ w # None /\ w \notin N
      /\ walk[w].at \in walk[w].body /\ walk[w] \in Walk
  BY NoneAssumption, TypeOKParts DEF IInv, WalksOf, NoneAssumption, Opens, WalksOK, Placed
<1>2. \A v \in N \cap WalksOf(e) : v \in Inside(w) /\ Returned(v) /\ v \notin Tops(e)
  BY <1>1 DEF Opens, WalksOf, Inside, Tops
<1>3. WalksOf(e)' = WalksOf(e) \cup N
  <2>1. \A v \in WalkIds \ (N \cup {w}) : walk'[v] = walk[v]
    BY DEF Opens
  <2>2. \A v \in N \cup {w} : v \in WalkIds /\ walk'[v] # None /\ walk'[v].exec = e
    BY <1>1 DEF Opens
  <2> QED
    BY <1>1, <2>1, <2>2 DEF WalksOf
<1>4. \A v \in WalksOf(e) \ N :
        /\ walk'[v].parent = walk[v].parent
        /\ walk'[v].at = walk[v].at /\ walk'[v].done = walk[v].done
        /\ walk'[v].skipped = walk[v].skipped
        /\ walk'[v].role = walk[v].role /\ walk'[v].body = walk[v].body
        /\ v # w => walk'[v] = walk[v]
  BY DEF Opens, SameLists, WalksOf
<1>5. \A v \in N : v \in WalksOf(e)' /\ v \notin Tops(e)' /\ walk'[v].parent = w
  BY <1>1, <1>3 DEF Opens, Tops
<1>6. Tops(e)' = Tops(e)
  BY <1>2, <1>3, <1>4, <1>5 DEF Tops
<1>7. \A v \in WalksOf(e) \ Tops(e) : walk[v].parent \notin N
  BY <1>1, <1>2, InnerHasParent DEF Returned, In
<1>8. \A S \in SUBSET WalksOf(e)' : S # {} => \E v \in S : walk'[v].parent \notin S
  <2> SUFFICES ASSUME NEW S \in SUBSET WalksOf(e)', S # {}
               PROVE  \E v \in S : walk'[v].parent \notin S
    OBVIOUS
  <2>1. CASE S \subseteq N
    BY <1>1, <1>5, <2>1
  <2>2. CASE ~(S \subseteq N)
    <3>1. S \ N \in SUBSET WalksOf(e) /\ S \ N # {}
      BY <1>3, <2>2
    <3>2. PICK v \in S \ N : walk[v].parent \notin S \ N
      BY <3>1 DEF Shaped
    <3>3. walk[v].parent \notin N
      <4>1. CASE v \in Tops(e)
        BY <4>1, NoneAssumption DEF Tops, NoneAssumption
      <4>2. CASE v \notin Tops(e)
        BY <1>7, <3>1, <3>2, <4>2
      <4> QED
        BY <4>1, <4>2
    <3> QED
      BY <1>4, <3>1, <3>2, <3>3
  <2> QED
    BY <2>1, <2>2
<1>9. \A v \in WalksOf(e)' : AtShaped(v)'
  <2> SUFFICES ASSUME NEW v \in WalksOf(e)' PROVE AtShaped(v)'
    OBVIOUS
  <2>1. CASE v \in N
    <3>1. walk[w].at # None
      BY <1>1, NoneAssumption DEF NoneAssumption, Walk
    <3> QED
      BY <2>1, <3>1 DEF Opens, AtShaped
  <2>2. CASE v \notin N
    <3>1. v \in WalksOf(e) /\ AtShaped(v)
      BY <1>3, <2>2 DEF Shaped
    <3>2. walk'[v].state \notin {"next", "busy"} \/ walk'[v] = walk[v]
      BY <1>4, <2>2, <3>1 DEF Opens
    <3> QED
      BY <1>4, <2>2, <3>1, <3>2 DEF AtShaped
  <2> QED
    BY <2>1, <2>2
<1>10. \A t \in Tops(e)' : TopShaped(t)'
  <2> SUFFICES ASSUME NEW t \in Tops(e) PROVE TopShaped(t)'
    BY <1>6
  <2>1. t \in WalksOf(e) \ N /\ TopShaped(t)
    BY <1>2 DEF Shaped, Tops
  <2>2. walk[t].state # "broken" \/ walk'[t] = walk[t]
    BY <1>4, <2>1 DEF Opens
  <2> QED
    BY <1>4, <2>1, <2>2 DEF TopShaped
<1>11. \A v \in WalksOf(e)' \ Tops(e)' : InnerShaped(v)'
  <2> SUFFICES ASSUME NEW v \in WalksOf(e)', v \notin Tops(e)' PROVE InnerShaped(v)'
    OBVIOUS
  <2>1. CASE v \in N
    <3>1. walk'[w].at = walk[w].at
      BY DEF Opens, SameLists
    <3> QED
      BY <1>5, <2>1, <3>1 DEF Opens, InnerShaped
  <2>2. CASE v \notin N
    <3>1. v \in WalksOf(e) \ Tops(e) /\ InnerShaped(v)
      BY <1>3, <1>6, <2>2 DEF Shaped
    <3>2. walk[v].parent \in WalksOf(e) \ N
      BY <1>1, <1>7, <3>1, InnerHasParent
    <3>3. walk'[walk[v].parent].at = walk[walk[v].parent].at
      BY <1>4, <3>2
    <3> QED
      BY <1>4, <2>2, <3>1, <3>3 DEF InnerShaped
  <2> QED
    BY <2>1, <2>2
<1>12. \A t, u \in Tops(e)' : t = u
  BY <1>6 DEF Shaped
<1> QED
  BY <1>3, <1>5, <1>6, <1>7, <1>8, <1>9, <1>10, <1>11, <1>12 DEF Shaped

\* A walk that is given up was a leaf of the tree.
LEMMA FreeKeepsShape ==
  ASSUME IInv, graph' = graph, NEW e \in Executions, Shaped(e), NEW w \in WalksOf(e), Frees(w)
  PROVE  Shaped(e)' /\ Tops(e)' = {}
<1>1. WalksOK /\ walk[w].exec = e /\ w \in WalkIds /\ w \in Tops(e)
  BY TypeOKParts DEF IInv, WalksOf, Frees, Tops
<1>2. WalksOf(e)' = WalksOf(e) \ {w} /\ \A v \in WalksOf(e)' : walk'[v] = walk[v]
  BY <1>1 DEF Frees, WalksOf
<1>3. Tops(e)' = {}
  BY <1>1, <1>2 DEF Shaped, Tops
<1>4. \A S \in SUBSET WalksOf(e)' : S # {} => \E v \in S : walk'[v].parent \notin S
  BY <1>2 DEF Shaped
<1>5. \A v \in WalksOf(e)' : AtShaped(v)'
  BY <1>2 DEF Shaped, AtShaped
<1>6. \A v \in WalksOf(e)' \ Tops(e)' : InnerShaped(v)'
  <2> SUFFICES ASSUME NEW v \in WalksOf(e)' PROVE InnerShaped(v)'
    OBVIOUS
  <2>1. v \in WalksOf(e) \ Tops(e) /\ InnerShaped(v)
    BY <1>1, <1>2 DEF Shaped, Tops
  <2>2. walk[v].parent \in WalksOf(e)'
    BY <1>1, <1>2, <2>1, InnerHasParent DEF Frees, Returned, In
  <2> QED
    BY <1>2, <2>1, <2>2 DEF InnerShaped
<1> QED
  BY <1>3, <1>4, <1>5, <1>6 DEF Shaped

\* A run alone is a tree.
LEMMA BeginIsShaped ==
  ASSUME graph' = graph, NEW e \in Executions, NEW w \in WalkIds, Begins(e, w)
  PROVE  Shaped(e)' /\ Tops(e)' = {w}
<1>1. WalksOf(e)' = {w} /\ Tops(e)' = {w}
  BY DEF Begins, Tops
<1>2. TopShaped(w)' /\ AtShaped(w)'
  BY DEF Begins, TopShaped, AtShaped
<1>3. \A S \in SUBSET WalksOf(e)' : S # {} => \E v \in S : walk'[v].parent \notin S
  BY <1>1, NoneAssumption DEF Begins, NoneAssumption
<1> QED
  BY <1>1, <1>2, <1>3 DEF Shaped

\* What rests keeps its tree.
LEMMA RestKeepsShape ==
  ASSUME IInv, graph' = graph, NEW e \in Executions, Shaped(e), Rests(e)
  PROVE  Shaped(e)' /\ Tops(e)' = Tops(e)
<1>1. /\ WalksOK /\ WalksOf(e)' = WalksOf(e) /\ \A v \in WalksOf(e) : walk'[v] = walk[v]
  BY TypeOKParts DEF IInv, Rests
<1>2. Tops(e)' = Tops(e)
  BY <1>1 DEF Tops
<1>3. /\ \A t, u \in Tops(e)' : t = u
      /\ \A S \in SUBSET WalksOf(e)' : S # {} => \E v \in S : walk'[v].parent \notin S
  BY <1>1, <1>2 DEF Shaped
<1>4. \A v \in WalksOf(e)' : AtShaped(v)'
  BY <1>1 DEF Shaped, AtShaped
<1>5. \A t \in Tops(e)' : TopShaped(t)'
  BY <1>1, <1>2 DEF Shaped, TopShaped, Tops
<1>6. \A v \in WalksOf(e)' \ Tops(e)' : InnerShaped(v)'
  <2> SUFFICES ASSUME NEW v \in WalksOf(e) \ Tops(e) PROVE InnerShaped(v)'
    BY <1>1, <1>2
  <2>1. InnerShaped(v) /\ walk[v].parent \in WalksOf(e)
    BY <1>1, InnerHasParent DEF Shaped
  <2> QED
    BY <1>1, <2>1 DEF InnerShaped
<1> QED
  BY <1>2, <1>3, <1>4, <1>5, <1>6 DEF Shaped

\* The effects of a step on an execution that is not mixed after it.
OneEffect(e) ==
  \/ Emptied(e) \/ (\E w \in WalkIds : Begins(e, w))
  \/ /\ ~exec[e].mixed
     /\ Rests(e) \/ \E w \in WalksOf(e) : StepOfWalk(w)

\* The walks of an execution that is not mixed stay a tree.
LEMMA ShapeStays ==
  ASSUME IInv, IInv', graph' = graph, NEW e \in Executions, ~exec'[e].mixed, OneEffect(e),
         ~exec[e].mixed => Shaped(e)
  PROVE  Shaped(e)'
<1>1. CASE Emptied(e)
  BY <1>1 DEF Emptied, Shaped, Tops
<1>2. CASE \E w \in WalkIds : Begins(e, w)
  BY <1>2, BeginIsShaped
<1>3. CASE ~exec[e].mixed /\ Rests(e)
  BY <1>3, RestKeepsShape
<1>4. ASSUME NEW w \in WalksOf(e), StepOfWalk(w), ~exec[e].mixed
      PROVE  Shaped(e)'
  BY <1>4, SoloKeepsShape, CloseKeepsShape, OpenKeepsShape, FreeKeepsShape DEF StepOfWalk
<1> QED
  BY <1>1, <1>2, <1>3, <1>4 DEF OneEffect

-----------------------------------------------------------------------------
(* What the run of an execution knows *)

\* A node that the run has done or skipped: nothing of it is open.
Accounted(t, x) ==
  LET nodes == exec[walk[t].exec].nodes
  IN \/ walk[t].at # None /\ x \in Body(graph, walk[t].at)
     \/ nodes[x] \in {"completed", "skipped"}
     \/ \E k \in graph.nodes : k \in walk[t].done /\ nodes[k] = "completed" /\ x \in Body(graph, k)

AllAccounted(t) == \A x \in walk[t].done \cup walk[t].skipped : Accounted(t, x)

\* Everything that is ready is queued.
AllQueued(t) ==
  \/ walk[t].queue = StartNodes(graph) /\ walk[t].done = {} /\ walk[t].skipped = {}
  \/ \A m \in graph.nodes :
       DependenciesSatisfied(graph, m, walk[t].done \cup walk[t].skipped) =>
         m \in walk[t].queue \cup walk[t].done \cup walk[t].skipped

\* Its queue and its node may begin, and the walks inside are in the body of this node.
Planned(t) ==
  /\ AllAccounted(t)
  /\ \A m \in walk[t].queue \cup {walk[t].at} :
       m # None => DependenciesSatisfied(graph, m, walk[t].done \cup walk[t].skipped)
  /\ walk[t].at = None => AllQueued(t)
  /\ walk[t].state = "over" /\ ~Stopped(walk[t].exec) => walk[t].at = None /\ Ready(t) = {}
  /\ walk[t].state = "ended" => exec[walk[t].exec].nodes[walk[t].at] = "completed"

Within(t) ==
  \A v \in WalksOf(walk[t].exec) :
    v # t => walk[t].state = "inside" /\ walk[v].body \subseteq Body(graph, walk[t].at)

\* Once the walks inside its node have returned, no walk is left that is not one of them.
LEMMA Alone ==
  ASSUME WalksOK, NEW e \in Executions, Shaped(e), NEW t \in Tops(e),
         \A v \in Inside(t) : Returned(v)
  PROVE  WalksOf(e) \subseteq Inside(t) \cup {t}
<1> DEFINE S == WalksOf(e) \ (Inside(t) \cup {t})
<1> SUFFICES ASSUME S # {} PROVE FALSE
  OBVIOUS
<1>1. PICK v \in S : walk[v].parent \notin S
  BY DEF Shaped
<1>2. v \in WalksOf(e) \ Tops(e)
  BY DEF Shaped
<1>3. walk[v].parent \in WalksOf(e) /\ walk[walk[v].parent].state = "inside"
  BY <1>2, InnerHasParent
<1>4. walk[v].parent \notin Inside(t)
  BY <1>3 DEF Returned, In
<1>5. walk[v].parent # t
  BY <1>2 DEF Inside, WalksOf
<1> QED
  BY <1>1, <1>3, <1>4, <1>5

\* The account stays true when only a node changes that is not in it.
LEMMA AccountStays ==
  ASSUME graph' = graph, graph \in Workflows, BodiesNest(graph), NEW t \in WalkIds,
         walk[t] \in Walk, walk'[t].exec = walk[t].exec, walk'[t].done = walk[t].done,
         walk'[t].skipped = walk[t].skipped, walk[t].at \in {None, walk'[t].at},
         NEW n,
         \A m \in Nodes \ {n} : exec'[walk[t].exec].nodes[m] = exec[walk[t].exec].nodes[m],
         \/ n \notin walk[t].done \cup walk[t].skipped
         \/ /\ walk'[t].at # None /\ walk'[t].at \in graph.nodes
            /\ n \in Body(graph, walk'[t].at),
         AllAccounted(t)
  PROVE  AllAccounted(t)'
<1> SUFFICES ASSUME NEW x \in walk[t].done \cup walk[t].skipped
             PROVE  Accounted(t, x)'
  BY DEF AllAccounted
<1>1. Accounted(t, x) /\ x \in Nodes /\ graph.nodes \subseteq Nodes
  BY GraphNodes DEF AllAccounted, Walk
<1>2. CASE walk'[t].at # None /\ x \in Body(graph, walk'[t].at)
  BY <1>2 DEF Accounted
<1>3. CASE ~(walk'[t].at # None /\ x \in Body(graph, walk'[t].at))
  <2>1. x # n
    BY <1>3
  <2>2. ~(walk[t].at # None /\ x \in Body(graph, walk[t].at))
    BY <1>3
  <2>3. CASE exec[walk[t].exec].nodes[x] \in {"completed", "skipped"}
    BY <1>1, <2>1, <2>3 DEF Accounted
  <2>4. ASSUME NEW k \in graph.nodes, k \in walk[t].done,
               exec[walk[t].exec].nodes[k] = "completed", x \in Body(graph, k)
        PROVE  Accounted(t, x)'
    <3>1. k # n
      BY <1>3, <2>4 DEF BodiesNest
    <3> QED
      BY <1>1, <2>4, <3>1 DEF Accounted
  <2> QED
    BY <1>1, <2>2, <2>3, <2>4 DEF Accounted
<1> QED
  BY <1>2, <1>3

\* The types of a run, and that it has not done the node it is at.
LEMMA TopFacts ==
  ASSUME IInv, NEW e \in Executions, Shaped(e), NEW t \in Tops(e)
  PROVE  /\ t \in WalkIds /\ t # None /\ walk[t] \in Walk /\ walk[t].exec = e
         /\ walk[t].body = graph.nodes /\ walk[t].role # "inside"
         /\ walk[t].at \notin walk[t].done \cup walk[t].skipped
         /\ walk[t].state \in {"start", "busy", "delay", "inside", "ended"} =>
              walk[t].at \in graph.nodes /\ walk[t].at # None /\ walk[t].at \in Nodes
<1>1. WalksOK /\ graph \in Workflows
  BY TypeOKParts DEF IInv, RestOK
<1>2. t \in WalkIds /\ walk[t] # None /\ walk[t] \in Walk /\ walk[t].exec = e /\ t \in WalksOf(e)
  BY <1>1 DEF Tops, WalksOf, WalksOK
<1>3. TopShaped(t) /\ AtShaped(t)
  BY <1>2 DEF Shaped
<1>4. t # None
  BY <1>2, NoneAssumption DEF NoneAssumption
<1>5. walk[t].state \in {"start", "busy", "delay", "inside", "ended"} => walk[t].at \in graph.nodes
  BY <1>1, <1>2, <1>3 DEF WalksOK, Placed, TopShaped
<1>6. graph.nodes \subseteq Nodes /\ None \notin graph.nodes
  BY <1>1, GraphNodes, NoneAssumption DEF NoneAssumption
<1> QED
  BY <1>2, <1>3, <1>4, <1>5, <1>6 DEF TopShaped, AtShaped

\* A walk inside has its node in the body of that of the run.
LEMMA InnerFacts ==
  ASSUME IInv, NEW e \in Executions, Shaped(e), BodiesNest(graph),
         NEW t \in Tops(e), Within(t), NEW w \in WalksOf(e), w # t
  PROVE  /\ walk[t].state = "inside" /\ walk[t].at \in graph.nodes /\ walk[t].at # None
         /\ walk[w].body \subseteq Body(graph, walk[t].at)
         /\ w \notin Tops(e) /\ walk[w].role = "inside" /\ walk[w].parent # None
         /\ walk[w].state \in {"start", "busy", "delay", "inside", "ended"} =>
              /\ walk[w].at \in Body(graph, walk[t].at)
              /\ Body(graph, walk[w].at) \subseteq Body(graph, walk[t].at)
<1>1. WalksOK
  BY TypeOKParts DEF IInv
<1>2. walk[t].state = "inside" /\ walk[w].body \subseteq Body(graph, walk[t].at)
  BY TopFacts DEF Within
<1>3. walk[t].at \in graph.nodes /\ walk[t].at # None
  BY <1>2, TopFacts
<1>4. w \notin Tops(e)
  BY DEF Shaped
<1>5. walk[w].role = "inside" /\ walk[w].parent # None
  BY <1>1, <1>4, InnerHasParent DEF Tops
<1>6. walk[w].state \in {"start", "busy", "delay", "inside", "ended"} =>
        walk[w].at \in Body(graph, walk[t].at)
  BY <1>1, <1>2 DEF WalksOK, Placed, WalksOf
<1> QED
  BY <1>2, <1>3, <1>4, <1>5, <1>6 DEF BodiesNest

\* The run stays as it is, and the account too.
LEMMA PlanRests ==
  ASSUME graph' = graph, NEW t, Planned(t), walk'[t] = walk[t], AllAccounted(t)',
         Stopped(walk[t].exec) => Stopped(walk[t].exec)',
         walk[t].state = "ended" => exec'[walk[t].exec].nodes[walk[t].at] = "completed"
  PROVE  Planned(t)'
BY DEF Planned, AllQueued, Ready, Stopped

\* The run of an execution has a plan and what is inside it is part of the plan.
RunKnows(e) == \A t \in Tops(e) : Planned(t) /\ Within(t)

\* Nobody is inside the node of a run that is not there.
LEMMA OnlyRun ==
  ASSUME NEW e \in Executions, Shaped(e), RunKnows(e), NEW t \in Tops(e),
         walk[t].state # "inside"
  PROVE  WalksOf(e) = {t}
BY DEF RunKnows, Within, Tops, WalksOf

\* The run itself moves.
LEMMA TopMoves ==
  ASSUME IInv, IInv', graph' = graph, NEW e \in Executions, Shaped(e), RunKnows(e),
         BodiesNest(graph), NEW t \in Tops(e),
         \/ Halts(t) \/ Shifts(t) \/ (\E n \in Nodes : Picks(t, n))
         \/ (\E hit \in SUBSET Nodes : Advances(t, hit))
  PROVE  RunKnows(e)'
<1>1. /\ t \in WalkIds /\ t # None /\ walk[t] \in Walk /\ walk[t].exec = e
      /\ walk[t].body = graph.nodes /\ walk[t].role # "inside"
      /\ walk[t].at \notin walk[t].done \cup walk[t].skipped
      /\ walk[t].state \in {"start", "busy", "delay", "inside", "ended"} =>
           walk[t].at \in graph.nodes /\ walk[t].at # None /\ walk[t].at \in Nodes
  BY TopFacts
<1>2. graph \in Workflows /\ graph.nodes \subseteq Nodes /\ Planned(t)
  BY TypeOKParts, GraphNodes DEF IInv, RestOK, RunKnows
<1>3. Moved(t) /\ walk[t].state # "inside"
  BY DEF Halts, Shifts, Picks, Advances
<1>4. WalksOf(e) = {t}
  BY <1>3, OnlyRun
<1>5. WalksOf(e)' = {t} /\ Tops(e)' = {t}
  BY <1>1, <1>3, <1>4 DEF WalksOf, Tops, Moved
<1>6. Within(t)'
  BY <1>1, <1>3, <1>5 DEF Within, Moved
<1>7. CASE Halts(t) \/ Shifts(t)
  <2>1. /\ SameLists(t) /\ exec' = exec /\ walk'[t].state # "ended" /\ walk'[t].exec = e
        /\ walk'[t].body = walk[t].body
    BY <1>1, <1>7 DEF Halts, Shifts, Moved
  <2>2. AllAccounted(t)'
    BY <1>1, <1>2, <2>1 DEF Planned, AllAccounted, Accounted, SameLists
  <2>3. walk'[t].state = "over" /\ ~Stopped(e)' => walk'[t].at = None /\ Ready(t)' = {}
    <3>1. CASE Stopped(e)
      BY <2>1, <3>1 DEF Stopped
    <3>2. CASE Halts(t) /\ ~Stopped(e)
      <4>1. walk[t].state = "next" /\ Ready(t) = {}
        BY <1>1, <3>2 DEF Halts
      <4>2. walk[t].at = None
        BY <4>1 DEF Shaped, Tops, AtShaped
      <4> QED
        BY <2>1, <4>1, <4>2 DEF SameLists, Ready
    <3>3. CASE Shifts(t)
      BY <3>3 DEF Shifts
    <3> QED
      BY <1>7, <3>1, <3>2, <3>3
  <2>4. walk'[t].at = None => AllQueued(t)'
    BY <1>2, <2>1 DEF Planned, AllQueued, SameLists
  <2>5. Planned(t)'
    BY <1>2, <2>1, <2>2, <2>3, <2>4 DEF Planned, SameLists
  <2> QED
    BY <1>5, <1>6, <2>5 DEF RunKnows
<1>8. ASSUME NEW n \in Nodes, Picks(t, n)
      PROVE  RunKnows(e)'
  <2>1. /\ walk'[t].done = walk[t].done /\ walk'[t].skipped = walk[t].skipped
        /\ walk'[t].exec = e /\ walk'[t].at = n /\ walk'[t].state = "start"
        /\ walk'[t].queue = walk[t].queue \ {n} /\ n \in Ready(t)
    BY <1>1, <1>8 DEF Picks, Moved
  <2>2. n # None /\ walk[t].at = None /\ n \notin walk[t].done \cup walk[t].skipped
        /\ n \in walk[t].queue
    BY <1>8, <2>1, NoneAssumption DEF NoneAssumption, Picks, Shaped, Tops, AtShaped, Ready
  <2>3. \A m \in Nodes \ {n} : exec'[e].nodes[m] = exec[e].nodes[m]
    BY <1>1, <1>8 DEF Picks
  <2>4. AllAccounted(t)'
    BY <1>1, <1>2, <2>1, <2>2, <2>3, AccountStays DEF Planned
  <2>5. Planned(t)'
    BY <1>2, <2>1, <2>2, <2>4 DEF Planned
  <2> QED
    BY <1>5, <1>6, <2>5 DEF RunKnows
<1>9. ASSUME NEW hit \in SUBSET Nodes, Advances(t, hit)
      PROVE  RunKnows(e)'
  <2> DEFINE n == walk[t].at
  <2>1. /\ walk'[t].done = walk[t].done \cup {n} \cup Body(graph, n)
        /\ walk'[t].skipped = walk[t].skipped \cup hit
        /\ walk'[t].exec = e /\ walk'[t].at = None /\ walk'[t].state = "next"
        /\ walk'[t].queue =
               {m \in graph.nodes :
                  DependenciesSatisfied(graph, m, walk'[t].done \cup walk'[t].skipped)}
                 \ (walk'[t].done \cup walk'[t].skipped)
    BY <1>1, <1>9 DEF Advances, Moved
  <2>2. n \in graph.nodes /\ exec[e].nodes[n] = "completed" /\ n # None
    BY <1>1, <1>2, <1>9 DEF Advances, Planned
  <2>3. /\ \A m \in Nodes \cap hit : exec'[e].nodes[m] = "skipped" /\ exec[e].nodes[m] = "none"
        /\ \A m \in Nodes : m \notin hit => exec'[e].nodes[m] = exec[e].nodes[m]
    BY <1>1, <1>9 DEF Advances
  <2>4. /\ \A m \in graph.nodes :
             exec[e].nodes[m] = "completed" => exec'[e].nodes[m] = "completed"
        /\ \A m \in Nodes : exec[e].nodes[m] \in {"completed", "skipped"} =>
                            exec'[e].nodes[m] \in {"completed", "skipped"}
    BY <1>2, <2>3
  <2>5. ASSUME NEW x \in walk'[t].done \cup walk'[t].skipped
        PROVE  Accounted(t, x)'
    <3>1. CASE x \in hit
      BY <2>1, <2>3, <3>1 DEF Accounted
    <3>2. CASE x \in {n} \cup Body(graph, n)
      <4>1. n \in walk'[t].done /\ exec'[e].nodes[n] = "completed"
        BY <2>1, <2>2, <2>4
      <4> QED
        BY <2>1, <2>2, <3>2, <4>1 DEF Accounted
    <3>3. CASE x \in walk[t].done \cup walk[t].skipped /\ x \notin Body(graph, n)
      <4>1. Accounted(t, x) /\ x \in Nodes
        BY <1>1, <1>2, <3>3 DEF Planned, AllAccounted, Walk
      <4>2. CASE exec[e].nodes[x] \in {"completed", "skipped"}
        BY <2>1, <2>4, <4>1, <4>2 DEF Accounted
      <4>3. ASSUME NEW k \in graph.nodes, k \in walk[t].done,
                   exec[e].nodes[k] = "completed", x \in Body(graph, k)
            PROVE  Accounted(t, x)'
        BY <2>1, <2>4, <4>3 DEF Accounted
      <4> QED
        BY <1>1, <3>3, <4>1, <4>2, <4>3 DEF Accounted
    <3> QED
      BY <2>1, <3>1, <3>2, <3>3
  <2>6. AllAccounted(t)' /\ AllQueued(t)'
    BY <2>1, <2>5 DEF AllAccounted, AllQueued
  <2>7. Planned(t)'
    BY <2>1, <2>6 DEF Planned
  <2> QED
    BY <1>5, <1>6, <2>7 DEF RunKnows
<1> QED
  BY <1>7, <1>8, <1>9

\* A walk inside moves.
LEMMA InnerMoves ==
  ASSUME IInv, IInv', graph' = graph, NEW e \in Executions, Shaped(e), RunKnows(e),
         BodiesNest(graph), NEW t \in Tops(e), NEW w \in WalksOf(e), w # t,
         \/ Halts(w) \/ Shifts(w) \/ (\E n \in Nodes : Picks(w, n))
         \/ (\E hit \in SUBSET Nodes : Advances(w, hit))
  PROVE  RunKnows(e)'
<1>1. /\ t \in WalkIds /\ t # None /\ walk[t] \in Walk /\ walk[t].exec = e
      /\ walk[t].at \notin walk[t].done \cup walk[t].skipped
  BY TopFacts
<1>2. /\ graph \in Workflows /\ graph.nodes \subseteq Nodes /\ Planned(t) /\ Within(t)
      /\ walk[w].exec = e
  BY TypeOKParts, GraphNodes DEF IInv, RestOK, RunKnows, WalksOf
<1>3. /\ walk[t].state = "inside" /\ walk[t].at \in graph.nodes /\ walk[t].at # None
      /\ walk[w].body \subseteq Body(graph, walk[t].at) /\ walk[w].role = "inside"
      /\ walk[w].parent # None
  BY <1>2, InnerFacts
<1>4. Moved(w)
  BY DEF Halts, Shifts, Picks, Advances
<1>5. /\ walk'[t] = walk[t] /\ WalksOf(e)' = WalksOf(e) /\ Tops(e)' = Tops(e)
      /\ \A v \in WalksOf(e) : walk'[v].body = walk[v].body
  BY <1>1, <1>4 DEF Moved, WalksOf, Tops
<1>6. Within(t)'
  BY <1>1, <1>2, <1>5 DEF Within
<1>7. exec'[e].status = exec[e].status /\ AllAccounted(t)'
  <2>1. CASE Halts(w) \/ Shifts(w)
    <3>1. exec' = exec
      BY <2>1 DEF Halts, Shifts
    <3> QED
      BY <1>2, <1>5, <3>1 DEF Planned, AllAccounted, Accounted
  <2>2. ASSUME NEW n \in Nodes, Picks(w, n)
        PROVE  exec'[e].status = exec[e].status /\ AllAccounted(t)'
    <3>1. /\ n \in Body(graph, walk[t].at) /\ exec'[e].status = exec[e].status
          /\ \A m \in Nodes \ {n} : exec'[e].nodes[m] = exec[e].nodes[m]
      BY <1>2, <1>3, <2>2 DEF Picks, Ready
    <3> QED
      BY <1>1, <1>2, <1>3, <1>5, <3>1, AccountStays DEF Planned
  <2>3. ASSUME NEW hit \in SUBSET Nodes, Advances(w, hit)
        PROVE  exec'[e].status = exec[e].status /\ AllAccounted(t)'
    <3>1. /\ exec'[e].status = exec[e].status
          /\ \A m \in Nodes : exec'[e].nodes[m] = exec[e].nodes[m]
      BY <1>2, <1>3, <2>3 DEF Advances
    <3> QED
      BY <1>1, <1>2, <1>3, <1>5, <3>1, AccountStays DEF Planned
  <2> QED
    BY <2>1, <2>2, <2>3
<1>8. Planned(t)'
  BY <1>1, <1>2, <1>3, <1>5, <1>7, PlanRests DEF Stopped
<1>9. \A u \in Tops(e)' : u = t
  BY <1>5 DEF Shaped
<1> QED
  BY <1>6, <1>8, <1>9 DEF RunKnows

\* An attempt that ends completes its node only when nobody is left inside.
LEMMA CloseKeepsPlan ==
  ASSUME IInv, graph' = graph, NEW e \in Executions, Shaped(e), RunKnows(e),
         BodiesNest(graph), ~exec'[e].mixed, NEW w \in WalksOf(e), Closes(w)
  PROVE  RunKnows(e)'
<1> SUFFICES ASSUME NEW t \in Tops(e)'
             PROVE  Planned(t)' /\ Within(t)'
  BY DEF RunKnows
<1>1. /\ WalksOK /\ graph \in Workflows /\ walk[w].exec = e
  BY TypeOKParts DEF IInv, RestOK, WalksOf
<1>2. /\ WalksOf(e)' = WalksOf(e) \ Inside(w)
      /\ \A v \in WalksOf(e)' : v # w => walk'[v] = walk[v]
  BY CloseKeepsShape
<1>3. t \in Tops(e)
  BY <1>2 DEF Tops, Closes
<1>4. /\ t \in WalkIds /\ t # None /\ walk[t] \in Walk /\ walk[t].exec = e
      /\ walk[t].at \notin walk[t].done \cup walk[t].skipped
      /\ walk[t].state \in {"start", "busy", "delay", "inside", "ended"} =>
           walk[t].at \in graph.nodes /\ walk[t].at # None /\ walk[t].at \in Nodes
  BY <1>3, TopFacts
<1>5. Planned(t) /\ Within(t)
  BY <1>3 DEF RunKnows
<1>6. /\ exec'[e].status = exec[e].status
      /\ \A n \in Nodes \ {walk[w].at} : exec'[e].nodes[n] = exec[e].nodes[n]
  BY <1>1 DEF Closes
<1>7. CASE w = t
  <2>1. /\ walk'[t].done = walk[t].done /\ walk'[t].skipped = walk[t].skipped
        /\ walk'[t].queue = walk[t].queue /\ walk'[t].at = walk[t].at
        /\ walk'[t].exec = e /\ walk'[t].at # None
        /\ walk'[t].state \in {"delay", "broken", "over", "ended"}
        /\ walk'[t].state = "over" => Stopped(e)
        /\ walk'[t].state = "ended" => exec'[e].nodes[walk[t].at] = "completed"
    BY <1>1, <1>4, <1>7 DEF Closes, SameLists
  <2>2. AllAccounted(t)'
    BY <1>1, <1>4, <1>5, <1>6, <1>7, <2>1, AccountStays DEF Planned
  <2>3. Planned(t)'
    BY <1>5, <1>6, <2>1, <2>2 DEF Planned, Stopped
  <2>4. \A v \in Inside(t) : Returned(v)
    BY <1>1, <1>7 DEF Closes
  <2>5. WalksOf(e)' \subseteq {t}
    BY <1>1, <1>2, <1>3, <1>7, <2>4, Alone
  <2> QED
    BY <2>1, <2>3, <2>5 DEF Within
<1>8. CASE w # t
  <2>1. walk'[t] = walk[t]
    BY <1>2, <1>8 DEF Tops
  <2>2. /\ walk[t].at \in graph.nodes /\ walk[t].at # None
        /\ walk[w].at \in Body(graph, walk[t].at)
    BY <1>3, <1>5, <1>8, InnerFacts DEF Closes
  <2>3. AllAccounted(t)'
    BY <1>1, <1>4, <1>5, <1>6, <2>1, <2>2, AccountStays DEF Planned
  <2>4. walk[t].state = "inside"
    BY <1>3, <1>5, <1>8, InnerFacts
  <2>5. Planned(t)'
    BY <1>4, <1>5, <1>6, <2>1, <2>3, <2>4, PlanRests DEF Stopped
  <2>6. \A v \in WalksOf(e)' : v \in WalksOf(e) /\ walk'[v].body = walk[v].body
    BY <1>2 DEF Closes
  <2>7. Within(t)'
    BY <1>4, <1>5, <2>1, <2>6 DEF Within
  <2> QED
    BY <2>5, <2>7
<1> QED
  BY <1>7, <1>8

\* The walks that begin inside a node stay in its body.
LEMMA OpenKeepsPlan ==
  ASSUME IInv, graph' = graph, NEW e \in Executions, Shaped(e), RunKnows(e),
         BodiesNest(graph), NEW w \in WalksOf(e), NEW N \in SUBSET WalkIds, Opens(w, N)
  PROVE  RunKnows(e)'
<1> SUFFICES ASSUME NEW t \in Tops(e)
             PROVE  Planned(t)' /\ Within(t)'
  BY OpenKeepsShape DEF RunKnows
<1>1. /\ walk[w].exec = e /\ t \in WalksOf(e) /\ t \notin N
  BY OpenKeepsShape DEF WalksOf, Tops
<1>2. /\ WalksOf(e)' = WalksOf(e) \cup N
      /\ \A v \in WalksOf(e) \ N : walk'[v].body = walk[v].body
  BY OpenKeepsShape DEF Opens, WalksOf
<1>3. /\ t \in WalkIds /\ walk[t].exec = e
      /\ walk[t].state \in {"start", "busy", "delay", "inside", "ended"} =>
           walk[t].at \in graph.nodes /\ walk[t].at # None
  BY TopFacts
<1>4. Planned(t) /\ Within(t)
  BY DEF RunKnows
<1>5. /\ walk'[t].done = walk[t].done /\ walk'[t].skipped = walk[t].skipped
      /\ walk'[t].queue = walk[t].queue /\ walk'[t].at = walk[t].at
      /\ walk'[t].body = walk[t].body
      /\ walk'[t].exec = e /\ exec' = exec
  BY <1>1, <1>3 DEF Opens, SameLists
<1>6. walk'[t].state = "inside"
  <2>1. CASE t = w
    BY <2>1 DEF Opens
  <2>2. CASE t # w
    BY <1>1, <1>3, <1>4, <2>2, InnerFacts DEF Opens
  <2> QED
    BY <2>1, <2>2
<1>7. Planned(t)'
  BY <1>3, <1>4, <1>5, <1>6 DEF Planned, AllAccounted, Accounted, AllQueued
<1>8. Body(graph, walk[w].at) \subseteq Body(graph, walk[t].at)
  BY <1>4, InnerFacts DEF Opens
<1>9. \A v \in N : walk'[v].body \subseteq Body(graph, walk[t].at)
  BY <1>8 DEF Opens
<1>10. \A v \in WalksOf(e) \ N : v # t => walk'[v].body \subseteq Body(graph, walk[t].at)
  BY <1>2, <1>3, <1>4 DEF Within
<1>11. Within(t)'
  BY <1>2, <1>5, <1>6, <1>9, <1>10 DEF Within
<1> QED
  BY <1>7, <1>11

\* A run begins with the nodes that nothing leads to.
LEMMA BeginHasPlan ==
  ASSUME graph' = graph, NEW e \in Executions, NEW w \in WalkIds, Begins(e, w)
  PROVE  RunKnows(e)'
<1>1. WalksOf(e)' = {w} /\ Tops(e)' = {w} /\ walk'[w].exec = e
  BY BeginIsShaped DEF Begins, WalksOf
<1>2. \A m \in StartNodes(graph) : DependenciesSatisfied(graph, m, {})
  BY DEF StartNodes, DependenciesSatisfied, Into, Control
<1>3. Planned(w)'
  BY <1>2 DEF Begins, Planned, AllAccounted, AllQueued
<1>4. Within(w)'
  BY <1>1 DEF Within
<1> QED
  BY <1>1, <1>3, <1>4 DEF RunKnows

\* What rests keeps its plan.
LEMMA RestKeepsPlan ==
  ASSUME IInv, graph' = graph, NEW e \in Executions, Shaped(e), RunKnows(e), Rests(e)
  PROVE  RunKnows(e)'
<1> SUFFICES ASSUME NEW t \in Tops(e)
             PROVE  Planned(t)' /\ Within(t)'
  BY RestKeepsShape DEF RunKnows
<1>1. /\ t \in WalksOf(e) /\ walk[t].exec = e /\ walk'[t] = walk[t]
      /\ WalksOf(e)' = WalksOf(e) /\ \A v \in WalksOf(e) : walk'[v] = walk[v]
      /\ exec'[e].nodes = exec[e].nodes /\ (Stopped(e) => Stopped(e)')
  BY DEF Rests, Tops, WalksOf, Stopped
<1>2. Planned(t) /\ Within(t)
  BY DEF RunKnows
<1>3. AllAccounted(t)'
  BY <1>1, <1>2 DEF Planned, AllAccounted, Accounted
<1>4. Planned(t)'
  BY <1>1, <1>2, <1>3, PlanRests DEF Planned
<1>5. Within(t)'
  BY <1>1, <1>2 DEF Within
<1> QED
  BY <1>4, <1>5

\* The run of an execution keeps account of all nodes.
LEMMA PlanStays ==
  ASSUME IInv, IInv', graph' = graph, NEW e \in Executions, ~exec'[e].mixed, OneEffect(e),
         BodiesNest(graph), ~exec[e].mixed => Shaped(e) /\ RunKnows(e)
  PROVE  RunKnows(e)'
<1>1. CASE Emptied(e)
  BY <1>1 DEF Emptied, RunKnows, Tops
<1>2. CASE \E w \in WalkIds : Begins(e, w)
  BY <1>2, BeginHasPlan
<1>3. CASE ~exec[e].mixed /\ Rests(e)
  BY <1>3, RestKeepsPlan
<1>4. ASSUME NEW w \in WalksOf(e), StepOfWalk(w), ~exec[e].mixed
      PROVE  RunKnows(e)'
  <2>1. CASE Closes(w) \/ \E N \in SUBSET WalkIds : Opens(w, N)
    BY <1>4, <2>1, CloseKeepsPlan, OpenKeepsPlan
  <2>2. CASE Frees(w)
    BY <1>4, <2>2, FreeKeepsShape DEF RunKnows
  <2>3. CASE \/ Halts(w) \/ Shifts(w) \/ (\E n \in Nodes : Picks(w, n))
             \/ (\E hit \in SUBSET Nodes : Advances(w, hit))
    <3>1. CASE w \in Tops(e)
      BY <1>4, <2>3, <3>1, TopMoves
    <3>2. ASSUME NEW t \in Tops(e), w \notin Tops(e)
          PROVE  RunKnows(e)'
      BY <1>4, <2>3, <3>2, InnerMoves
    <3>3. CASE Tops(e) = {}
      <4>1. Moved(w) /\ w \in WalkIds /\ walk[w].exec = e
        BY <2>3 DEF Halts, Shifts, Picks, Advances, WalksOf
      <4>2. Tops(e)' = {}
        BY <3>3, <4>1 DEF Moved, Tops, WalksOf
      <4> QED
        BY <4>2 DEF RunKnows
    <3> QED
      BY <3>1, <3>2, <3>3
  <2> QED
    BY <1>4, <2>1, <2>2, <2>3 DEF StepOfWalk
<1> QED
  BY <1>1, <1>2, <1>3, <1>4 DEF OneEffect

-----------------------------------------------------------------------------
(* A completed execution *)

\* A run that returns, and was not stopped, has done or skipped every node.
LEMMA NothingLeft ==
  ASSUME IInv, NEW e \in Executions, Shaped(e), NEW t \in Tops(e), Planned(t),
         walk[t].state = "over", ~Stopped(e)
  PROVE  graph.nodes \subseteq Settled(e) \cup Covered(e)
<1> DEFINE rest == graph.nodes \ (walk[t].done \cup walk[t].skipped)
<1>1. /\ graph \in Workflows /\ walk[t].exec = e /\ walk[t].body = graph.nodes
  BY TopFacts, TypeOKParts DEF IInv, RestOK
<1>2. walk[t].at = None /\ Ready(t) = {}
  BY <1>1 DEF Planned
<1>3. ~HasCycle(graph)
  BY DEF Shaped, TopShaped, Valid
<1>4. rest = {}
  <2> SUFFICES ASSUME rest # {} PROVE FALSE
    OBVIOUS
  <2>1. rest \in SUBSET graph.nodes
    OBVIOUS
  <2>2. PICK m \in rest : \A d \in graph.edges : d.to = m => d.from \notin rest
    <3> HIDE DEF rest
    <3> QED
      BY <1>1, <1>3, <2>1, SomeNodeIsFirst
  <2>3. \A d \in graph.edges : d.from \in graph.nodes
    BY <1>1, EngineAssumption DEF EngineAssumption, IsWorkflow, Edge
  <2>4. m \in walk[t].queue
    <3>1. CASE walk[t].queue = StartNodes(graph) /\ walk[t].done = {} /\ walk[t].skipped = {}
      BY <2>2, <2>3, <3>1 DEF StartNodes
    <3>2. DependenciesSatisfied(graph, m, walk[t].done \cup walk[t].skipped)
      BY <2>2, <2>3 DEF DependenciesSatisfied, Into, Control
    <3> QED
      BY <1>2, <2>2, <3>1, <3>2 DEF Planned, AllQueued
  <2>5. m \in Ready(t)
    BY <1>1, <2>2, <2>4 DEF Ready
  <2> QED
    BY <1>2, <2>5
<1>5. ASSUME NEW x \in graph.nodes
      PROVE  x \in Settled(e) \cup Covered(e)
  <2>1. Accounted(t, x)
    BY <1>4 DEF Planned, AllAccounted
  <2> QED
    BY <1>1, <1>2, <2>1 DEF Accounted, Settled, Covered
<1> QED
  BY <1>5

\* What CompletedMeansAll says of one execution.
Complete(e) ==
  exec[e].status = "completed" =>
    WalksOf(e) = {} /\ graph.nodes \subseteq Settled(e) \cup Covered(e)

\* What a completed execution has done stays done.
LEMMA CompleteStays ==
  ASSUME IInv, IInv', graph' = graph, NEW e \in Executions, ~exec'[e].mixed, OneEffect(e),
         BodiesNest(graph), ~exec[e].mixed => Shaped(e) /\ RunKnows(e) /\ Complete(e)
  PROVE  Complete(e)'
<1>1. CASE Emptied(e) \/ \E w \in WalkIds : Begins(e, w)
  BY <1>1 DEF Emptied, Begins, Complete
<1>2. CASE ~exec[e].mixed /\ Rests(e)
  BY <1>2 DEF Rests, Complete, Settled, Covered
<1>3. ASSUME NEW w \in WalksOf(e), StepOfWalk(w), ~exec[e].mixed
      PROVE  Complete(e)'
  <2>1. exec[e].status # "completed" /\ walk[w].exec = e
    BY <1>3 DEF Complete, WalksOf
  <2>2. CASE Halts(w) \/ Shifts(w) \/ Closes(w) \/ (\E n \in Nodes : Picks(w, n))
             \/ (\E N \in SUBSET WalkIds : Opens(w, N))
             \/ (\E hit \in SUBSET Nodes : Advances(w, hit))
    <3>1. exec'[e].status = exec[e].status
      BY <2>1, <2>2 DEF Halts, Shifts, Closes, Picks, Opens, Advances
    <3> QED
      BY <2>1, <3>1 DEF Complete
  <2>3. CASE Frees(w) /\ exec'[e].status = "completed"
    <3>1. w \in Tops(e)
      BY <2>3 DEF Frees, Tops
    <3>2. walk[w].role # "inside"
      BY <1>3, <3>1, TopFacts
    <3>3. EndStatus(w) = "completed"
      BY <2>1, <2>3, <3>2 DEF Frees
    <3>4. walk[w].state = "over" /\ exec[e].status = "running"
      BY <2>1, <3>3 DEF EndStatus, In
    <3>5. graph.nodes \subseteq Settled(e) \cup Covered(e)
      BY <1>3, <3>1, <3>4, NothingLeft DEF RunKnows, Stopped
    <3>6. exec'[e].nodes = exec[e].nodes
      BY <2>1, <2>3 DEF Frees
    <3>7. Settled(e)' = Settled(e) /\ Covered(e)' = Covered(e)
      BY <3>6 DEF Settled, Covered
    <3>8. WalksOf(e) = {w}
      BY <1>3, <3>1, <3>4, OnlyRun
    <3>9. WalksOf(e)' = {}
      BY <2>3, <3>8 DEF Frees, WalksOf
    <3> QED
      BY <3>5, <3>7, <3>9 DEF Complete
  <2> QED
    BY <1>3, <2>2, <2>3 DEF StepOfWalk, Complete
<1> QED
  BY <1>1, <1>2, <1>3 DEF OneEffect

\* Executions that are not mixed: a tree of walks whose root is the run, which knows
\* what is done, and nothing left once they are completed.
PlanInv ==
  \A e \in Executions :
    ~exec[e].mixed =>
      /\ Shaped(e)
      /\ BodiesNest(graph) => RunKnows(e) /\ Complete(e)

WalkInv == IInv /\ NoWalkUnknown /\ OneIteration

\* At first there is no walk to speak of.
LEMMA InitWalks == ASSUME Init PROVE WalkInv /\ PlanInv
<1>1. IInv
  BY InitOK
<1>2. \A e \in Executions : WalksOf(e) = {} /\ Tops(e) = {}
  BY DEF Init, WalksOf, Tops
<1>3. NoWalkUnknown /\ OneIteration
  BY <1>2 DEF Init, NoWalkUnknown, OneIteration, InOneLoop
<1>4. \A e \in Executions : exec[e].status = "none"
  BY DEF Init, NoExecution
<1>5. PlanInv
  BY <1>2, <1>4 DEF PlanInv, Shaped, RunKnows, Complete
<1> QED
  BY <1>1, <1>3, <1>5 DEF WalkInv

\* Every step keeps what is known of the walks.
LEMMA WalksStep == ASSUME WalkInv, [Next]_vars PROVE WalkInv'
<1>1. IInv'
  BY NextOK DEF WalkInv
<1> QED
  BY <1>1, OneIterationStays, NoWalkUnknownStays DEF WalkInv

\* Every step keeps the tree, the account and completion.
LEMMA PlanStep == ASSUME WalkInv, PlanInv, [Next]_vars PROVE PlanInv'
<1> SUFFICES ASSUME NEW e \in Executions, ~exec'[e].mixed
             PROVE  Shaped(e)' /\ (BodiesNest(graph)' => RunKnows(e)' /\ Complete(e)')
  BY DEF PlanInv
<1>1. IInv /\ IInv' /\ NoWalkUnknown /\ OneIteration
  BY WalksStep DEF WalkInv
<1>2. graph' = graph /\ OneEffect(e)
  BY <1>1, EffectOn DEF OneEffect
<1>3. Shaped(e)'
  BY <1>1, <1>2, ShapeStays DEF PlanInv
<1>4. BodiesNest(graph)' => RunKnows(e)' /\ Complete(e)'
  BY <1>1, <1>2, PlanStays, CompleteStays DEF PlanInv
<1> QED
  BY <1>3, <1>4

\* An execution that two runs have never worked on at once is reported completed only
\* when every node has completed, was skipped or lies in the body of a completed one,
\* and nothing of it works any more (runWorkflow, WorkflowEngine.ts:487; execute, :389).
THEOREM CompletedIsAll == Spec => []CompletedMeansAll
<1>1. Init => WalkInv /\ PlanInv
  BY InitWalks
<1>2. WalkInv /\ PlanInv /\ [Next]_vars => WalkInv' /\ PlanInv'
  BY WalksStep, PlanStep
<1>3. PlanInv => CompletedMeansAll
  BY DEF PlanInv, Complete, CompletedMeansAll
<1> QED
  BY <1>1, <1>2, <1>3, PTL DEF Spec

-----------------------------------------------------------------------------
(* The order inside bodies *)

Inner(e) == WalksOf(e) \ Tops(e)
AtNode == {"start", "busy", "delay", "inside", "ended"}

\* The nodes of its body that a walk has come to.
Taken(v) == (walk[v].done \cup walk[v].queue \cup {walk[v].at}) \cap walk[v].body

\* It came to them after those with an edge to them, and has completed what is done.
Walked(v) ==
  LET nodes == exec[walk[v].exec].nodes
  IN /\ \A m \in Taken(v) : \A d \in Into(graph, m) :
          d.from \in walk[v].body => d.from \in walk[v].done
     /\ \A m \in walk[v].done \cap walk[v].body : nodes[m] = "completed"
     /\ walk[v].state = "ended" => nodes[walk[v].at] = "completed"

\* Walks inside nodes do not come to the same node.
Ordered(e) ==
  /\ \A v \in Inner(e) : Walked(v)
  /\ \A v, u \in Inner(e) : v # u => Taken(v) \cap Taken(u) = {}

Known(e) == Shaped(e) /\ RunKnows(e) /\ Ordered(e)

\* The types of a walk inside a node, and that it has the body of this node.
LEMMA BodyFacts ==
  ASSUME IInv, NEW e \in Executions, Shaped(e), NEW v \in Inner(e)
  PROVE  LET p == walk[v].parent
         IN /\ v \in WalkIds /\ walk[v].exec = e /\ walk[v] \in Walk /\ walk[v].role = "inside"
            /\ p \in WalksOf(e) /\ walk[p].state = "inside"
            /\ walk[p].at \in graph.nodes /\ walk[v].body = Body(graph, walk[p].at)
            /\ walk[v].body \subseteq graph.nodes
            /\ walk[v].state \in AtNode => walk[v].at \in walk[v].body /\ walk[v].at \in Taken(v)
<1> DEFINE p == walk[v].parent
<1>1. WalksOK /\ graph \in Workflows
  BY TypeOKParts DEF IInv, RestOK
<1>2. /\ v \in WalkIds /\ walk[v] # None /\ walk[v].exec = e /\ walk[v] \in Walk
      /\ v \in WalksOf(e) \ Tops(e)
  BY <1>1 DEF Inner, WalksOf, WalksOK
<1>3. p \in WalksOf(e) /\ walk[p].state = "inside" /\ walk[v].role = "inside"
  BY <1>1, <1>2, InnerHasParent
<1>4. walk[v].body = Body(graph, walk[p].at)
  BY <1>2 DEF Shaped, InnerShaped
<1>5. walk[v].body \subseteq graph.nodes
  BY <1>1, <1>4, GraphNodes
<1>6. walk[v].state \in AtNode => walk[v].at \in walk[v].body /\ walk[v].at \in Taken(v)
  BY <1>1, <1>2 DEF WalksOK, Placed, AtNode, Taken
<1>7. walk[p].at \in walk[p].body /\ p \in WalkIds
  BY <1>1, <1>3 DEF WalksOK, Placed, WalksOf
<1>8. walk[p].body \subseteq graph.nodes
  <2>1. CASE p \in Tops(e)
    BY <2>1, TopFacts
  <2>2. CASE p \notin Tops(e)
    <3>1. InnerShaped(p)
      BY <1>3, <2>2 DEF Shaped
    <3> QED
      BY <1>1, <3>1, GraphNodes DEF InnerShaped
  <2> QED
    BY <2>1, <2>2
<1> QED
  BY <1>2, <1>3, <1>4, <1>5, <1>6, <1>7, <1>8

\* Only the walk at a node has come to it.
LEMMA TakenOnce ==
  ASSUME IInv, NEW e \in Executions, Known(e), NEW w \in WalksOf(e), walk[w].state \in AtNode,
         NEW q \in Inner(e), q # w
  PROVE  walk[w].at \notin Taken(q)
<1>1. Shaped(e) /\ graph \in Workflows
  BY TypeOKParts DEF Known, IInv, RestOK
<1>2. CASE w \in Tops(e)
  <2>1. walk[w].exec = e
    BY DEF WalksOf
  <2>2. walk[q].body \subseteq Body(graph, walk[w].at)
    BY <1>2, <2>1 DEF Known, RunKnows, Within, Inner
  <2> QED
    BY <1>1, <2>2, NotInOwnBody DEF Taken
<1>3. CASE w \notin Tops(e)
  BY <1>1, <1>3, BodyFacts DEF Known, Ordered, Inner
<1> QED
  BY <1>2, <1>3

\* Two walks are not at the same node.
LEMMA NodesApart ==
  ASSUME IInv, NEW e \in Executions, Known(e), NEW w \in WalksOf(e), walk[w].state \in AtNode,
         NEW p \in WalksOf(e), walk[p].state \in AtNode, w # p
  PROVE  walk[w].at # walk[p].at
<1>1. Shaped(e)
  BY DEF Known
<1>2. CASE p \in Inner(e)
  BY <1>1, <1>2, TakenOnce, BodyFacts
<1>3. CASE w \in Inner(e)
  BY <1>1, <1>3, TakenOnce, BodyFacts
<1>4. CASE p \in Tops(e) /\ w \in Tops(e)
  BY <1>1, <1>4 DEF Shaped
<1> QED
  BY <1>2, <1>3, <1>4 DEF Inner

\* The node of a walk that waits in the body of another one's node is of its body.
LEMMA BackToTaken ==
  ASSUME IInv, NEW e \in Executions, Known(e), BodiesNest(graph), NEW q \in Inner(e),
         NEW n \in walk[q].body, NEW x \in Body(graph, n), x \in Taken(q)
  PROVE  n \in Taken(q)
<1> SUFFICES ASSUME n \notin Taken(q) PROVE FALSE
  OBVIOUS
<1> DEFINE B == walk[q].body
           X == Taken(q)
<1>1. /\ graph \in Workflows /\ Shaped(e) /\ Walked(q)
  BY TypeOKParts DEF IInv, RestOK, Known, Ordered
<1>2. B \subseteq graph.nodes /\ \E k \in graph.nodes : B = Body(graph, k)
  BY <1>1, BodyFacts
<1>3. Body(graph, n) \subseteq B
  BY <1>2 DEF BodiesNest
<1>4. \A m \in X : \A d \in Into(graph, m) : d.from \in B => d.from \in X
  BY <1>1 DEF Walked, Taken
<1> HIDE DEF B, X
<1>5. Body(graph, n) \cap X = {}
  <2>1. n \in B /\ n \notin X
    BY DEF B, X
  <2> QED
    BY <1>1, <1>3, <1>4, <2>1, BackToOwner
<1> QED
  BY <1>5 DEF X

\* No walk waits in the body of a node whose body nobody is in yet.
LEMMA NobodyWaitsInBody ==
  ASSUME IInv, NEW e \in Executions, Known(e), Structured(graph),
         NEW w \in WalksOf(e), walk[w].state \in AtNode, \A x \in Inside(w) : Returned(x),
         NEW p \in WalksOf(e), walk[p].state = "inside"
  PROVE  walk[p].at \notin Body(graph, walk[w].at)
<1> DEFINE n == walk[w].at
           S == {q \in WalksOf(e) : walk[q].state = "inside" /\ walk[q].at \in Body(graph, n)}
<1> SUFFICES ASSUME p \in S PROVE FALSE
  OBVIOUS
<1>1. Shaped(e) /\ graph \in Workflows /\ BodiesNest(graph) /\ BodiesApart(graph)
  BY TypeOKParts DEF Known, IInv, RestOK, Structured
<1>2. PICK q \in S : walk[q].parent \notin S
  BY <1>1 DEF Shaped
<1>3. n \notin Body(graph, n)
  BY <1>1, NotInOwnBody
<1>4. CASE q \in Tops(e)
  <2>1. w # q
    BY <1>2, <1>3
  <2>2. Body(graph, n) \subseteq Body(graph, walk[q].at)
    BY <1>1, <1>4, <2>1, InnerFacts DEF Known, RunKnows, AtNode
  <2> QED
    BY <1>1, <1>2, <2>2, NotInOwnBody
<1>5. CASE q \in Inner(e)
  <2> DEFINE k == walk[walk[q].parent].at
  <2>1. /\ walk[q].parent \in WalksOf(e) /\ walk[walk[q].parent].state = "inside"
        /\ k \in graph.nodes /\ walk[q].body = Body(graph, k)
        /\ walk[q].at \in walk[q].body /\ walk[q].at \in Taken(q)
    BY <1>1, <1>2, <1>5, BodyFacts DEF AtNode
  <2>2. n \in graph.nodes
    <3>1. CASE w \in Tops(e)
      BY <1>1, <3>1, TopFacts DEF AtNode
    <3>2. CASE w \in Inner(e)
      BY <1>1, <3>2, BodyFacts
    <3> QED
      BY <3>1, <3>2 DEF Inner
  <2>3. k \notin Body(graph, n)
    BY <1>2, <2>1
  <2>4. k # n
    <3>1. CASE walk[q].parent = w
      <4>1. q \in Inside(w)
        BY <3>1 DEF Inside, WalksOf
      <4> QED
        BY <1>2, <4>1 DEF Returned, In
    <3>2. CASE walk[q].parent # w
      BY <2>1, <3>2, NodesApart DEF AtNode
    <3> QED
      BY <3>1, <3>2
  <2>5. n \in Body(graph, k)
    BY <1>1, <1>2, <2>1, <2>2, <2>3, <2>4 DEF BodiesApart
  <2>6. n \in Taken(q)
    BY <1>1, <1>2, <1>5, <2>1, <2>5, BackToTaken
  <2>7. q # w
    BY <1>2, <1>3
  <2> QED
    BY <1>5, <2>6, <2>7, TakenOnce
<1> QED
  BY <1>2, <1>4, <1>5 DEF Inner

\* No other walk has come to an entry of a body that nobody is in.
LEMMA EntryIsFresh ==
  ASSUME IInv, NEW e \in Executions, Known(e), Structured(graph),
         NEW w \in WalksOf(e), walk[w].state \in AtNode, \A x \in Inside(w) : Returned(x),
         NEW u \in Inner(e), u \notin Inside(w),
         NEW m \in Entries(graph, walk[w].at), m \in Body(graph, walk[w].at)
  PROVE  m \notin Taken(u)
<1> DEFINE n == walk[w].at
           k == walk[walk[u].parent].at
<1> SUFFICES ASSUME m \in Taken(u) PROVE FALSE
  OBVIOUS
<1>1. Shaped(e) /\ graph \in Workflows /\ BodiesNest(graph) /\ BodiesApart(graph)
  BY TypeOKParts DEF Known, IInv, RestOK, Structured
<1>2. /\ walk[u].parent \in WalksOf(e) /\ walk[walk[u].parent].state = "inside"
      /\ k \in graph.nodes /\ walk[u].body = Body(graph, k) /\ u \in WalkIds
  BY <1>1, BodyFacts
<1>3. n \in graph.nodes
  <2>1. CASE w \in Tops(e)
    BY <1>1, <2>1, TopFacts DEF AtNode
  <2>2. CASE w \in Inner(e)
    BY <1>1, <2>2, BodyFacts
  <2> QED
    BY <2>1, <2>2 DEF Inner
<1>4. k \notin Body(graph, n)
  BY <1>2, NobodyWaitsInBody
<1>5. k # n
  <2>1. walk[u].parent # w
    BY DEF Inside, Inner, WalksOf
  <2> QED
    BY <1>2, <2>1, NodesApart DEF AtNode
<1>6. n \in Body(graph, k)
  BY <1>1, <1>2, <1>3, <1>4, <1>5 DEF BodiesApart, Taken
<1>7. n \in walk[u].done /\ n \in Taken(u)
  <2>1. PICK d \in Into(graph, m) : d.from = n
    BY EntryEdge
  <2>2. Walked(u)
    BY DEF Known, Ordered
  <2> QED
    BY <1>2, <1>6, <2>1, <2>2 DEF Walked, Taken
<1>8. u # w
  BY <1>1, <1>7 DEF Shaped, AtShaped
<1> QED
  BY <1>7, <1>8, TakenOnce

\* No other walk has come to what a walk makes ready.
LEMMA NextIsFresh ==
  ASSUME IInv, NEW e \in Executions, Known(e), Structured(graph),
         NEW w \in Inner(e), walk[w].state = "ended", NEW u \in Inner(e), u # w,
         NEW m \in walk[w].body, NEW c \in Into(graph, m), c.from = walk[w].at,
         \A d \in Into(graph, m) :
           d.from \in walk[w].body => d.from \in walk[w].done \cup {walk[w].at}
  PROVE  m \notin Taken(u)
<1> DEFINE n == walk[w].at
           B == walk[w].body
           l == walk[walk[w].parent].at
           k == walk[walk[u].parent].at
<1> SUFFICES ASSUME m \in Taken(u) PROVE FALSE
  OBVIOUS
<1>1. Shaped(e) /\ graph \in Workflows /\ BodiesNest(graph) /\ BodiesApart(graph)
  BY TypeOKParts DEF Known, IInv, RestOK, Structured
<1>2. /\ walk[u].parent \in WalksOf(e) /\ walk[walk[u].parent].state = "inside"
      /\ k \in graph.nodes /\ walk[u].body = Body(graph, k)
  BY <1>1, BodyFacts
<1>3. /\ l \in graph.nodes /\ B = Body(graph, l) /\ n \in B /\ n \in Taken(w)
      /\ w \in WalksOf(e)
  BY <1>1, BodyFacts DEF AtNode, Inner
<1>4. n \notin Taken(u)
  BY <1>3, TakenOnce DEF AtNode
<1>5. Walked(u) /\ Walked(w)
  BY DEF Known, Ordered
<1>6. n \notin walk[u].body
  BY <1>4, <1>5 DEF Walked, Taken
<1>7. k \in B
  <2>1. m \in Body(graph, l) \cap Body(graph, k) /\ k # l
    BY <1>2, <1>3, <1>6 DEF Taken
  <2>2. l \notin Body(graph, k)
    BY <1>1, <1>2, <1>3, <1>6 DEF BodiesNest
  <2> QED
    BY <1>1, <1>2, <1>3, <2>1, <2>2 DEF BodiesApart
<1> DEFINE X == ((walk[w].done \cup {n}) \cap B) \cup {m}
<1>8. \A x \in X : \A d \in Into(graph, x) : d.from \in B => d.from \in X
  BY <1>5 DEF Walked, Taken
<1>9. Body(graph, k) \subseteq B
  BY <1>1, <1>3, <1>7 DEF BodiesNest
<1>10. k \in X
  <2> HIDE DEF X, B
  <2>1. m \in Body(graph, k)
    BY <1>2 DEF Taken
  <2>2. k \notin X => Body(graph, k) \cap X = {}
    BY <1>1, <1>7, <1>8, <1>9, BackToOwner
  <2> QED
    BY <2>1, <2>2 DEF X
<1>11. k # m
  BY <1>1, <1>2, NotInOwnBody DEF Taken
<1>12. k \in Taken(w)
  BY <1>7, <1>10, <1>11 DEF Taken
<1>13. walk[u].parent # w
  BY <1>2
<1> QED
  BY <1>2, <1>12, <1>13, TakenOnce DEF AtNode

\* A walk that rests, and whose nodes do, stays in order.
LEMMA OrderRests ==
  ASSUME IInv, graph' = graph, NEW e \in Executions, Shaped(e), NEW v \in Inner(e), Walked(v),
         walk'[v] = walk[v], \A m \in Taken(v) : exec'[e].nodes[m] = exec[e].nodes[m]
  PROVE  Walked(v)' /\ Taken(v)' = Taken(v)
<1>1. walk[v].exec = e /\ (walk[v].state = "ended" => walk[v].at \in Taken(v))
  BY BodyFacts DEF AtNode
<1>2. Taken(v)' = Taken(v)
  BY DEF Taken
<1>3. walk[v].done \cap walk[v].body \subseteq Taken(v)
  BY DEF Taken
<1>4. \A m \in Taken(v)' : \A d \in Into(graph, m)' :
        d.from \in walk'[v].body => d.from \in walk'[v].done
  BY <1>2 DEF Walked
<1> QED
  BY <1>1, <1>2, <1>3, <1>4 DEF Walked

\* One walk inside moves.
LEMMA OneInOrder ==
  ASSUME IInv, graph' = graph, NEW e \in Executions, Shaped(e), Ordered(e),
         NEW w \in Inner(e), Inner(e)' \subseteq Inner(e), Walked(w)',
         \A u \in Inner(e) : u # w =>
           /\ u \in Inner(e)' => walk'[u] = walk[u]
           /\ Taken(w)' \cap Taken(u) = {}
           /\ \A m \in Taken(u) : exec'[e].nodes[m] = exec[e].nodes[m]
  PROVE  Ordered(e)'
<1>1. \A u \in Inner(e)' : u # w => Walked(u)' /\ Taken(u)' = Taken(u) /\ u \in Inner(e)
  BY OrderRests DEF Ordered
<1>2. \A u \in Inner(e)' : Walked(u)'
  BY <1>1
<1>3. \A u \in Inner(e)' : u # w => Taken(w)' \cap Taken(u)' = {}
  BY <1>1
<1>4. \A v, u \in Inner(e)' : v # u => Taken(v)' \cap Taken(u)' = {}
  BY <1>1, <1>3 DEF Ordered
<1> QED
  BY <1>2, <1>4 DEF Ordered

\* A walk that halts, shifts, picks or advances keeps the order.
LEMMA MoveKeepsOrder ==
  ASSUME IInv, IInv', graph' = graph, NEW e \in Executions, Known(e), Structured(graph),
         NEW w \in WalksOf(e),
         \/ Halts(w) \/ Shifts(w) \/ (\E n \in Nodes : Picks(w, n))
         \/ (\E hit \in SUBSET Nodes : Advances(w, hit))
  PROVE  Ordered(e)'
<1>1. Shaped(e) /\ Ordered(e) /\ RunKnows(e)
  BY DEF Known
<1>2. /\ Moved(w) /\ walk[w].state # "inside" /\ w \in WalkIds /\ walk[w].exec = e
  BY DEF Halts, Shifts, Picks, Advances, WalksOf
<1>3. WalksOf(e)' = WalksOf(e) /\ Inner(e)' = Inner(e)
      /\ \A u \in WalksOf(e) : u # w => walk'[u] = walk[u]
  BY <1>2 DEF Moved, WalksOf, Tops, Inner
<1>4. CASE w \in Tops(e)
  <2>1. WalksOf(e) = {w}
    BY <1>1, <1>2, <1>4, OnlyRun
  <2>2. Inner(e)' = {}
    BY <1>3, <1>4, <2>1 DEF Inner
  <2> QED
    BY <2>2 DEF Ordered
<1>5. ASSUME w \in Inner(e)
      PROVE  Ordered(e)'
  <2>1. /\ Walked(w) /\ walk[w] \in Walk /\ walk[w].role = "inside"
        /\ walk[w].state \in AtNode => walk[w].at \in walk[w].body
        /\ walk[w].body \subseteq Nodes
        /\ \A u \in Inner(e) : u # w => Taken(w) \cap Taken(u) = {}
    BY <1>1, <1>5, BodyFacts DEF Ordered, Walk
  <2>2. walk'[w].exec = e /\ walk'[w].body = walk[w].body
    BY <1>2 DEF Moved
  <2>3. \A u \in Inner(e) : u # w => walk'[u] = walk[u]
    BY <1>3 DEF Inner
  <2>4. CASE Halts(w) \/ Shifts(w)
    <3>1. SameLists(w) /\ exec' = exec /\ walk'[w].state # "ended"
      BY <2>4 DEF Halts, Shifts
    <3>2. Taken(w)' = Taken(w)
      BY <2>2, <3>1 DEF Taken, SameLists
    <3>3. Walked(w)'
      BY <1>2, <2>1, <2>2, <3>1, <3>2 DEF Walked, SameLists
    <3> QED
      BY <1>1, <1>3, <1>5, <2>1, <2>3, <3>1, <3>2, <3>3, OneInOrder
  <2>5. ASSUME NEW n \in Nodes, Picks(w, n)
        PROVE  Ordered(e)'
    <3>1. /\ walk'[w].queue = walk[w].queue \ {n} /\ walk'[w].at = n
          /\ walk'[w].done = walk[w].done /\ walk'[w].state = "start"
          /\ \A m \in Nodes \ {n} : exec'[e].nodes[m] = exec[e].nodes[m]
          /\ n \in walk[w].queue /\ n \in walk[w].body /\ n \notin walk[w].done
      BY <1>2, <2>5 DEF Picks, Ready
    <3>2. Taken(w)' \subseteq Taken(w) /\ n \in Taken(w)
      BY <2>2, <3>1 DEF Taken
    <3>3. \A m \in walk[w].done \cap walk[w].body : exec'[e].nodes[m] = "completed"
      BY <1>2, <2>1, <3>1 DEF Walked
    <3>4. \A m \in Taken(w)' : \A d \in Into(graph, m)' :
            d.from \in walk'[w].body => d.from \in walk'[w].done
      BY <2>1, <2>2, <3>1, <3>2 DEF Walked
    <3>5. Walked(w)'
      BY <2>2, <3>1, <3>3, <3>4 DEF Walked
    <3>6. \A u \in Inner(e) : u # w =>
            /\ Taken(w)' \cap Taken(u) = {}
            /\ \A m \in Taken(u) : exec'[e].nodes[m] = exec[e].nodes[m]
      <4>1. \A u \in Inner(e) : Taken(u) \subseteq Nodes
        BY <1>1, BodyFacts DEF Taken, Walk
      <4> QED
        BY <2>1, <3>1, <3>2, <4>1
    <3> QED
      BY <1>1, <1>3, <1>5, <2>3, <3>5, <3>6, OneInOrder
  <2>6. ASSUME NEW hit \in SUBSET Nodes, Advances(w, hit)
        PROVE  Ordered(e)'
    <3> DEFINE n == walk[w].at
    <3>1. /\ walk[w].state = "ended" /\ walk'[w].state = "next" /\ walk'[w].at = None
          /\ hit = {} /\ walk'[w].done = walk[w].done \cup {n}
          /\ \A m \in Nodes : exec'[e].nodes[m] = exec[e].nodes[m]
          /\ \A m \in walk'[w].queue \ walk[w].queue :
               /\ m \in walk[w].body /\ \E d \in Into(graph, m) : d.from = n
               /\ \A d \in Into(graph, m) :
                    d.from \in walk[w].body => d.from \in walk'[w].done
      BY <1>2, <2>1, <2>6 DEF Advances
    <3>2. n \in walk[w].body /\ n \in Taken(w) /\ None \notin walk[w].body
      BY <2>1, <3>1, NoneAssumption DEF AtNode, Taken, NoneAssumption
    <3>3. Taken(w)' \subseteq Taken(w) \cup (walk'[w].queue \ walk[w].queue)
      BY <2>2, <3>1, <3>2 DEF Taken
    <3>4. \A m \in Taken(w)' : \A d \in Into(graph, m)' :
            d.from \in walk'[w].body => d.from \in walk'[w].done
      BY <2>1, <2>2, <3>1, <3>3 DEF Walked
    <3>5. \A m \in walk'[w].done \cap walk'[w].body : exec'[e].nodes[m] = "completed"
      BY <1>2, <2>1, <2>2, <3>1 DEF Walked
    <3>6. Walked(w)'
      BY <2>2, <3>1, <3>4, <3>5 DEF Walked
    <3>7. \A u \in Inner(e) : u # w =>
            /\ Taken(w)' \cap Taken(u) = {}
            /\ \A m \in Taken(u) : exec'[e].nodes[m] = exec[e].nodes[m]
      <4> SUFFICES ASSUME NEW u \in Inner(e), u # w
                   PROVE  /\ Taken(w)' \cap Taken(u) = {}
                          /\ \A m \in Taken(u) : exec'[e].nodes[m] = exec[e].nodes[m]
        OBVIOUS
      <4>1. Taken(u) \subseteq Nodes
        BY <1>1, BodyFacts DEF Taken, Walk
      <4>2. \A m \in walk'[w].queue \ walk[w].queue : m \notin Taken(u)
        BY <1>5, <3>1, NextIsFresh
      <4> QED
        BY <2>1, <3>1, <3>3, <4>1, <4>2
    <3> QED
      BY <1>1, <1>3, <1>5, <2>3, <3>6, <3>7, OneInOrder
  <2> QED
    BY <2>4, <2>5, <2>6
<1> QED
  BY <1>4, <1>5 DEF Inner

\* An attempt that ends keeps the order.
LEMMA CloseKeepsOrder ==
  ASSUME IInv, graph' = graph, NEW e \in Executions, Known(e), Structured(graph),
         ~exec'[e].mixed, NEW w \in WalksOf(e), Closes(w)
  PROVE  Ordered(e)'
<1>1. Shaped(e) /\ Ordered(e) /\ RunKnows(e) /\ BodiesNest(graph) /\ walk[w].exec = e
      /\ WalksOK
  BY TypeOKParts DEF Known, Structured, WalksOf, IInv
<1>2. /\ WalksOf(e)' = WalksOf(e) \ Inside(w)
      /\ \A v \in WalksOf(e)' : v # w => walk'[v] = walk[v]
  BY <1>1, CloseKeepsShape
<1>3. CASE w \in Tops(e)
  <2>1. \A v \in Inside(w) : Returned(v)
    BY <1>1 DEF Closes
  <2>2. WalksOf(e)' \subseteq {w}
    BY <1>1, <1>2, <1>3, <2>1, Alone
  <2>3. Inner(e)' = {}
    BY <1>3, <2>2 DEF Inner, Tops, Closes
  <2> QED
    BY <2>3 DEF Ordered
<1>4. ASSUME w \in Inner(e)
      PROVE  Ordered(e)'
  <2>1. Inner(e)' \subseteq Inner(e)
    BY <1>2 DEF Inner, Tops, Closes
  <2>2. /\ SameLists(w) /\ walk'[w].body = walk[w].body /\ walk'[w].exec = e
        /\ walk[w].state \in AtNode
        /\ walk'[w].state = "ended" => exec'[e].nodes[walk[w].at] = "completed"
        /\ \A n \in Nodes \ {walk[w].at} : exec'[e].nodes[n] = exec[e].nodes[n]
    BY <1>1 DEF Closes, AtNode
  <2>3. Taken(w)' = Taken(w)
    BY <2>2 DEF Taken, SameLists
  <2>4. Walked(w) /\ AtShaped(w) /\ walk[w].body \subseteq Nodes
    <3>1. walk[w] \in Walk
      BY <1>1, <1>4, BodyFacts
    <3> QED
      BY <1>1, <1>4, <3>1 DEF Ordered, Shaped, Walk
  <2>5. \A m \in Taken(w)' : \A d \in Into(graph, m)' :
          d.from \in walk'[w].body => d.from \in walk'[w].done
    BY <2>2, <2>3, <2>4 DEF Walked, SameLists
  <2>6. \A m \in walk'[w].done \cap walk'[w].body : exec'[e].nodes[m] = "completed"
    BY <1>1, <2>2, <2>4 DEF Walked, AtShaped, SameLists
  <2>7. Walked(w)'
    BY <2>2, <2>5, <2>6 DEF Walked, SameLists
  <2>8. \A u \in Inner(e) : u # w =>
          /\ Taken(w)' \cap Taken(u) = {}
          /\ \A m \in Taken(u) : exec'[e].nodes[m] = exec[e].nodes[m]
    <3> SUFFICES ASSUME NEW u \in Inner(e), u # w
                 PROVE  /\ Taken(w)' \cap Taken(u) = {}
                        /\ \A m \in Taken(u) : exec'[e].nodes[m] = exec[e].nodes[m]
      OBVIOUS
    <3>1. Taken(u) \subseteq Nodes
      BY <1>1, BodyFacts DEF Taken, Walk
    <3>2. walk[w].at \notin Taken(u)
      BY <2>2, TakenOnce
    <3>3. Taken(w) \cap Taken(u) = {}
      BY <1>1, <1>4 DEF Ordered
    <3> QED
      BY <2>2, <2>3, <3>1, <3>2, <3>3
  <2>9. \A u \in Inner(e)' : u # w => walk'[u] = walk[u]
    BY <1>2 DEF Inner
  <2> QED
    BY <1>1, <1>4, <2>1, <2>7, <2>8, <2>9, OneInOrder
<1> QED
  BY <1>3, <1>4 DEF Inner

\* Walks that begin inside a node come to nodes that nobody has come to.
LEMMA OpenKeepsOrder ==
  ASSUME IInv, graph' = graph, NEW e \in Executions, Known(e), Structured(graph),
         NEW w \in WalksOf(e), NEW N \in SUBSET WalkIds, Opens(w, N)
  PROVE  Ordered(e)'
<1> DEFINE n == walk[w].at
<1>1. /\ Shaped(e) /\ Ordered(e) /\ EntriesFree(graph) /\ graph \in Workflows
      /\ walk[w].exec = e /\ walk[w].state \in AtNode
  BY TypeOKParts DEF Known, Structured, WalksOf, IInv, RestOK, Opens, AtNode
<1>2. /\ WalksOf(e)' = WalksOf(e) \cup N /\ N \cap Tops(e)' = {} /\ Tops(e)' = Tops(e)
  BY <1>1, OpenKeepsShape
<1>3. \A u \in Inner(e)' : u \in N \/ (u \in Inner(e) /\ u \notin N)
  BY <1>2 DEF Inner
<1>4. \A x \in Inside(w) : Returned(x) /\ x \in N
  BY DEF Opens, Inside
<1>5. ASSUME NEW u \in Inner(e), u \notin N
      PROVE  Walked(u)' /\ Taken(u)' = Taken(u)
  <2>1. Walked(u) /\ u \in WalksOf(e)
    BY <1>1, <1>5 DEF Ordered, Inner
  <2>2. CASE u = w
    <3>1. /\ SameLists(u) /\ walk'[u].body = walk[u].body /\ walk'[u].exec = walk[u].exec
          /\ exec' = exec /\ walk'[u].state # "ended"
      BY <2>2 DEF Opens
    <3>2. Taken(u)' = Taken(u)
      BY <3>1 DEF Taken, SameLists
    <3> QED
      BY <2>1, <3>1, <3>2 DEF Walked, SameLists
  <2>3. CASE u # w
    <3>1. walk'[u] = walk[u] /\ exec' = exec
      BY <1>5, <2>1, <2>3 DEF Opens, WalksOf
    <3> QED
      BY <1>1, <2>1, <3>1, OrderRests
  <2> QED
    BY <2>2, <2>3
<1>6. n \in graph.nodes /\ n # None /\ None \notin Body(graph, n)
  <2>1. n \in graph.nodes
    <3>1. CASE w \in Tops(e)
      BY <1>1, <3>1, TopFacts DEF AtNode
    <3>2. CASE w \in Inner(e)
      BY <1>1, <3>2, BodyFacts
    <3> QED
      BY <3>1, <3>2 DEF Inner
  <2> QED
    BY <1>1, <2>1, GraphNodes, NoneAssumption DEF NoneAssumption
<1>7. ASSUME NEW v \in N
      PROVE  /\ Walked(v)' /\ Taken(v)' \subseteq walk'[v].queue
             /\ \A m \in Taken(v)' : m \in Entries(graph, n) /\ m \in Body(graph, n)
  <2>1. /\ walk'[v].body = Body(graph, n) /\ walk'[v].done = {n} /\ walk'[v].state = "next"
        /\ walk'[v].queue \subseteq Entries(graph, n) /\ walk'[v].at = None
    BY <1>7 DEF Opens
  <2>2. n \notin Body(graph, n)
    BY <1>1, NotInOwnBody
  <2>3. Taken(v)' \subseteq walk'[v].queue /\ Taken(v)' \subseteq Body(graph, n)
    BY <1>6, <2>1, <2>2 DEF Taken
  <2>4. \A m \in Taken(v)' : \A d \in Into(graph, m) : d.from \notin Body(graph, n)
    BY <1>1, <1>6, <2>1, <2>3 DEF EntriesFree
  <2>5. Walked(v)'
    BY <2>1, <2>2, <2>4 DEF Walked
  <2> QED
    BY <2>1, <2>3, <2>5
<1>8. \A v \in N, u \in Inner(e) : u \notin N => Taken(v)' \cap Taken(u)' = {}
  <2> SUFFICES ASSUME NEW v \in N, NEW u \in Inner(e), u \notin N, NEW m \in Taken(v)'
               PROVE  m \notin Taken(u)'
    OBVIOUS
  <2>1. m \in Entries(graph, n) /\ m \in Body(graph, n)
    BY <1>7
  <2>2. u \notin Inside(w)
    BY <1>4
  <2>3. m \notin Taken(u)
    BY <1>1, <1>4, <2>1, <2>2, EntryIsFresh
  <2> QED
    BY <1>5, <2>3
<1>9. \A v, u \in N : v # u => Taken(v)' \cap Taken(u)' = {}
  BY <1>7 DEF Opens
<1>10. \A v, u \in Inner(e) : v \notin N /\ u \notin N /\ v # u => Taken(v)' \cap Taken(u)' = {}
  BY <1>1, <1>5 DEF Ordered
<1>11. \A u \in Inner(e)' : Walked(u)'
  BY <1>3, <1>5, <1>7
<1>12. \A v, u \in Inner(e)' : v # u => Taken(v)' \cap Taken(u)' = {}
  BY <1>3, <1>8, <1>9, <1>10
<1> QED
  BY <1>11, <1>12 DEF Ordered

\* What rests keeps the order.
LEMMA RestKeepsOrder ==
  ASSUME IInv, graph' = graph, NEW e \in Executions, Shaped(e), Ordered(e), Rests(e)
  PROVE  Ordered(e)'
<1>1. Inner(e)' = Inner(e)
  BY RestKeepsShape DEF Inner, Rests
<1>2. \A v \in Inner(e) : Walked(v)' /\ Taken(v)' = Taken(v)
  BY OrderRests DEF Ordered, Rests, Inner
<1> QED
  BY <1>1, <1>2 DEF Ordered

\* The walks of an execution in a structured workflow stay in order.
LEMMA OrderStays ==
  ASSUME IInv, IInv', graph' = graph, NEW e \in Executions, ~exec'[e].mixed, OneEffect(e),
         Structured(graph), ~exec[e].mixed => Known(e)
  PROVE  Ordered(e)'
<1>1. CASE Emptied(e)
  BY <1>1 DEF Emptied, Ordered, Inner
<1>2. ASSUME NEW w \in WalkIds, Begins(e, w)
      PROVE  Ordered(e)'
  <2>1. Inner(e)' = {}
    BY <1>2, BeginIsShaped DEF Begins, Inner
  <2> QED
    BY <2>1 DEF Ordered
<1>3. CASE ~exec[e].mixed /\ Rests(e)
  BY <1>3, RestKeepsOrder DEF Known
<1>4. ASSUME NEW w \in WalksOf(e), StepOfWalk(w), ~exec[e].mixed
      PROVE  Ordered(e)'
  <2>1. Known(e) /\ Shaped(e) /\ RunKnows(e)
    BY <1>4 DEF Known
  <2>2. CASE \/ Halts(w) \/ Shifts(w) \/ (\E n \in Nodes : Picks(w, n))
             \/ (\E hit \in SUBSET Nodes : Advances(w, hit))
    BY <2>1, <2>2, MoveKeepsOrder
  <2>3. CASE Closes(w) \/ \E N \in SUBSET WalkIds : Opens(w, N)
    BY <2>1, <2>3, CloseKeepsOrder, OpenKeepsOrder
  <2>4. CASE Frees(w)
    <3>1. w \in Tops(e) /\ walk[w].state # "inside"
      BY <2>4 DEF Frees, Tops, Returned, In
    <3>2. WalksOf(e) = {w}
      BY <2>1, <3>1, OnlyRun
    <3>3. Inner(e)' = {}
      BY <2>4, <3>2 DEF Frees, WalksOf, Inner
    <3> QED
      BY <3>3 DEF Ordered
  <2> QED
    BY <1>4, <2>2, <2>3, <2>4 DEF StepOfWalk
<1> QED
  BY <1>1, <1>2, <1>3, <1>4 DEF OneEffect

\* In a structured workflow, walks inside nodes are in order.
OrderInv == \A e \in Executions : Structured(graph) /\ ~exec[e].mixed => Ordered(e)

\* Every step keeps the order.
LEMMA OrderStep == ASSUME WalkInv, PlanInv, OrderInv, [Next]_vars PROVE OrderInv'
<1> SUFFICES ASSUME NEW e \in Executions, ~exec'[e].mixed, Structured(graph)'
             PROVE  Ordered(e)'
  BY DEF OrderInv
<1>1. IInv /\ IInv' /\ NoWalkUnknown /\ OneIteration
  BY WalksStep DEF WalkInv
<1>2. graph' = graph /\ OneEffect(e)
  BY <1>1, EffectOn DEF OneEffect
<1>3. ~exec[e].mixed => Known(e)
  BY <1>2 DEF PlanInv, OrderInv, Known, Structured
<1> QED
  BY <1>1, <1>2, <1>3, OrderStays

\* What the invariants say of a node that works.
LEMMA BusyInOrder == ASSUME WalkInv, PlanInv, OrderInv PROVE OrderRespected
<1> SUFFICES ASSUME NEW w \in WalkIds, Structured(graph), In(w, {"busy"}),
                    ~exec[walk[w].exec].mixed,
                    NEW d \in Into(graph, walk[w].at), d.from \in walk[w].body
             PROVE  d.from \in Settled(walk[w].exec) \cup Covered(walk[w].exec)
  BY DEF OrderRespected
<1> DEFINE e == walk[w].exec
<1>1. /\ WalksOK /\ IInv /\ graph \in Workflows /\ walk[w] # None /\ walk[w].state = "busy"
  BY TypeOKParts DEF WalkInv, IInv, RestOK, In
<1>2. e \in Executions /\ w \in WalksOf(e)
  BY <1>1 DEF WalksOK, Walk, WalksOf
<1>3. Known(e) /\ Shaped(e)
  BY <1>2 DEF PlanInv, OrderInv, Known, Structured
<1>4. CASE w \in Inner(e)
  <2>1. walk[w].at \in Taken(w) /\ walk[w].body \subseteq graph.nodes
    BY <1>1, <1>2, <1>3, <1>4, BodyFacts DEF AtNode
  <2>2. Walked(w)
    BY <1>3, <1>4 DEF Known, Ordered
  <2>3. exec[e].nodes[d.from] = "completed" /\ d.from \in graph.nodes
    BY <2>1, <2>2 DEF Walked
  <2> QED
    BY <2>3 DEF Settled
<1>5. CASE w \in Tops(e)
  <2>1. Planned(w) /\ walk[w].at # None
    BY <1>1, <1>2, <1>3, <1>5, TopFacts DEF Known, RunKnows
  <2>2. d.from \in walk[w].done \cup walk[w].skipped
    BY <2>1 DEF Planned, DependenciesSatisfied
  <2>3. Accounted(w, d.from)
    BY <2>1, <2>2 DEF Planned, AllAccounted
  <2>4. Body(graph, walk[w].at) = {}
    <3>1. graph.kind[walk[w].at] \in {"work", "condition"}
      BY <1>1, <1>2, <1>3 DEF Shaped, AtShaped
    <3> QED
      BY <3>1 DEF Body
  <2>5. d.from \in graph.nodes
    BY <1>1, EngineAssumption DEF EngineAssumption, IsWorkflow, Edge, Into, Control
  <2> QED
    BY <2>3, <2>4, <2>5 DEF Accounted, Settled, Covered
<1> QED
  BY <1>2, <1>4, <1>5 DEF Inner

\* In a structured workflow, a node works only when every node with a control edge to
\* it has completed or been skipped, or lies in the body of one that has, in an
\* execution that two walks over the same nodes have never worked on at once
\* (dependenciesSatisfied, WorkflowEngine.ts:570; dependenciesSatisfiedWithin, :787).
THEOREM OrderIsRespected == Spec => []OrderRespected
<1>1. Init => WalkInv /\ PlanInv /\ OrderInv
  <2>1. Init => OrderInv
    BY DEF Init, OrderInv, Ordered, Inner, WalksOf
  <2> QED
    BY <2>1, InitWalks
<1>2. WalkInv /\ PlanInv /\ OrderInv /\ [Next]_vars => WalkInv' /\ PlanInv' /\ OrderInv'
  BY WalksStep, PlanStep, OrderStep
<1>3. WalkInv /\ PlanInv /\ OrderInv => OrderRespected
  BY BusyInOrder
<1> QED
  BY <1>1, <1>2, <1>3, PTL DEF Spec
=============================================================================
