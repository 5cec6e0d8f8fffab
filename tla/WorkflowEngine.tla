------------------------------ MODULE WorkflowEngine ------------------------------
(***************************************************************************)
(* core/workflow/WorkflowEngine.ts: executions of one workflow, each walked *)
(* by its run of runWorkflow, by the branches of its parallel nodes and by  *)
(* the iterations of its loops, while timers fire and the user pauses,      *)
(* resumes and cancels.                                                     *)
(*                                                                          *)
(* The code awaits events in two places only: inside a node's executor and  *)
(* in the delay before a retry. What comes between is a chain of promises   *)
(* (Chain, in small actions); timers and the user's calls wait for its end. *)
(***************************************************************************)
EXTENDS WorkflowGraph

CONSTANTS
  Nodes,       \* ids of nodes
  Workflows,   \* the definitions that may be executed, each with nodes in Nodes
  Executions,  \* ids of executions
  Retries,     \* config.retryCount of the nodes that have one
  Turns,       \* count of a loop, and maxIterations of a "while"
  MaxLive,     \* bound: executions known at a time, for each workflow
  MaxRuns,     \* bound: no resume while so many walks of the execution go on that
               \* nothing waits for, for each workflow
  MaxWalks,    \* bound: walks at a time
  None         \* no node, no walk

ASSUME EngineAssumption ==
  /\ \A g \in Workflows : IsWorkflow(g) /\ g.nodes \subseteq Nodes
  /\ Retries \in Nat /\ Turns \in Nat /\ MaxWalks \in Nat \ {0}
  /\ MaxLive \in [Workflows -> Nat \ {0}] /\ MaxRuns \in [Workflows -> Nat \ {0}]

ASSUME NodesAssumption == IsFiniteSet(Nodes)

VARIABLES
  graph,   \* the workflow
  exec,    \* contexts of the executions
  walk,    \* what walks through the nodes of an execution
  cached   \* workflowCache has the workflow

vars == <<graph, exec, walk, cached>>

NodeStatuses == {"none", "running", "completed", "failed", "skipped"}
Statuses == {"none", "running", "paused", "failed", "completed"}

\* error: what context.error tells ("lost": nothing to resume with). active: in
\* activeExecutions. timer: the timer of execute is armed. row: status in the
\* database. mixed: (history) two walks over the same nodes were under way at once.
Execution == [status : Statuses, error : {"none", "timeout", "lost", "other"},
              nodes : [Nodes -> NodeStatuses], active : BOOLEAN, timer : BOOLEAN,
              row : Statuses, mixed : BOOLEAN]

NoExecution == [status |-> "none", error |-> "none", nodes |-> [n \in Nodes |-> "none"],
                active |-> FALSE, timer |-> FALSE, row |-> "none", mixed |-> FALSE]

\* role: the run of runWorkflow that execute or resume started, or a walk inside
\* the node of another walk (parent; None if its parent no longer waits for it).
\* state: "next": about to take a node. "start": node `at` prepares its input.
\* "busy": its executor works. "delay": before a retry. "inside": walks inside it
\* are under way. "ended": the node has completed. "over", "broken": returned,
\* thrown. turn: iterations begun of the loop at `at`.
WalkIds == 1..MaxWalks
Walk == [exec : Executions, role : {"execute", "resume", "inside"},
         parent : WalkIds \cup {None}, body : SUBSET Nodes, queue : SUBSET Nodes,
         done : SUBSET Nodes, skipped : SUBSET Nodes, at : Nodes \cup {None},
         state : {"next", "start", "busy", "delay", "inside", "ended", "over", "broken"},
         tries : 0..Retries, turn : 0..Turns]

ASSUME NoneAssumption == None \notin Nodes \cup WalkIds \cup Walk

Typed ==
  /\ graph \in Workflows /\ cached \in BOOLEAN
  /\ exec \in [Executions -> Execution] /\ walk \in [WalkIds -> Walk \cup {None}]

\* A walk that is at a node has it in its body.
Placed ==
  \A w \in WalkIds :
    walk[w] # None /\ walk[w].state \in {"start", "busy", "delay", "inside", "ended"} =>
      walk[w].at \in walk[w].body

\* A walk inside a node is one of the same execution that waits for it.
Nested ==
  \A w \in WalkIds :
    walk[w] # None /\ walk[w].parent # None =>
      /\ walk[w].parent # w /\ walk[w].role = "inside" /\ walk[walk[w].parent] # None
      /\ walk[walk[w].parent].state = "inside" /\ walk[walk[w].parent].exec = walk[w].exec

TypeOK == Typed /\ Placed /\ Nested

Init ==
  /\ graph \in Workflows /\ cached = FALSE
  /\ exec = [e \in Executions |-> NoExecution] /\ walk = [w \in WalkIds |-> None]

WalksOf(e) == {w \in WalkIds : walk[w] # None /\ walk[w].exec = e}
Runs(e) == {w \in WalksOf(e) : walk[w].role # "inside"}
Inside(w) == {v \in WalkIds : walk[v] # None /\ walk[v].parent = w}
In(w, S) == walk[w] # None /\ walk[w].state \in S
Returned(w) == In(w, {"over", "broken"})

\* The id of the next walk, if there is one.
FirstFree == {w \in WalkIds : walk[w] = None /\ \A v \in WalkIds : v < w => walk[v] # None}

\* shouldStopExecution
Stopped(e) == exec[e].status \in {"paused", "failed"}

NewWalk(e, role, parent, body, queue, done, state) ==
  [exec |-> e, role |-> role, parent |-> parent, body |-> body, queue |-> queue,
   done |-> done, skipped |-> {}, at |-> None, state |-> state, tries |-> 0, turn |-> 0]

\* Mutant of LeftBehind: the walks inside still count on w.
StillInside(w) == [v \in WalkIds |-> IF v \in Inside(w) /\ Returned(v) THEN None ELSE walk[v]]

\* The walks once w no longer waits for those inside its node: nothing ends them.
LeftBehind(w) ==
  [v \in WalkIds |->
     IF v \notin Inside(w) THEN walk[v]
     ELSE IF Returned(v) THEN None ELSE [walk[v] EXCEPT !.parent = None]]

-----------------------------------------------------------------------------
\* executeNode, from the end of an attempt at node walk[w].at.

\* Mutant of AttemptFails: attempts are not counted.
FailsAgain(w) ==
  /\ walk' = [LeftBehind(w) EXCEPT ![w].state =
       IF walk[w].at \in graph.again THEN "delay" ELSE "broken"]
  /\ exec' = [exec EXCEPT ![walk[w].exec].nodes[walk[w].at] = "running"]

\* catch: the node fails, and runs again unless its retries are used up.
AttemptFails(w) ==
  LET e == walk[w].exec
      again == walk[w].at \in graph.again /\ walk[w].tries < Retries
  IN /\ walk' = [LeftBehind(w) EXCEPT ![w].state = IF again THEN "delay" ELSE "broken",
                                      ![w].tries = IF again THEN @ + 1 ELSE @]
     /\ exec' = [exec EXCEPT
          ![e].nodes[walk[w].at] = IF again THEN "running" ELSE "failed",
          ![e].mixed = @ \/ \E v \in Inside(w) : ~Returned(v)]

\* A stopped execution leaves the node as it is.
AttemptSucceeds(w) ==
  LET e == walk[w].exec
  IN /\ walk' = [LeftBehind(w) EXCEPT ![w].state = IF Stopped(e) THEN "over" ELSE "ended"]
     /\ exec' = IF Stopped(e) THEN exec
                ELSE [exec EXCEPT ![e].nodes[walk[w].at] = "completed"]

-----------------------------------------------------------------------------
\* The chain: what goes on without an event.

Ready(w) == (walk[w].queue \cap walk[w].body) \ (walk[w].done \cup walk[w].skipped)

\* The loop of runWorkflow, executeBranch and executeLoopNode takes a node that
\* is not done yet (executeNode begins), or ends.
Take(w) ==
  /\ In(w, {"next"})
  /\ LET e == walk[w].exec
     IN \/ /\ Stopped(e) \/ Ready(w) = {}
           /\ walk' = [walk EXCEPT ![w].state = "over"] /\ UNCHANGED exec
        \/ /\ ~Stopped(e)
           /\ \E n \in Ready(w) :
                /\ walk' = [walk EXCEPT ![w].queue = @ \ {n}, ![w].at = n,
                                        ![w].state = "start", ![w].tries = 0]
                /\ exec' = [exec EXCEPT ![e].nodes[n] = "running"]
  /\ UNCHANGED <<graph, cached>>

\* The executor of the node begins: that of a parallel node starts a branch per
\* edge, that of a loop gets ready for its first iteration (Iterate). It may refuse,
\* as the input or the configuration is wrong, and does so without a body, or
\* when a parallel node does not find its workflow in the cache.
Begin(w) ==
  LET n == walk[w].at
      kind == graph.kind[n]
      free == {v \in WalkIds : walk[v] = None}
      branch(n1) == NewWalk(walk[w].exec, "inside", w, Body(graph, n), {n1}, {n}, "next")
  IN /\ In(w, {"start"})
     /\ \/ /\ kind \in {"work", "condition"}
           /\ walk' = [walk EXCEPT ![w].state = "busy"] /\ UNCHANGED exec
        \/ kind \notin {"work", "condition"} /\ AttemptFails(w)
        \/ /\ kind \notin {"work", "condition"} /\ Body(graph, n) # {}
           /\ kind = "parallel" => cached
           /\ \E ids \in SUBSET free : \E entry \in [ids -> Entries(graph, n)] :
                /\ IF kind = "parallel"
                   THEN /\ {entry[v] : v \in ids} = Entries(graph, n)
                        /\ Cardinality(ids) = Cardinality(Entries(graph, n))
                   ELSE ids = {}
                /\ \A v \in ids, u \in free \ ids : v < u
                /\ walk' = [v \in WalkIds |->
                     IF v \in ids THEN branch(entry[v])
                     ELSE IF v = w THEN [walk[w] EXCEPT !.state = "inside", !.turn = 0]
                     ELSE walk[v]]
           /\ UNCHANGED exec
     /\ UNCHANGED <<graph, cached>>

\* Mutant of Join: the first branch decides.
JoinFirst(w) ==
  /\ In(w, {"inside"}) /\ graph.kind[walk[w].at] = "parallel"
  /\ \/ (\E v \in Inside(w) : In(v, {"over"})) /\ AttemptSucceeds(w)
     \/ (\E v \in Inside(w) : In(v, {"broken"})) /\ AttemptFails(w)
  /\ UNCHANGED <<graph, cached>>

\* Promise.all of the branches of a parallel node.
Join(w) ==
  /\ In(w, {"inside"}) /\ graph.kind[walk[w].at] = "parallel"
  /\ \/ (\A v \in Inside(w) : In(v, {"over"})) /\ AttemptSucceeds(w)
     \/ (\E v \in Inside(w) : In(v, {"broken"})) /\ AttemptFails(w)
  /\ UNCHANGED <<graph, cached>>

\* executeLoopNode, before an iteration; goes: the condition of a "while" holds. It
\* throws at its limit, and its condition may throw too.
Iterate(w, goes) ==
  LET n == walk[w].at
      last == walk[w].turn = Turns
  IN /\ In(w, {"inside"}) /\ graph.kind[n] \in {"loop", "while"}
     /\ \A v \in Inside(w) : Returned(v)
     /\ \/ /\ \/ \E v \in Inside(w) : In(v, {"broken"})
              \/ graph.kind[n] = "while"
           /\ AttemptFails(w)
        \/ /\ \A v \in Inside(w) : In(v, {"over"})
           /\ IF graph.kind[n] = "while" THEN ~last /\ ~goes ELSE last
           /\ AttemptSucceeds(w)
        \/ /\ \A v \in Inside(w) : In(v, {"over"})
           /\ ~last /\ (graph.kind[n] = "while" => goes)
           /\ \E child \in IF Inside(w) = {} THEN FirstFree ELSE Inside(w) :
                walk' = [walk EXCEPT
                  ![w].turn = @ + 1,
                  ![child] = NewWalk(walk[w].exec, "inside", w, Body(graph, n),
                                     Entries(graph, n), {n}, "next")]
           /\ UNCHANGED exec
     /\ UNCHANGED <<graph, cached>>

\* After executeNode: what node n of walk w, with its result, makes ready.
\* Only runWorkflow skips nodes and looks at every node of the workflow.
Onward(w, result) ==
  LET e == walk[w].exec
      n == walk[w].at
      whole == walk[w].role # "inside"
      done == walk[w].done \cup {n} \cup (IF whole THEN Body(graph, n) ELSE {})
      seen == {m \in Nodes : exec[e].nodes[m] # "none"}
      hit == IF whole /\ graph.kind[n] = "condition"
             THEN SkippedBy(graph, n, result, seen, walk[w].skipped, done) ELSE {}
      skipped == walk[w].skipped \cup hit
      next == IF whole
              THEN {m \in graph.nodes : DependenciesSatisfied(graph, m, done \cup skipped)}
                     \ (done \cup skipped)
              ELSE {m \in ActiveTargetsWithin(graph, n, result) \cap walk[w].body :
                      DependenciesSatisfiedWithin(graph, m, done, walk[w].body)} \ done
  IN /\ In(w, {"ended"})
     /\ IF Stopped(e)
        THEN walk' = [walk EXCEPT ![w].state = "over"] /\ UNCHANGED exec
        ELSE /\ walk' = [walk EXCEPT ![w].done = done, ![w].skipped = skipped,
                                     ![w].queue = (IF whole THEN {} ELSE @) \cup next,
                                     ![w].state = "next", ![w].at = None]
             /\ exec' = [exec EXCEPT ![e].nodes =
                           [m \in Nodes |-> IF m \in hit THEN "skipped" ELSE @[m]]]
     /\ UNCHANGED <<graph, cached>>

\* catch, after an error that does not come from the timeout.
Broke(w) ==
  LET x == exec[walk[w].exec]
  IN In(w, {"broken"}) /\ ~(x.status = "failed" /\ x.error = "timeout")

\* Mutant of EndStatus: a stop does not count.
EndStatusUnchecked(w) == IF Broke(w) THEN "failed" ELSE "completed"

\* then and catch of a run of runWorkflow.
EndStatus(w) ==
  LET status == exec[walk[w].exec].status
  IN IF Broke(w) THEN "failed"
     ELSE IF In(w, {"over"}) /\ status = "running" THEN "completed" ELSE status

\* then, catch and finally.
RunEnds(w) ==
  LET x == exec[walk[w].exec]
      status == EndStatus(w)
  IN /\ Returned(w) /\ walk[w].role # "inside"
     /\ walk' = [walk EXCEPT ![w] = None]
     /\ exec' = [exec EXCEPT ![walk[w].exec] =
          [x EXCEPT !.status = status, !.row = status,
                    !.error = IF Broke(w) THEN "other" ELSE x.error,
                    !.timer = x.timer /\ walk[w].role # "execute",
                    !.active = x.active /\ status = "paused"]]
     /\ cached' = (cached /\ status = "paused")
     /\ UNCHANGED graph

\* The result of a walk left behind goes nowhere.
Vanish(w) ==
  /\ Returned(w) /\ walk[w].role = "inside" /\ walk[w].parent = None
  /\ walk' = [walk EXCEPT ![w] = None]
  /\ UNCHANGED <<graph, exec, cached>>

Step(w) ==
  \/ Take(w) \/ Begin(w) \/ Join(w) \/ RunEnds(w) \/ Vanish(w)
  \/ \E yes \in BOOLEAN : Iterate(w, yes) \/ Onward(w, yes)

Chain == \E w \in WalkIds : Step(w)

\* No step of the chain is possible.
Due(w) ==
  \/ In(w, {"next", "start", "ended"})
  \/ Returned(w) /\ (walk[w].role # "inside" \/ walk[w].parent = None)
  \/ In(w, {"inside"}) /\ (\/ \A v \in Inside(w) : Returned(v)
                           \/ \E v \in Inside(w) : In(v, {"broken"}))
Quiet == \A w \in WalkIds : ~Due(w)

-----------------------------------------------------------------------------
\* Events.

\* The executor of a node that works by itself returns or throws; it may not have
\* waited for any event.
NodeEnds(w, ok) ==
  /\ In(w, {"busy"})
  /\ IF ok THEN AttemptSucceeds(w) ELSE AttemptFails(w)
  /\ UNCHANGED <<graph, cached>>

\* Mutant of RetryDue: nobody looks whether the execution was stopped.
RetryAlways(w) ==
  /\ In(w, {"delay"})
  /\ walk' = [walk EXCEPT ![w].state = "start"]
  /\ UNCHANGED <<graph, exec, cached>>

\* The retry delay is over.
RetryDue(w) ==
  /\ In(w, {"delay"})
  /\ walk' = [walk EXCEPT ![w].state = IF Stopped(walk[w].exec) THEN "over" ELSE "start"]
  /\ UNCHANGED <<graph, exec, cached>>

\* A run of runWorkflow begins; it throws at once if the workflow is not valid.
Run(e, role) ==
  \E w \in FirstFree :
    walk' = [walk EXCEPT ![w] =
      NewWalk(e, role, None, graph.nodes, StartNodes(graph), {},
              IF Valid(graph) THEN "next" ELSE "broken")]

\* execute, with or without a timeout.
Execute(e, timed) ==
  /\ Quiet /\ exec[e].status = "none" /\ e = CHOOSE d \in Executions : exec[d].status = "none"
  /\ Cardinality({d \in Executions : exec[d].status # "none"}) < MaxLive[graph]
  /\ exec' = [exec EXCEPT ![e] = [NoExecution EXCEPT !.status = "running", !.active = TRUE,
                                                     !.timer = timed]]
  /\ cached' = TRUE
  /\ Run(e, "execute")
  /\ UNCHANGED graph

\* The timer of execute.
TimesOut(e) ==
  /\ Quiet /\ exec[e].timer
  /\ exec' = [exec EXCEPT ![e] =
       IF @.status \in {"running", "paused"}
       THEN [@ EXCEPT !.status = "failed", !.error = "timeout", !.timer = FALSE]
       ELSE [@ EXCEPT !.timer = FALSE]]
  /\ UNCHANGED <<graph, walk, cached>>

\* Mutant of Cancel: the execution stays in activeExecutions.
CancelKeeps(e) ==
  /\ Quiet /\ exec[e].active
  /\ exec' = [exec EXCEPT ![e].status = "failed", ![e].error = "other", ![e].row = "failed"]
  /\ UNCHANGED <<graph, walk, cached>>

Cancel(e) ==
  /\ Quiet /\ exec[e].active
  /\ exec' = [exec EXCEPT ![e].status = "failed", ![e].error = "other",
                          ![e].active = FALSE, ![e].row = "failed"]
  /\ UNCHANGED <<graph, walk, cached>>

Pause(e) ==
  /\ Quiet /\ exec[e].active /\ exec[e].status = "running"
  /\ exec' = [exec EXCEPT ![e].status = "paused"]
  /\ UNCHANGED <<graph, walk, cached>>

Resume(e) ==
  /\ Quiet /\ exec[e].active /\ exec[e].status = "paused"
  /\ IF cached
     THEN /\ Cardinality({w \in WalksOf(e) : walk[w].parent = None}) < MaxRuns[graph]
          /\ exec' = [exec EXCEPT ![e].status = "running",
                                  ![e].mixed = @ \/ WalksOf(e) # {}]
          /\ Run(e, "resume")
     ELSE /\ exec' = [exec EXCEPT ![e].status = "failed", ![e].error = "lost",
                                  ![e].active = FALSE]
          /\ UNCHANGED walk
  /\ UNCHANGED <<graph, cached>>

\* storeExecutionHistory drops the oldest ends; the id stands for a new execution.
Forget(e) ==
  /\ Quiet /\ exec[e].status \in {"completed", "failed"}
  /\ ~exec[e].active /\ WalksOf(e) = {}
  /\ exec' = [exec EXCEPT ![e] = NoExecution]
  /\ UNCHANGED <<graph, walk, cached>>

Next ==
  \/ Chain
  \/ \E w \in WalkIds : RetryDue(w) \/ \E ok \in BOOLEAN : NodeEnds(w, ok)
  \/ \E e \in Executions :
       \/ \E timed \in BOOLEAN : Execute(e, timed)
       \/ TimesOut(e) \/ Cancel(e) \/ Pause(e) \/ Resume(e) \/ Forget(e)

\* The chain goes on and timers of retries expire. Nothing obliges an executor to
\* end, the timer of an execution to be set, or the user to do anything.
Fairness == WF_vars(Chain) /\ \A w \in WalkIds : WF_vars(RetryDue(w))

Spec == Init /\ [][Next]_vars /\ Fairness

-----------------------------------------------------------------------------
\* Nodes with a final state, and nodes in the body of one that has completed.
Settled(e) == {m \in graph.nodes : exec[e].nodes[m] \in {"completed", "skipped"}}
Covered(e) == UNION {Body(graph, m) : m \in {k \in graph.nodes : exec[e].nodes[k] = "completed"}}

\* A node works only when every node with a control edge to it has completed or
\* been skipped, or lies in the body of a node that has; inside a body only the
\* edges of the body count. No order of the queues, no branch and no retry gets
\* ahead (dependenciesSatisfied, WorkflowEngine.ts:570, dependenciesSatisfiedWithin,
\* :787). Executions that two runs, or a branch left behind by a failed attempt and
\* the next attempt, have worked on at once (mixed) are left out, and so are workflows
\* that are not structured: the entries of a body begin at once, whatever leads to them
\* (executeBranch, ParallelNodeExecutor.ts:33; executeLoopNode, WorkflowEngine.ts:737).
OrderRespected ==
  \A w \in WalkIds :
    Structured(graph) /\ In(w, {"busy"}) /\ ~exec[walk[w].exec].mixed =>
      \A d \in Into(graph, walk[w].at) :
        d.from \in walk[w].body => d.from \in Settled(walk[w].exec) \cup Covered(walk[w].exec)

\* An execution is reported completed only when every node of the workflow has
\* completed or was skipped, or lies in the body of a node that has completed, and
\* nothing of it works any more: no node is forgotten in a queue, whichever branches
\* are skipped, and no branch is still under way (runWorkflow, WorkflowEngine.ts:487;
\* execute, :389; Promise.all, ParallelNodeExecutor.ts:33). Again unless mixed; and a
\* body that leaves the body around it may fail at a node that no retry comes to again.
CompletedMeansAll ==
  \A e \in Executions :
    BodiesNest(graph) /\ exec[e].status = "completed" /\ ~exec[e].mixed =>
      WalksOf(e) = {} /\ graph.nodes \subseteq Settled(e) \cup Covered(e)

\* Once no run of an execution is under way it is settled: it is paused and still
\* in activeExecutions or has ended and left them, and its row tells the same. Only
\* an execution that could not be resumed keeps its old row (finally of execute and
\* resume, WorkflowEngine.ts:407, :1309; cancel, :1200).
IdleIsSettled ==
  \A e \in Executions :
    exec[e].status # "none" /\ Runs(e) = {} /\ exec[e].error # "lost" =>
      /\ exec[e].status # "running" /\ exec[e].row = exec[e].status
      /\ exec[e].active <=> exec[e].status = "paused"

\* A failed, cancelled or timed out execution never becomes anything else, however
\* late its nodes end and its timers fire, until its id is given up
\* (WorkflowEngine.ts:371-388, :1274-1290).
FailedIsFinal ==
  [][\A e \in Executions :
       exec[e].status = "failed" => exec'[e].status \in {"failed", "none"}]_vars

\* While an execution is paused or failed no node of it begins another attempt
\* (shouldStopExecution, WorkflowEngine.ts:495, :741, :890; ParallelNodeExecutor.ts:52).
StopHolds ==
  [][\A w \in WalkIds :
       In(w, {"start"})' /\ ~In(w, {"start"}) => ~Stopped(walk'[w].exec)]_vars

\* If every executor ends, a running execution comes to an end or is paused, and
\* nothing of a failed one stays behind: retries and "while" loops are bounded, no
\* walk waits for another one for ever, and a stop reaches the walks that nobody
\* waits for any more (WorkflowEngine.ts:881, :711, :672).
ExecutionEnds ==
  (\A w \in WalkIds : []<>~In(w, {"busy"})) =>
    \A e \in Executions :
      /\ exec[e].status = "running" ~> exec[e].status # "running"
      /\ exec[e].status = "failed" ~> WalksOf(e) = {}

=============================================================================
