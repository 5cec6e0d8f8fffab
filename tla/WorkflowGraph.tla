------------------------------ MODULE WorkflowGraph ------------------------------
(***************************************************************************)
(* The pure part of core/workflow: the checks of ExecutionGraph.ts and the  *)
(* questions that WorkflowEngine.ts asks of a workflow's nodes and edges.   *)
(* A workflow is a record [nodes, kind, edges, again], again: the nodes with *)
(* a config.retryCount. The order of its lists, which only decides what     *)
(* comes first, is not kept.                                                *)
(***************************************************************************)
EXTENDS Naturals, FiniteSets

\* Nodes that work by themselves are one kind ("work"), whatever they do; loops
\* over a count or a list are "loop".
Kinds == {"work", "condition", "parallel", "loop", "while"}

\* "true" and "false" are condition edges with their conditionValue.
EdgeTypes == {"sequence", "true", "false", "loop", "data"}

Edge(N) == [from : N, to : N, type : EdgeTypes]

IsWorkflow(g) ==
  g.kind \in [g.nodes -> Kinds] /\ g.edges \subseteq Edge(g.nodes) /\ g.again \subseteq g.nodes

Control(g) == {e \in g.edges : e.type # "data"}
Into(g, n) == {e \in Control(g) : e.to = n}
OutOf(g, n) == {e \in g.edges : e.from = n}
Targets(E) == {e.to : e \in E}

\* The least set with S and the targets, outside Shut, of the edges E that leave it.
Reach(g, E, S, Shut) ==
  {n \in g.nodes : \A R \in SUBSET g.nodes :
     (S \subseteq R /\ \A e \in E : e.from \in R => e.to \in R \cup Shut) => n \in R}

\* detectCycles: edges of every type count, those of data and of loops too.
HasCycle(g) ==
  \E n \in g.nodes :
    n \in Reach(g, g.edges, Targets(OutOf(g, n)), {})

StartNodes(g) == {n \in g.nodes : \A e \in g.edges : e.to # n}

IsIsolated(g, n) ==
  Cardinality(g.nodes) > 1 /\ \A e \in g.edges : n \notin {e.from, e.to}

\* validate
Valid(g) ==
  /\ ~HasCycle(g)
  /\ \A n \in g.nodes : ~IsIsolated(g, n)
  /\ g.nodes # {} => StartNodes(g) # {}

\* The edge type that leads from a node into its body.
BodyType(g, n) == IF g.kind[n] = "parallel" THEN "sequence" ELSE "loop"

Entries(g, n) == Targets({e \in OutOf(g, n) : e.type = BodyType(g, n)})

\* collectSubgraphNodeIds: all that is reached from the entries but for the node
\* itself and the targets of its other control edges. Other nodes have no body.
Body(g, n) ==
  IF g.kind[n] \in {"work", "condition"} THEN {}
  ELSE LET exits == Targets({e \in OutOf(g, n) : e.type \notin {BodyType(g, n), "data"}})
           shut == exits \cup {n}
       IN Reach(g, Control(g), Entries(g, n) \ shut, shut)

\* selectConditionEdges, among the edges E of a condition node.
ChosenEdges(E, result) ==
  LET branches == {e \in E : e.type \in {"true", "false"}}
  IN IF branches = {} THEN {e \in E : e.type # "data"}
     ELSE {e \in branches : e.type = IF result THEN "true" ELSE "false"}

\* activeEdges of runWorkflow
ActiveTargets(g, n, result) ==
  Targets(IF g.kind[n] = "condition" THEN ChosenEdges(OutOf(g, n), result)
          ELSE {e \in OutOf(g, n) : /\ e.type \notin {"data", "loop"}
                                    /\ ~(/\ g.kind[n] = "parallel" /\ e.type = "sequence"
                                         /\ e.to \in Body(g, n))})

\* Mutant of DependenciesSatisfied: one dependency is enough.
AnyDependencySatisfied(g, n, done) ==
  Into(g, n) = {} \/ \E e \in Into(g, n) : e.from \in done

\* dependenciesSatisfied; done: the nodes completed or skipped.
DependenciesSatisfied(g, n, done) == \A e \in Into(g, n) : e.from \in done

\* dependenciesSatisfiedWithin
DependenciesSatisfiedWithin(g, n, done, body) ==
  \A e \in Into(g, n) : e.from \in body \cup done => e.from \in done

\* activeEdges inside a body: those that lead into the body of a node of it too.
ActiveTargetsWithin(g, n, result) ==
  Targets(IF g.kind[n] = "condition" THEN ChosenEdges(OutOf(g, n), result)
          ELSE {e \in OutOf(g, n) : e.type # "data"})

\* skipInactiveBranch, for every edge that condition node n does not take. seen:
\* nodes that the execution has a state for. The targets of these edges are
\* skipped whatever else leads to them, the nodes behind only if no edge comes
\* from an active target or a completed node.
SkippedBy(g, n, result, seen, skipped, completed) ==
  LET active == ActiveTargets(g, n, result)
      shut == skipped \cup seen \cup active
      kept == {m \in g.nodes : \E e \in Into(g, m) : e.from \in active \cup completed}
  IN Reach(g, Control(g), Targets(OutOf(g, n)) \ shut, shut \cup kept)

\* What the engine takes for granted and validate does not ask: the body of a node in
\* a body lies in it, other bodies have no node in common, and no node of a body leads
\* to one of its entries, which begin without a look at their dependencies.
BodiesNest(g) == \A k \in g.nodes : \A m \in Body(g, k) : Body(g, m) \subseteq Body(g, k)

BodiesApart(g) ==
  \A k, m \in g.nodes :
    k # m /\ Body(g, k) \cap Body(g, m) # {} => m \in Body(g, k) \/ k \in Body(g, m)

EntriesFree(g) ==
  \A k \in g.nodes : \A n \in Entries(g, k) : \A d \in Into(g, n) : d.from \notin Body(g, k)

Structured(g) == BodiesNest(g) /\ BodiesApart(g) /\ EntriesFree(g)

=============================================================================
