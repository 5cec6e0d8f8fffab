---------------------------- MODULE TopologicalSort ----------------------------
(***************************************************************************)
(* topologicalOrder of core/DagScheduler.ts, Kahn's algorithm, one step per *)
(* turn of its while loop, on every graph of a bounded size. The blueprint  *)
(* of a project and the bug-hunt ledger order their nodes with it, and      *)
(* refuse a graph for which it reports a cycle. The module also compares    *)
(* wouldCreateCycle, which TaskBoard asks before it adds a task, with what  *)
(* a cycle is.                                                              *)
(***************************************************************************)
EXTENDS DagScheduler

CONSTANTS
  N,         \* the nodes are 1..N, the array dag is <<1, ..., N>>
  Dangling,  \* ids that blocked_by may name and dag does not hold
  MaxEdges   \* bound: the edges of a graph

ASSUME SortAssumption ==
  /\ {N, MaxEdges} \subseteq Nat
  /\ IsFiniteSet(Dangling) /\ Dangling \cap 1..N = {}

VARIABLES
  blockedBy,  \* the edges: blocked_by of each node
  indeg,      \* the edges of a node whose other end was not taken yet
  queue, ordered

vars == <<blockedBy, indeg, queue, ordered>>

Node == 1..N
dag  == [i \in Node |-> i]
Done == queue = <<>>

TypeOK ==
  /\ blockedBy \in [Node -> SUBSET (Node \cup Dangling)]
  /\ indeg \in [Node -> Nat]
  /\ queue \in Seq(Node) /\ ordered \in Seq(Node)

Edges(g) == {e \in Node \X (Node \cup Dangling) : e[2] \in g[e[1]]}

Init ==
  /\ blockedBy \in [Node -> SUBSET (Node \cup Dangling)]
  /\ Cardinality(Edges(blockedBy)) <= MaxEdges
  /\ indeg = [n \in Node |-> InDegree(dag, blockedBy, n)]
  /\ queue = InOrder(dag, {n \in Node : indeg[n] = 0})
  /\ ordered = <<>>

\* One turn of the loop: the head of the queue is ordered, its children lose
\* one edge, those that have `left` edges then are queued.
TurnOfLoop(left) ==
  LET id       == Head(queue)
      children == Children(dag, blockedBy, id)
  IN  /\ ordered' = Append(ordered, id)
      /\ indeg' = [n \in Node |-> IF n \in children THEN indeg[n] - 1
                                  ELSE indeg[n]]
      /\ queue' = Tail(queue) \o InOrder(dag, {n \in children : indeg'[n] = left})
      /\ UNCHANGED blockedBy

\* Mutants of TakeNext: a child is queued one edge too early; the loop stops
\* one element too early.
TakeEarly     == ~Done /\ TurnOfLoop(1)
TakeAllButOne == Len(queue) > 1 /\ TurnOfLoop(0)

TakeNext == ~Done /\ TurnOfLoop(0)

Next == TakeNext
Spec == Init /\ [][Next]_vars
FairSpec == Spec /\ WF_vars(TakeNext)

\* The nodes that the result { cycle } names, when there are any.
CyclicNodes == {n \in Node : n \notin ToSet(ordered)}

-----------------------------------------------------------------------------
\* What a cycle is, without an algorithm. A set of nodes each of which waits
\* for another one of the set can never be started.
Stuck(g, S) == \A n \in S : g[n] \cap S # {}
StuckNodes(g) == UNION {S \in SUBSET Node : Stuck(g, S)}
IsAcyclic(g) == StuckNodes(g) = {}

\* Every node is ordered once, and after all the nodes of the graph that it is
\* blocked by: a consumer may work through the order from its beginning.
OrderRespectsEdges ==
  /\ IsInjective(ordered)
  /\ \A i \in 1..Len(ordered) :
       blockedBy[ordered[i]] \cap Node \subseteq ToSet(SubSeq(ordered, 1, i - 1))

\* The sort is fail-closed and no more than that: the nodes it reports at the
\* end are exactly those that nobody could ever start.
CycleIsExactlyStuck == Done => CyclicNodes = StuckNodes(blockedBy)

\* Whoever adds edges only after wouldCreateCycle said no keeps an acyclic graph
\* acyclic, and the test refuses nothing else.
CheckedEdgesStayAcyclic ==
  (ordered = <<>> /\ IsAcyclic(blockedBy)) =>
    \A n \in Node, D \in SUBSET (Node \cup Dangling) :
      WouldCreateCycle(Node, blockedBy, n, D) <=>
        ~IsAcyclic([blockedBy EXCEPT ![n] = @ \cup D])

\* The loop ends.
SortEnds == <>Done
=============================================================================
