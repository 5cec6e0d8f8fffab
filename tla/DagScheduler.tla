------------------------------ MODULE DagScheduler ------------------------------
(***************************************************************************)
(* The generic DAG engine of core/DagScheduler.ts: the incremental cycle    *)
(* test, the readiness gates and Kahn's topological sort, which TaskBoard   *)
(* and the other task graphs delegate to.                                   *)
(*                                                                         *)
(* A graph is a set N of nodes and a function blockedBy from a superset of  *)
(* N to sets of nodes; blockedBy[n] may name nodes outside N ("dangling"    *)
(* edges), as the code allows.                                              *)
(***************************************************************************)
EXTENDS Integers, Sequences, FiniteSets, SequencesExt

\* The node reached from `start` by following blocked_by leads back to `target`.
\* `seen` is the set of nodes on the current path, copied at every call as the
\* code copies it, so it prunes cycles and nothing else.
ReachesBack(N, blockedBy, target, start) ==
  LET ids == N \cup (UNION {blockedBy[m] : m \in N}) \cup {start, target}
      visit[seen \in SUBSET N] ==
        [n \in ids |-> \/ n = target
                       \/ /\ n \in N \ seen
                          /\ \E d \in blockedBy[n] : visit[seen \cup {n}][d]]
  IN  visit[{}][start]

\* Mutant of WouldCreateCycle: only the direct dependencies are followed.
WouldCloseDirectly(N, blockedBy, node, newBlockedBy) ==
  \E d \in newBlockedBy : d = node \/ (d \in N /\ node \in blockedBy[d])

\* Adding the dependencies newBlockedBy to node would close a cycle.
WouldCreateCycle(N, blockedBy, node, newBlockedBy) ==
  \E d \in newBlockedBy : ReachesBack(N, blockedBy, node, d)

\* The three gates of isNodeReady: candidate, dependencies, extra gate.
IsNodeReady(n, blockedBy, IsCandidate(_), IsSatisfied(_), GateOpen(_)) ==
  /\ IsCandidate(n)
  /\ \A d \in blockedBy[n] : IsSatisfied(d)
  /\ GateOpen(n)

\* The nodes of S in the order of the array dag.
InOrder(dag, S) ==
  LET places == {k \in DOMAIN dag : dag[k] \in S}
  IN  [i \in 1..Cardinality(places) |->
         dag[CHOOSE k \in places : Cardinality({j \in places : j <= k}) = i]]

\* adj.get(id): the nodes of the array dag that name id in their blocked_by, which
\* the code holds in the order of the array.
Children(dag, blockedBy, id) == {n \in ToSet(dag) : id \in blockedBy[n]}

\* Mutants of InDegree: dangling edges are counted; an edge to itself is not.
InDegreeOfAll(dag, blockedBy, n)   == Cardinality(blockedBy[n])
InDegreeNoLoop(dag, blockedBy, n) ==
  Cardinality((blockedBy[n] \ {n}) \cap ToSet(dag))

\* The number of edges of n that lead to nodes of the graph.
InDegree(dag, blockedBy, n) == Cardinality(blockedBy[n] \cap ToSet(dag))
=============================================================================
