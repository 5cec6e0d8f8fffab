----------------------------- MODULE SlotScheduler -----------------------------
(***************************************************************************)
(* agents/pool/SlotScheduler.ts, class SlotScheduler, with its only user,   *)
(* runAgentWrapper of the agent pool: acquireOrWait(key), the worker's run, *)
(* release(key) in a finally block.                                         *)
(*                                                                         *)
(* A key is `task:generation`. Every run has a key of its own, so a name of *)
(* Keys stands for one wrapper after another. The promise of a waiter and   *)
(* the wrapper's wait are one thing here: phase[k] = "waiting" until        *)
(* somebody calls the resolver that waiters.set(k) has stored.              *)
(*                                                                         *)
(* The finally block is reached when the promise of dispatchAgent settles,  *)
(* and that takes an event. Several ways to stop an agent emit none; a      *)
(* wrapper they leave behind is in `abandoned` and keeps its slot until a   *)
(* later agent of the same name emits one.                                  *)
(***************************************************************************)
EXTENDS Integers, Sequences, FiniteSets, SequencesExt

CONSTANTS
  Keys,      \* the slot keys of the wrappers
  Limits,    \* the values of agents.max_concurrent the pool may start with
  Resizes    \* the values that a reload of the configuration may bring

ASSUME SlotAssumption ==
  /\ IsFiniteSet(Keys)
  /\ Limits \subseteq Nat \ {0} /\ Resizes \subseteq Nat \ {0}

VARIABLES
  maxConcurrency,
  running,   \* the keys that hold a slot
  queue,     \* the keys that wait, in order of arrival
  waiters,   \* the keys with a stored resolver
  phase,     \* where the wrapper of a key is
  abandoned  \* the keys that hold for an agent that was stopped without an event

vars == <<maxConcurrency, running, queue, waiters, phase, abandoned>>

TypeOK ==
  /\ maxConcurrency \in Limits \cup Resizes
  /\ running \subseteq Keys /\ waiters \subseteq Keys
  /\ queue \in Seq(Keys)
  /\ phase \in [Keys -> {"idle", "waiting", "holding"}]
  /\ abandoned \subseteq Keys

Init ==
  /\ maxConcurrency \in Limits
  /\ running = {} /\ queue = <<>> /\ waiters = {}
  /\ phase = [k \in Keys |-> "idle"]
  /\ abandoned = {}

\* Mutant of Acquires: one slot too many.
AcquiresOneMore(k, R) == k \in R \/ Cardinality(R) <= maxConcurrency

\* acquire(k) returns true when k is in R.
Acquires(k, R) == k \in R \/ Cardinality(R) < maxConcurrency

\* acquireOrWait.
AcquireOrWait(k) ==
  /\ phase[k] = "idle"
  /\ IF Acquires(k, running)
     THEN /\ running' = running \cup {k}
          /\ phase' = [phase EXCEPT ![k] = "holding"]
          /\ UNCHANGED <<queue, waiters>>
     ELSE /\ queue' = IF k \in ToSet(queue) THEN queue ELSE Append(queue, k)
          /\ waiters' = waiters \cup {k}
          /\ phase' = [phase EXCEPT ![k] = "waiting"]
          /\ UNCHANGED running
  /\ UNCHANGED <<maxConcurrency, abandoned>>

\* The places of the queue at which the loop of release stops.
Served(R) == {i \in 1..Len(queue) : Acquires(queue[i], R)}

\* Mutants of Release: the slot goes to the youngest waiter; the resolver of
\* the waiter is not called.
ReleaseToYoungest(k) ==
  /\ phase[k] = "holding"
  /\ IF queue = <<>>
     THEN /\ running' = running \ {k} /\ phase' = [phase EXCEPT ![k] = "idle"]
          /\ UNCHANGED <<queue, waiters>>
     ELSE LET next == queue[Len(queue)]
          IN /\ running' = (running \ {k}) \cup {next}
             /\ queue' = SubSeq(queue, 1, Len(queue) - 1)
             /\ waiters' = waiters \ {next}
             /\ phase' = [phase EXCEPT ![k] = "idle", ![next] = "holding"]
  /\ abandoned' = abandoned \ {k}
  /\ UNCHANGED maxConcurrency

ReleaseSilently(k) ==
  /\ phase[k] = "holding"
  /\ running' = IF queue = <<>> THEN running \ {k}
                ELSE (running \ {k}) \cup {Head(queue)}
  /\ queue' = IF queue = <<>> THEN queue ELSE Tail(queue)
  /\ phase' = [phase EXCEPT ![k] = "idle"]
  /\ abandoned' = abandoned \ {k}
  /\ UNCHANGED <<maxConcurrency, waiters>>

\* release: the loop shifts the queue until a key acquires the slot. The keys
\* it shifts in vain are gone from the queue.
Release(k) ==
  LET left == running \ {k}
      kept == waiters \ {k}
      done == [phase EXCEPT ![k] = "idle"]
  IN /\ phase[k] = "holding"
     /\ IF Served(left) = {}
        THEN /\ running' = left /\ queue' = <<>>
             /\ waiters' = kept /\ phase' = done
        ELSE \E i \in Served(left) :
               /\ \A j \in Served(left) : i <= j
               /\ running' = left \cup {queue[i]}
               /\ queue' = SubSeq(queue, i + 1, Len(queue))
               /\ waiters' = kept \ {queue[i]}
               /\ phase' = IF queue[i] \in kept
                           THEN [done EXCEPT ![queue[i]] = "holding"] ELSE done
     /\ abandoned' = abandoned \ {k}
     /\ UNCHANGED maxConcurrency

\* The agent of a wrapper is stopped and none of the five events that settle
\* dispatchAgent is emitted: stopAll, completeAgent, an automatic retry that
\* failed after the crash that announced it.
Abandon(k) ==
  /\ phase[k] = "holding" /\ k \notin abandoned
  /\ abandoned' = abandoned \cup {k}
  /\ UNCHANGED <<maxConcurrency, running, queue, waiters, phase>>

\* resize, from the configuration's reload callback.
Resize(n) ==
  /\ n \in Resizes /\ n # maxConcurrency
  /\ maxConcurrency' = n
  /\ UNCHANGED <<running, queue, waiters, phase, abandoned>>

Next ==
  \/ \E k \in Keys : AcquireOrWait(k) \/ Release(k) \/ Abandon(k)
  \/ \E n \in Resizes : Resize(n)

Spec == Init /\ [][Next]_vars

\* A worker that was not stopped behind its wrapper's back ends with an event
\* (its own, or one of the watchdogs), so the wrapper reaches the finally block.
Settles(k) == k \notin abandoned /\ Release(k)
FairSpec == Spec /\ \A k \in Keys : WF_vars(Settles(k))

-----------------------------------------------------------------------------
\* A wrapper that waits is in the queue exactly once, with its resolver; a
\* wrapper that holds is in the set. What release hands out is never lost, as
\* long as the limit does not shrink: the loop of release drops every key that
\* it shifts while more wrappers run than the new limit allows.
NoWaiterForgotten ==
  /\ ToSet(queue) = {k \in Keys : phase[k] = "waiting"}
  /\ waiters = ToSet(queue)
  /\ IsInjective(queue)
  /\ running = {k \in Keys : phase[k] = "holding"}

\* The class promises a counting semaphore that passes a freed slot on at once:
\* module SlotPool, which knows neither queue nor resolvers.
Pool == INSTANCE SlotPool WITH claims <- phase, size <- maxConcurrency
ImplementsPool == Pool!PoolSpec

\* No wrapper starves, although new ones keep arriving (and the limit does not
\* shrink), unless every slot that is taken belongs to an abandoned wrapper:
\* one worker that ends in its time is enough to keep the queue moving.
EveryWaiterServed ==
  \A k \in Keys :
    phase[k] = "waiting" ~> (phase[k] = "holding" \/ running \subseteq abandoned)
=============================================================================
