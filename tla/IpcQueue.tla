------------------------------- MODULE IpcQueue -------------------------------
(***************************************************************************)
(* The queue of one worker in core/ipc/IPCDrainQueue.ts: four tiers, the    *)
(* back-pressure that sheds the oldest messages of the lower tiers, and the *)
(* order in which a drain takes them. The flag "scheduled" is kept by the   *)
(* module that has the event loop.                                         *)
(***************************************************************************)
EXTENDS Integers, Sequences

CONSTANTS
  BatchSize,     \* messages that one drain consumes
  MaxQueueSize   \* messages of one worker above which the queue sheds

ASSUME QueueAssumption == BatchSize \in Nat \ {0} /\ MaxQueueSize \in Nat

\* started: the handshake. complete and failed: the end. note: a message for
\* the bus or a usage report. progress, beat: progress, heartbeats and events.
Kinds == {"started", "complete", "failed", "note", "progress", "beat"}

\* Mutant of Tier: the handshake may be overtaken by the end.
TierStartedBehind(kind) ==
  CASE kind \in {"complete", "failed"} -> "p0"
    [] kind \in {"started", "note"} -> "p1"
    [] kind = "progress" -> "p2"
    [] kind = "beat"     -> "p3"

Tier(kind) ==
  CASE kind \in {"started", "complete", "failed"} -> "p0"
    [] kind = "note"     -> "p1"
    [] kind = "progress" -> "p2"
    [] kind = "beat"     -> "p3"

Tiers == {"p0", "p1", "p2", "p3"}

EmptyQueue == [c \in Tiers |-> <<>>]

Backlog(q) == Len(q["p0"]) + Len(q["p1"]) + Len(q["p2"]) + Len(q["p3"])

Least(m, n) == IF m <= n THEN m ELSE n
After(s, n) == SubSeq(s, n + 1, Len(s))

\* The n oldest messages go, tier by tier from the lowest; p0 is never shed.
Shed(q, n) ==
  LET n3 == Least(n, Len(q["p3"]))
      n2 == Least(n - n3, Len(q["p2"]))
      n1 == Least(n - n3 - n2, Len(q["p1"]))
  IN [q EXCEPT !["p3"] = After(@, n3), !["p2"] = After(@, n2),
               !["p1"] = After(@, n1)]

\* Above the limit there are only messages that must not be lost.
Bounded(q) == Backlog(q) <= MaxQueueSize \/ Backlog(q) = Len(q["p0"])

\* Mutant of Push: the message that fills the queue is not counted.
PushUncounted(q, m) ==
  LET full == [q EXCEPT ![Tier(m.kind)] = Append(@, m)]
      over == Backlog(q) - MaxQueueSize
  IN IF over > 0 THEN Shed(full, over) ELSE full

Push(q, m) ==
  LET full == [q EXCEPT ![Tier(m.kind)] = Append(@, m)]
      over == Backlog(full) - MaxQueueSize
  IN IF over > 0 THEN Shed(full, over) ELSE full

\* The tier that shift takes from, of a queue that is not empty.
First(q) ==
  CASE q["p0"] # <<>> -> "p0"
    [] q["p0"] = <<>> /\ q["p1"] # <<>> -> "p1"
    [] q["p0"] = <<>> /\ q["p1"] = <<>> /\ q["p2"] # <<>> -> "p2"
    [] OTHER -> "p3"

Next1(q) == Head(q[First(q)])
Shifted(q) == [q EXCEPT ![First(q)] = Tail(@)]
=============================================================================
