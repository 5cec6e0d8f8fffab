------------------------------ MODULE TaskLedger ------------------------------
(***************************************************************************)
(* What the rows of the tasks promise to whoever holds a receipt, a timer   *)
(* or a handle from the past: a pair (task, generation) names one run. The  *)
(* generation only grows, a run that ended is never resumed under the same  *)
(* number, and a task disappears only while nothing was decided about it.   *)
(***************************************************************************)
EXTENDS Integers

CONSTANTS Tasks,   \* the names of the tasks
          Absent   \* the entry of a task that has no row

VARIABLE ledger

Lives == {"open", "running", "done"}

Entries == [life : Lives, gen : Nat] \cup {Absent}

\* f may replace e while the task exists: a new run, or the same run, which
\* may end but not begin again.
Later(e, f) ==
  \/ f.gen > e.gen
  \/ f.gen = e.gen /\ (f.life = e.life \/ f.life = "done")

\* One step of one task; several tasks may step at once (a restart).
EntryStep(e, f) ==
  \/ f = e
  \/ e # Absent /\ f # Absent /\ Later(e, f)
  \/ e = Absent /\ f # Absent /\ Later([life |-> "open", gen |-> 0], f)
  \/ e # Absent /\ f = Absent /\ e.life = "open"

LedgerInit == ledger = [t \in Tasks |-> Absent]

LedgerNext ==
  /\ ledger' \in [Tasks -> Entries]
  /\ \A t \in Tasks : EntryStep(ledger[t], ledger'[t])

LedgerSpec == LedgerInit /\ [][LedgerNext]_ledger
=============================================================================
