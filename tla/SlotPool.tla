------------------------------- MODULE SlotPool -------------------------------
(***************************************************************************)
(* What the wrappers of the agent pool rely on: nobody gets a slot while    *)
(* `size` of them hold one, whoever asks for a free slot has it, and a slot *)
(* that is given back goes to one of those who wait, if any does, in the    *)
(* same step.                                                               *)
(***************************************************************************)
EXTENDS Integers, FiniteSets

CONSTANT Keys

VARIABLES claims, size

In(s) == {k \in Keys : claims[k] = s}

PoolInit == claims = [k \in Keys |-> "idle"] /\ size \in Nat \ {0}

Claim(k) ==
  /\ k \in In("idle")
  /\ claims' = [claims EXCEPT ![k] =
                  IF Cardinality(In("holding")) < size THEN "holding"
                  ELSE "waiting"]
  /\ UNCHANGED size

\* k gives its slot back to nobody.
GiveBack(k) ==
  /\ k \in In("holding") /\ In("waiting") = {}
  /\ claims' = [claims EXCEPT ![k] = "idle"]
  /\ UNCHANGED size

\* k gives its slot to n.
HandOver(k, n) ==
  /\ k \in In("holding") /\ n \in In("waiting")
  /\ claims' = [claims EXCEPT ![k] = "idle", ![n] = "holding"]
  /\ UNCHANGED size

\* The number of slots changes; whoever holds or waits is left alone.
ChangeSize == size' \in Nat \ {0} /\ UNCHANGED claims

PoolNext ==
  \/ \E k \in Keys : Claim(k) \/ GiveBack(k) \/ \E n \in Keys : HandOver(k, n)
  \/ ChangeSize

PoolSpec == PoolInit /\ [][PoolNext]_<<claims, size>>
=============================================================================
