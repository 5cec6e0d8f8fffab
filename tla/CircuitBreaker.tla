----------------------------- MODULE CircuitBreaker -----------------------------
(***************************************************************************)
(* One breaker of llm/CircuitBreaker.ts as a record. Its methods are        *)
(* synchronous; the module that has the calls says when they run.           *)
(***************************************************************************)
EXTENDS Integers

CONSTANT Threshold  \* FAILURE_THRESHOLD

ASSUME ThresholdAssumption == Threshold \in Nat \ {0}

\* failures: consecutiveFailures, counted up to Threshold because nothing
\* tells larger values apart. due: PROBE_INTERVAL_MS since openedAt is over.
Breaker == [state : {"closed", "open", "half"}, failures : 0..Threshold,
            probing : BOOLEAN, due : BOOLEAN]

Fresh == [state |-> "closed", failures |-> 0, probing |-> FALSE, due |-> FALSE]

\* _maybeTransitionToHalfOpen.
Observed(b) ==
  IF b.state = "open" /\ b.due
  THEN [b EXCEPT !.state = "half", !.probing = FALSE, !.due = FALSE] ELSE b

\* beforeRequest: whether it throws CircuitOpenError, and the breaker after it.
Refuses(b) ==
  Observed(b).state = "open" \/ (Observed(b).state = "half" /\ Observed(b).probing)

BeforeRequest(b) ==
  [Observed(b) EXCEPT !.probing = @ \/ Observed(b).state = "half"]

\* Mutant of OnSuccess: the count is not reset.
OnSuccessKeepsCount(b) == [b EXCEPT !.state = "closed", !.probing = FALSE]

OnSuccess(b) == Fresh

\* Mutant of OnFailure: an error of the client leaves before the slot is freed.
OnFailureKeepsSlot(b, retryable) ==
  IF ~retryable THEN b
  ELSE LET n == IF b.failures < Threshold THEN b.failures + 1 ELSE Threshold
           opens == b.state = "half" \/ (b.state = "closed" /\ n = Threshold)
       IN [b EXCEPT !.probing = FALSE, !.failures = n,
                    !.state = IF opens THEN "open" ELSE @,
                    !.due = @ /\ ~opens]

\* Whoever fails frees the slot of the probe.
OnFailure(b, retryable) ==
  LET n == IF b.failures < Threshold THEN b.failures + 1 ELSE Threshold
      opens == b.state = "half" \/ (b.state = "closed" /\ n = Threshold)
  IN IF ~retryable THEN [b EXCEPT !.probing = FALSE]
     ELSE [b EXCEPT !.probing = FALSE, !.failures = n,
                    !.state = IF opens THEN "open" ELSE @,
                    !.due = @ /\ ~opens]
=============================================================================
