------------------------------- MODULE LlmGuard -------------------------------
(***************************************************************************)
(* Requests to one provider and model: the circuit breakers of its scopes,  *)
(* the attempts of agents/LlmGuard.ts under the breaker of the caller's     *)
(* scope, the operation of llm/provider_runtime.ts under the shared one,    *)
(* and what the Leader's loop (agents/leader/LeaderThinkingLoop.ts) does    *)
(* with the error that comes out.                                          *)
(***************************************************************************)
EXTENDS CircuitBreaker

CONSTANTS
  Leaders,     \* Leaders of sessions: one scope, retries by compaction
  Agents,      \* worker agents: a scope each
  Plain,       \* guards without cbScope: their scope is the shared breaker
  Direct,      \* callers of generateContent without a guard
  Streamers,   \* callers that may stream: no operation under the shared breaker
  MaxRetries   \* attempts of a guard, and failed calls of a Leader in a row

Callers == Leaders \cup Agents \cup Plain \cup Direct

ASSUME CallersAssumption ==
  /\ MaxRetries \in Nat \ {0}
  /\ Streamers \subseteq Leaders \cup Agents \cup Plain
  /\ Leaders \cap (Agents \cup Plain \cup Direct) = {}
  /\ Agents \cap (Plain \cup Direct \cup {"leader", "shared"}) = {}
  /\ Plain \cap Direct = {}

VARIABLES
  breakers,  \* the registry, by scope
  calls,     \* what each caller is doing
  holds,     \* the breakers of a caller's attempt that are in the registry
  steady     \* from here on the provider answers and nobody aborts

vars == <<breakers, calls, holds, steady>>

Scope(c) == IF c \in Leaders THEN "leader"
            ELSE IF c \in Agents THEN c ELSE "shared"
Scopes == Agents \cup {"leader", "shared"}

\* expired: the Leader's limit for one round; it aborts like the user does.
Aborts == {"aborted", "expired"}
Errors == {"timeout", "busy", "overflow", "auth", "fatal"} \cup Aborts
Retryable(error) == error \in {"timeout", "busy"}

\* stage: what is left of the conversation after compactions that a guard
\* asked for. retries: retryCount, up to MaxRetries. outer: llmErrorRetryCount.
Call == [at : {"ready", "admitted", "inside", "answered", "failed", "refused",
               "waiting"},
         error : Errors \cup {"none"}, stage : {"whole", "compacted", "discarded"},
         retries : 0..MaxRetries, outer : 0..(MaxRetries - 1)]
NewCall == [at |-> "ready", error |-> "none", stage |-> "whole",
            retries |-> 0, outer |-> 0]

\* guard: cb of LlmGuard. provider: cb of retryProviderOperation.
Roles == {"guard", "provider"}
Of(c, role) == IF role = "provider" THEN "shared" ELSE Scope(c)

TypeOK ==
  /\ breakers \in [Scopes -> Breaker] /\ calls \in [Callers -> Call]
  /\ holds \in [Callers -> SUBSET Roles] /\ steady \in BOOLEAN

-----------------------------------------------------------------------------
Succeeded(c, role) ==
  IF role \in holds[c]
  THEN [breakers EXCEPT ![Of(c, role)] = OnSuccess(@)] ELSE breakers

Failed(c, role, retryable) ==
  IF role \in holds[c]
  THEN [breakers EXCEPT ![Of(c, role)] = OnFailure(@, retryable)] ELSE breakers

\* The call is over: the next one has a guard of its own.
Over(c, outer) == calls' = [calls EXCEPT ![c] = [NewCall EXCEPT !.outer = outer]]

Moves(c, at) == calls' = [calls EXCEPT ![c].at = at]

\* An attempt of a guard passes the breaker of its scope.
Attempt(c) ==
  /\ calls[c].at = "ready" /\ c \notin Direct
  /\ breakers' = [breakers EXCEPT ![Scope(c)] = BeforeRequest(@)]
  /\ Moves(c, IF Refuses(breakers[Scope(c)]) THEN "refused" ELSE "admitted")
  /\ holds' = [holds EXCEPT ![c] = {"guard"}]
  /\ UNCHANGED steady

Begins(c) == calls[c].at = IF c \in Direct THEN "ready" ELSE "admitted"

Stream(c) ==
  /\ c \in Streamers /\ Begins(c)
  /\ Moves(c, "inside")
  /\ UNCHANGED <<breakers, holds, steady>>

\* retryProviderOperation. Nobody resets the breaker that refuses a caller
\* without a guard.
Enter(c) ==
  /\ Begins(c)
  /\ breakers' = [breakers EXCEPT !["shared"] = BeforeRequest(@)]
  /\ IF Refuses(breakers["shared"])
     THEN /\ Moves(c, IF c \in Direct THEN "ready" ELSE "refused")
          /\ UNCHANGED holds
     ELSE /\ Moves(c, "inside")
          /\ holds' = [holds EXCEPT ![c] = @ \cup {"provider"}]
  /\ UNCHANGED steady

Answer(c) ==
  /\ calls[c].at = "inside"
  /\ breakers' = Succeeded(c, "provider")
  /\ Moves(c, "answered")
  /\ UNCHANGED <<holds, steady>>

\* The shared breaker sees the error of the SDK: an abort looks like a timeout
\* or like an unknown error. Only a Leader tells three of the errors from
\* "fatal" and "aborted".
Fail(c, error, counted) ==
  /\ calls[c].at = "inside" /\ ~steady
  /\ error \in {"overflow", "auth", "expired"} => c \in Leaders
  /\ error \notin Aborts \cup {"timeout"} => counted = Retryable(error)
  /\ breakers' = Failed(c, "provider", counted)
  /\ calls' = [calls EXCEPT ![c].at = "failed", ![c].error = error]
  /\ UNCHANGED <<holds, steady>>

\* The request cannot be built.
Unbuildable(c) ==
  /\ calls[c].at = "admitted" /\ ~steady
  /\ calls' = [calls EXCEPT ![c].at = "failed", ![c].error = "fatal"]
  /\ UNCHANGED <<breakers, holds, steady>>

Return(c) ==
  /\ calls[c].at = "answered"
  /\ breakers' = Succeeded(c, "guard")
  /\ Over(c, 0) /\ holds' = [holds EXCEPT ![c] = {}]
  /\ UNCHANGED steady

\* Mutant of Recycle: the client is replaced and the breakers stay.
RecycleOnly(c) ==
  /\ calls[c].at = "refused"
  /\ Over(c, calls[c].outer) /\ holds' = [holds EXCEPT ![c] = {}]
  /\ UNCHANGED <<breakers, steady>>

\* A guard that was refused by either breaker resets all of them.
Recycle(c) ==
  /\ calls[c].at = "refused"
  /\ breakers' = [s \in Scopes |-> OnSuccess(breakers[s])]
  /\ Over(c, calls[c].outer) /\ holds' = [holds EXCEPT ![c] = {}]
  /\ UNCHANGED steady

-----------------------------------------------------------------------------
(* The catch of LlmGuard, from the error on *)

\* An abort leaves before the breaker hears of it.
GuardSees(c) ==
  breakers' = IF calls[c].error \in Aborts THEN breakers
              ELSE Failed(c, "guard", Retryable(calls[c].error))

More(n, k) == IF n + k < MaxRetries THEN n + k ELSE MaxRetries

\* The loop of the guard goes round, with k more in retryCount.
Again(c, stage, k) ==
  [calls EXCEPT ![c] = [NewCall EXCEPT !.stage = stage,
                                       !.retries = More(calls[c].retries, k),
                                       !.outer = calls[c].outer]]

RetriesBusy(c) == calls[c].error = "busy" /\ calls[c].retries + 1 < MaxRetries
Compacts(c) ==
  calls[c].error = "overflow" /\ calls[c].stage = "whole" /\ c \in Leaders
Discards(c) == calls[c].error = "fatal" /\ calls[c].stage # "whole"

RetryBusy(c) ==
  /\ calls[c].at = "failed" /\ c \notin Direct /\ RetriesBusy(c)
  /\ GuardSees(c)
  /\ calls' = Again(c, calls[c].stage, 1)
  /\ UNCHANGED <<holds, steady>>

Compact(c) ==
  /\ calls[c].at = "failed" /\ Compacts(c)
  /\ GuardSees(c)
  /\ calls' = Again(c, "compacted", 2)
  /\ UNCHANGED <<holds, steady>>

\* Whether the history was discarded before is not asked.
Discard(c) ==
  /\ calls[c].at = "failed" /\ Discards(c)
  /\ GuardSees(c)
  /\ calls' = Again(c, "discarded", 2)
  /\ UNCHANGED <<holds, steady>>

Thrown(c) ==
  calls[c].at = "failed"
    /\ (c \in Direct \/ ~(RetriesBusy(c) \/ Compacts(c) \/ Discards(c)))

\* The Leader counts the errors that it does not handle in a way of their own.
Counts(error) == error \in {"busy", "fatal", "expired"}

\* Mutant of Stops: one failed call too many.
StopsLate(c) ==
  c \in Leaders /\ (calls[c].error = "auth"
    \/ (Counts(calls[c].error) /\ calls[c].outer >= MaxRetries))

Stops(c) ==
  c \in Leaders /\ (calls[c].error = "auth"
    \/ (Counts(calls[c].error) /\ calls[c].outer + 1 >= MaxRetries))

Waits(c) ==
  /\ Thrown(c) /\ Stops(c)
  /\ GuardSees(c)
  /\ calls' = [calls EXCEPT ![c] = [NewCall EXCEPT !.at = "waiting"]]
  /\ holds' = [holds EXCEPT ![c] = {}]
  /\ UNCHANGED steady

\* A time-out goes back to the loop without being counted.
Repeats(c) ==
  /\ Thrown(c) /\ ~Stops(c)
  /\ GuardSees(c)
  /\ Over(c, IF c \notin Leaders \/ calls[c].error = "overflow" THEN 0
             ELSE IF Counts(calls[c].error) THEN calls[c].outer + 1
             ELSE calls[c].outer)
  /\ holds' = [holds EXCEPT ![c] = {}]
  /\ UNCHANGED steady

\* The user stops a call between two attempts.
Cancel(c) ==
  /\ calls[c].at = "ready" /\ calls[c].retries > 0 /\ ~steady
  /\ Over(c, calls[c].outer) /\ holds' = [holds EXCEPT ![c] = {}]
  /\ UNCHANGED <<breakers, steady>>

\* handleUserInput of a Leader that waits: the registry is cleared, attempts
\* under way keep breakers that nobody will look up.
UserMessage(c) ==
  /\ calls[c].at = "waiting"
  /\ breakers' = [s \in Scopes |-> Fresh]
  /\ calls' = [calls EXCEPT ![c] = NewCall]
  /\ holds' = [d \in Callers |-> {}]
  /\ UNCHANGED steady

ProbeInterval(s) ==
  /\ breakers[s].state = "open" /\ ~breakers[s].due
  /\ breakers' = [breakers EXCEPT ![s].due = TRUE]
  /\ UNCHANGED <<calls, holds, steady>>

ProviderRecovers ==
  /\ ~steady /\ steady' = TRUE
  /\ UNCHANGED <<breakers, calls, holds>>

-----------------------------------------------------------------------------
Init ==
  /\ breakers = [s \in Scopes |-> Fresh]
  /\ calls = [c \in Callers |-> NewCall] /\ holds = [c \in Callers |-> {}]
  /\ steady = FALSE

Proceeds(c) ==
  \/ Attempt(c) \/ Stream(c) \/ Enter(c) \/ Answer(c) \/ Unbuildable(c)
  \/ \E error \in Errors, counted \in BOOLEAN : Fail(c, error, counted)
  \/ Return(c) \/ Recycle(c) \/ RetryBusy(c) \/ Compact(c) \/ Discard(c)
  \/ Waits(c) \/ Repeats(c)

Next ==
  \/ \E c \in Callers : Proceeds(c) \/ Cancel(c) \/ UserMessage(c)
  \/ \E s \in Scopes : ProbeInterval(s)
  \/ ProviderRecovers

Spec == Init /\ [][Next]_vars

\* The watchdogs of an attempt end it, the callers' loops ask again, time goes
\* on. Nothing obliges the provider to answer, or the user to.
Fairness ==
  /\ \A c \in Callers : WF_vars(Proceeds(c))
  /\ \A s \in Scopes : WF_vars(ProbeInterval(s))

FairSpec == Spec /\ Fairness

-----------------------------------------------------------------------------
(* Properties *)

\* A breaker is closed exactly while fewer than Threshold retryable failures
\* were counted: late answers, probes and resets of several callers never
\* leave it open without cause or closed with a full count.
OpenExactlyWhenCounted ==
  \A s \in Scopes :
    breakers[s].state = "closed" <=> breakers[s].failures < Threshold

\* c has still to leave what may be the probe of the shared breaker.
Reports(c) ==
  \/ calls[c].at = "inside" /\ "provider" \in holds[c]
  \/ /\ c \in Plain /\ "guard" \in holds[c]
     /\ calls[c].at \in {"admitted", "inside", "answered", "failed", "refused"}
SharedProbeOwned == breakers["shared"].probing => \E c \in Callers : Reports(c)

\* A guard of the shared scope throws because its caller has aborted it.
AbortedLeaves ==
  \E c \in Plain : /\ calls[c].at = "failed" /\ calls[c].error \in Aborts
                  /\ "guard" \in holds[c] /\ calls'[c].at # "failed"

\* The slot of the shared breaker's probe is lost in one way only: an abort of
\* the guard that took it, which the breaker never hears of. Every other end of
\* an attempt, a refusal, a reset or the user's clearing of the registry frees
\* it, or leaves it to a request under way.
OnlyAbortLosesProbe ==
  [][SharedProbeOwned => SharedProbeOwned' \/ AbortedLeaves]_vars

\* Once the provider has recovered, no caller stays locked out, not even of a
\* scope whose probe was aborted: each is answered unless it waits for its
\* user.
ServedAgain ==
  \A c \in Callers : steady ~> calls[c].at \in {"answered", "waiting"}

\* A Leader whose requests all time out stops and waits for its user.
LeaderGivesUp ==
  \A c \in Leaders :
    <>[](/\ calls[c].at # "answered"
         /\ calls[c].at = "failed" => calls[c].error = "timeout")
      => <>(calls[c].at = "waiting")
=============================================================================
