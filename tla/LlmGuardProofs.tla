---------------------------- MODULE LlmGuardProofs ----------------------------
(***************************************************************************)
(* The types, the counting and the probe slot of LlmGuard, for every        *)
(* number of callers of each kind, every threshold and every budget.        *)
(***************************************************************************)
EXTENDS LlmGuard, TLAPS

\* One breaker: closed exactly while its count is below the threshold.
Counted(b) == b.state = "closed" <=> b.failures < Threshold

\* Every breaker of the registry is a breaker, and counted.
Sound == breakers \in [Scopes -> Breaker] /\ \A s \in Scopes : Counted(breakers[s])

\* The inductive invariant.
IInv == TypeOK /\ Sound

-----------------------------------------------------------------------------
(* One breaker *)

\* A fresh breaker, which onSuccess leaves behind, is sound and free.
LEMMA FreshIsSound ==
  Fresh \in Breaker /\ Counted(Fresh) /\ ~Fresh.probing
  BY ThresholdAssumption DEF Fresh, Breaker, Counted

\* beforeRequest keeps a breaker sound; when it refuses, it takes no slot.
LEMMA BeforeRequestIsSound ==
  ASSUME NEW b \in Breaker, Counted(b)
  PROVE  /\ BeforeRequest(b) \in Breaker /\ Counted(BeforeRequest(b))
         /\ Refuses(b) /\ BeforeRequest(b).probing => b.probing
<1>1. Observed(b) \in Breaker /\ Counted(Observed(b))
      /\ (Observed(b).probing => b.probing)
  BY ThresholdAssumption DEF Breaker, Counted, Observed
<1>2. BeforeRequest(b) \in Breaker /\ Counted(BeforeRequest(b))
      /\ BeforeRequest(b).probing
           = (Observed(b).probing \/ Observed(b).state = "half")
  BY <1>1 DEF Breaker, Counted, BeforeRequest
<1> QED
  BY <1>1, <1>2 DEF Refuses

\* onFailure keeps a breaker sound and frees the slot.
LEMMA OnFailureIsSound ==
  ASSUME NEW b \in Breaker, Counted(b), NEW r \in BOOLEAN
  PROVE  /\ OnFailure(b, r) \in Breaker /\ Counted(OnFailure(b, r))
         /\ ~OnFailure(b, r).probing
<1> DEFINE n == IF b.failures < Threshold THEN b.failures + 1 ELSE Threshold
           opens == b.state = "half" \/ (b.state = "closed" /\ n = Threshold)
           due == b.due /\ ~opens
           state == IF opens THEN "open" ELSE b.state
<1>1. CASE ~r
  BY <1>1 DEF Breaker, Counted, OnFailure
<1>2. CASE r
  <2>1. n \in 0..Threshold /\ opens \in BOOLEAN /\ due \in BOOLEAN
        /\ state \in {"closed", "open", "half"}
        /\ (state = "closed" <=> n < Threshold)
    BY ThresholdAssumption DEF Breaker, Counted
  <2>2. OnFailure(b, r) = [state |-> state, failures |-> n, probing |-> FALSE,
                           due |-> due]
    <3> HIDE DEF n, opens
    <3>1. OnFailure(b, r) = [b EXCEPT !.probing = FALSE, !.failures = n,
                                      !.state = IF opens THEN "open" ELSE @,
                                      !.due = @ /\ ~opens]
      BY <1>2, Zenon DEF OnFailure, n, opens
    <3> QED
      BY <3>1 DEF Breaker
  <2> HIDE DEF n, due, state
  <2> QED
    BY <2>1, <2>2 DEF Breaker, Counted
<1> QED
  BY <1>1, <1>2

-----------------------------------------------------------------------------
(* The registry *)

\* The scopes that attempts and operations go by.
LEMMA ScopeOfCaller ==
  ASSUME NEW c \in Callers
  PROVE  Scope(c) \in Scopes /\ "shared" \in Scopes
         /\ (c \in Plain => Scope(c) = "shared")
         /\ (c \notin Plain /\ c \notin Direct => Scope(c) # "shared")
  BY CallersAssumption DEF Callers, Scope, Scopes

\* A failure reported by a call changes at most the breaker it holds.
LEMMA FailedIsSound ==
  ASSUME Sound, NEW c \in Callers, NEW role \in Roles, NEW r \in BOOLEAN,
         breakers' = Failed(c, role, r)
  PROVE  /\ Sound'
         /\ breakers'["shared"].probing => breakers["shared"].probing
         /\ role \in holds[c] /\ Of(c, role) = "shared"
              => ~breakers'["shared"].probing
<1>1. Of(c, role) \in Scopes /\ "shared" \in Scopes
  BY ScopeOfCaller DEF Of
<1>2. CASE role \in holds[c]
  <2> DEFINE s == Of(c, role)
  <2>1. breakers' = [breakers EXCEPT ![s] = OnFailure(breakers[s], r)]
    BY <1>2 DEF Failed
  <2>2. /\ OnFailure(breakers[s], r) \in Breaker
        /\ Counted(OnFailure(breakers[s], r))
        /\ ~OnFailure(breakers[s], r).probing
    BY <1>1, OnFailureIsSound DEF Sound
  <2> QED
    BY <1>1, <2>1, <2>2 DEF Sound
<1>3. CASE role \notin holds[c]
  BY <1>3 DEF Failed, Sound
<1> QED
  BY <1>2, <1>3

\* So does a success.
LEMMA SucceededIsSound ==
  ASSUME Sound, NEW c \in Callers, NEW role \in Roles,
         breakers' = Succeeded(c, role)
  PROVE  /\ Sound'
         /\ breakers'["shared"].probing => breakers["shared"].probing
         /\ role \in holds[c] /\ Of(c, role) = "shared"
              => ~breakers'["shared"].probing
<1>1. Of(c, role) \in Scopes /\ "shared" \in Scopes
  BY ScopeOfCaller DEF Of
<1>2. CASE role \in holds[c]
  <2> DEFINE s == Of(c, role)
  <2>1. breakers' = [breakers EXCEPT ![s] = Fresh]
    BY <1>2 DEF Succeeded, OnSuccess
  <2> QED
    BY <1>1, <2>1, FreshIsSound DEF Sound
<1>3. CASE role \notin holds[c]
  BY <1>3 DEF Succeeded, Sound
<1> QED
  BY <1>2, <1>3

\* The catch of the guard reports to the breaker of its scope, unless the call
\* was aborted.
LEMMA GuardSeesIsSound ==
  ASSUME TypeOK, Sound, NEW c \in Callers, GuardSees(c)
  PROVE  /\ Sound'
         /\ breakers'["shared"].probing => breakers["shared"].probing
         /\ c \in Plain /\ "guard" \in holds[c] /\ calls[c].error \notin Aborts
              => ~breakers'["shared"].probing
<1>1. CASE calls[c].error \in Aborts
  BY <1>1 DEF GuardSees, Sound
<1>2. CASE calls[c].error \notin Aborts
  <2>1. breakers' = Failed(c, "guard", Retryable(calls[c].error))
        /\ Retryable(calls[c].error) \in BOOLEAN /\ "guard" \in Roles
    BY <1>2 DEF GuardSees, Retryable, Roles
  <2>2. c \in Plain => Of(c, "guard") = "shared"
    BY ScopeOfCaller DEF Of
  <2> QED
    BY <2>1, <2>2, FailedIsSound
<1> QED
  BY <1>1, <1>2

\* A breaker that a request passes, or is refused by.
LEMMA RequestIsSound ==
  ASSUME Sound, NEW s \in Scopes,
         breakers' = [breakers EXCEPT ![s] = BeforeRequest(@)]
  PROVE  /\ Sound'
         /\ s # "shared" \/ Refuses(breakers["shared"])
              => (breakers'["shared"].probing => breakers["shared"].probing)
<1>1. "shared" \in Scopes
  BY DEF Scopes
<1>2. /\ BeforeRequest(breakers[s]) \in Breaker
      /\ Counted(BeforeRequest(breakers[s]))
      /\ Refuses(breakers[s]) /\ BeforeRequest(breakers[s]).probing
           => breakers[s].probing
  BY BeforeRequestIsSound DEF Sound
<1> QED
  BY <1>1, <1>2 DEF Sound

\* Resets leave every breaker fresh.
LEMMA ResetIsSound ==
  ASSUME breakers' = [s \in Scopes |-> Fresh]
  PROVE  Sound' /\ ~breakers'["shared"].probing
  BY FreshIsSound DEF Sound, Scopes

-----------------------------------------------------------------------------
(* The steps *)

\* Every step keeps the breakers sound.
LEMMA SoundStays ==
  ASSUME TypeOK, Sound, [Next]_vars
  PROVE  Sound'
<1>1. ASSUME NEW c \in Callers, Attempt(c) PROVE Sound'
  BY <1>1, RequestIsSound, ScopeOfCaller DEF Attempt
<1>2. ASSUME NEW c \in Callers, Enter(c) PROVE Sound'
  BY <1>2, RequestIsSound, ScopeOfCaller DEF Enter
<1>3. ASSUME NEW c \in Callers, Answer(c) \/ Return(c) PROVE Sound'
  BY <1>3, SucceededIsSound DEF Answer, Return, Roles
<1>4. ASSUME NEW c \in Callers, NEW error \in Errors, NEW counted \in BOOLEAN,
             Fail(c, error, counted)
      PROVE  Sound'
  BY <1>4, FailedIsSound DEF Fail, Roles
<1>5. ASSUME NEW c \in Callers,
             RetryBusy(c) \/ Compact(c) \/ Discard(c) \/ Waits(c) \/ Repeats(c)
      PROVE  Sound'
  <2>1. GuardSees(c)
    BY <1>5 DEF RetryBusy, Compact, Discard, Waits, Repeats
  <2> QED
    BY <2>1, GuardSeesIsSound
<1>6. ASSUME NEW c \in Callers, Recycle(c) \/ UserMessage(c) PROVE Sound'
  BY <1>6, ResetIsSound DEF Recycle, UserMessage, OnSuccess
<1>7. ASSUME NEW s \in Scopes, ProbeInterval(s) PROVE Sound'
  BY <1>7 DEF ProbeInterval, Sound, Counted, Breaker
<1>8. ASSUME NEW c \in Callers, Stream(c) \/ Unbuildable(c) \/ Cancel(c)
      PROVE  Sound'
  BY <1>8 DEF Stream, Unbuildable, Cancel, Sound
<1>9. CASE ProviderRecovers \/ UNCHANGED vars
  BY <1>9 DEF ProviderRecovers, vars, Sound
<1> QED
  BY <1>1, <1>2, <1>3, <1>4, <1>5, <1>6, <1>7, <1>8, <1>9 DEF Next, Proceeds

\* A call that is over is a call.
LEMMA OverIsTyped ==
  ASSUME TypeOK, NEW c \in Callers, NEW outer \in 0..(MaxRetries - 1),
         Over(c, outer)
  PROVE  calls' \in [Callers -> Call]
<1>1. [NewCall EXCEPT !.outer = outer] \in Call
  BY CallersAssumption DEF NewCall, Call, Errors
<1> QED
  BY <1>1 DEF TypeOK, Over

\* So is one that is going round in its guard.
LEMMA AgainIsTyped ==
  ASSUME TypeOK, NEW c \in Callers,
         NEW stage \in {"whole", "compacted", "discarded"}, NEW k \in {1, 2},
         calls' = Again(c, stage, k)
  PROVE  calls' \in [Callers -> Call]
<1> DEFINE n == More(calls[c].retries, k)
           next == [NewCall EXCEPT !.stage = stage, !.retries = n,
                                   !.outer = calls[c].outer]
<1>1. calls[c].retries \in 0..MaxRetries /\ calls[c].outer \in 0..(MaxRetries - 1)
  BY DEF TypeOK, Call
<1>2. n \in 0..MaxRetries
  BY <1>1, CallersAssumption DEF More
<1>3. next \in Call
  <2> HIDE DEF n
  <2> QED
    BY <1>1, <1>2 DEF NewCall, Call, Errors
<1>4. calls' = [calls EXCEPT ![c] = next]
  BY DEF Again
<1> QED
  BY <1>3, <1>4 DEF TypeOK

\* Every step keeps the types of what the callers do and hold.
LEMMA CallsStayTyped ==
  ASSUME TypeOK, [Next]_vars
  PROVE  /\ calls' \in [Callers -> Call]
         /\ holds' \in [Callers -> SUBSET Roles] /\ steady' \in BOOLEAN
<1>1. ASSUME NEW c \in Callers,
             \/ Attempt(c) \/ Stream(c) \/ Enter(c) \/ Answer(c) \/ Unbuildable(c)
             \/ \E error \in Errors, counted \in BOOLEAN : Fail(c, error, counted)
      PROVE  /\ calls' \in [Callers -> Call]
             /\ holds' \in [Callers -> SUBSET Roles] /\ steady' \in BOOLEAN
  BY <1>1 DEF Attempt, Stream, Enter, Answer, Unbuildable, Fail, Moves, TypeOK,
              Call, Roles, Errors
<1>2. ASSUME NEW c \in Callers, Return(c) \/ Recycle(c) \/ Cancel(c)
      PROVE  /\ calls' \in [Callers -> Call]
             /\ holds' \in [Callers -> SUBSET Roles] /\ steady' \in BOOLEAN
  <2>1. Over(c, 0) \/ Over(c, calls[c].outer)
    BY <1>2 DEF Return, Recycle, Cancel
  <2>2. 0 \in 0..(MaxRetries - 1) /\ calls[c].outer \in 0..(MaxRetries - 1)
    BY CallersAssumption DEF TypeOK, Call
  <2>3. calls' \in [Callers -> Call]
    BY <2>1, <2>2, OverIsTyped
  <2> QED
    BY <1>2, <2>3 DEF Return, Recycle, Cancel, TypeOK
<1>3. ASSUME NEW c \in Callers, RetryBusy(c) \/ Compact(c) \/ Discard(c)
      PROVE  /\ calls' \in [Callers -> Call]
             /\ holds' \in [Callers -> SUBSET Roles] /\ steady' \in BOOLEAN
  <2>1. \/ calls' = Again(c, calls[c].stage, 1)
        \/ calls' = Again(c, "compacted", 2) \/ calls' = Again(c, "discarded", 2)
    BY <1>3 DEF RetryBusy, Compact, Discard
  <2>2. calls[c].stage \in {"whole", "compacted", "discarded"}
    BY DEF TypeOK, Call
  <2>3. calls' \in [Callers -> Call]
    BY <2>1, <2>2, AgainIsTyped
  <2> QED
    BY <1>3, <2>3 DEF RetryBusy, Compact, Discard, TypeOK
<1>4. ASSUME NEW c \in Callers, Waits(c) \/ UserMessage(c)
      PROVE  /\ calls' \in [Callers -> Call]
             /\ holds' \in [Callers -> SUBSET Roles] /\ steady' \in BOOLEAN
  BY <1>4, CallersAssumption
     DEF Waits, UserMessage, TypeOK, NewCall, Call, Errors
<1>5. ASSUME NEW c \in Callers, Repeats(c)
      PROVE  /\ calls' \in [Callers -> Call]
             /\ holds' \in [Callers -> SUBSET Roles] /\ steady' \in BOOLEAN
  <2> DEFINE outer == IF c \notin Leaders \/ calls[c].error = "overflow" THEN 0
                      ELSE IF Counts(calls[c].error) THEN calls[c].outer + 1
                      ELSE calls[c].outer
  <2>1. outer \in 0..(MaxRetries - 1)
    BY <1>5, CallersAssumption DEF Repeats, Stops, TypeOK, Call
  <2>2. Over(c, outer)
    BY <1>5 DEF Repeats
  <2>3. calls' \in [Callers -> Call]
    <3> HIDE DEF outer
    <3> QED
      BY <2>1, <2>2, OverIsTyped
  <2> QED
    BY <1>5, <2>3 DEF Repeats, TypeOK
<1>6. CASE (\E s \in Scopes : ProbeInterval(s)) \/ ProviderRecovers \/ UNCHANGED vars
  BY <1>6 DEF ProbeInterval, ProviderRecovers, vars, TypeOK
<1> QED
  BY <1>1, <1>2, <1>3, <1>4, <1>5, <1>6 DEF Next, Proceeds

\* The owner of the slot is somebody else than the caller that moves, or still
\* owns it after the move.
LEMMA OthersOwn ==
  ASSUME SharedProbeOwned, NEW c \in Callers, Reports(c) => Reports(c)',
         \A d \in Callers : d # c => calls'[d] = calls[d] /\ holds'[d] = holds[d],
         breakers'["shared"].probing => breakers["shared"].probing
  PROVE  SharedProbeOwned'
<1> SUFFICES ASSUME breakers'["shared"].probing PROVE \E d \in Callers : Reports(d)'
  BY DEF SharedProbeOwned
<1>1. PICK d \in Callers : Reports(d)
  BY DEF SharedProbeOwned
<1>2. CASE d = c
  BY <1>1, <1>2
<1>3. CASE d # c
  BY <1>1, <1>3 DEF Reports
<1> QED
  BY <1>2, <1>3

\* Every step but an abort keeps an owner of the slot of the shared breaker.
LEMMA OwnerStays ==
  ASSUME TypeOK, Sound, SharedProbeOwned, [Next]_vars
  PROVE  SharedProbeOwned' \/ AbortedLeaves
<1> USE DEF TypeOK
<1>1. ASSUME NEW c \in Callers, Attempt(c) PROVE SharedProbeOwned'
  <2>1. /\ \A d \in Callers : d # c => calls'[d] = calls[d] /\ holds'[d] = holds[d]
        /\ calls'[c].at \in {"refused", "admitted"} /\ "guard" \in holds'[c]
        /\ ~Reports(c)
    BY <1>1 DEF Attempt, Moves, Reports
  <2>2. CASE c \in Plain
    BY <2>1, <2>2 DEF Reports, SharedProbeOwned
  <2>3. CASE c \notin Plain
    <3>1. Scope(c) # "shared" /\ Scope(c) \in Scopes
      BY <1>1, <2>3, ScopeOfCaller DEF Attempt
    <3>2. breakers'["shared"].probing => breakers["shared"].probing
      BY <1>1, <3>1, RequestIsSound DEF Attempt
    <3> QED
      BY <2>1, <3>2, OthersOwn
  <2> QED
    BY <2>2, <2>3
<1>2. ASSUME NEW c \in Callers, Stream(c) PROVE SharedProbeOwned'
  <2>1. calls[c].at = "admitted" /\ calls'[c].at = "inside"
    BY <1>2, CallersAssumption DEF Stream, Begins, Moves, Call
  <2>2. (Reports(c) => Reports(c)') /\ breakers' = breakers
        /\ \A d \in Callers : d # c => calls'[d] = calls[d] /\ holds'[d] = holds[d]
    BY <1>2, <2>1 DEF Stream, Moves, Reports
  <2> QED
    BY <2>2, OthersOwn
<1>3. ASSUME NEW c \in Callers, Enter(c) PROVE SharedProbeOwned'
  <2>1. \A d \in Callers : d # c => calls'[d] = calls[d] /\ holds'[d] = holds[d]
    BY <1>3 DEF Enter, Moves
  <2>2. CASE Refuses(breakers["shared"])
    <3>1. breakers'["shared"].probing => breakers["shared"].probing
      BY <1>3, <2>2, RequestIsSound DEF Enter, Scopes
    <3>2. Reports(c) => Reports(c)'
      <4>1. holds' = holds
        BY <1>3, <2>2 DEF Enter
      <4>2. CASE c \in Direct
        BY <1>3, <4>2, CallersAssumption DEF Enter, Begins, Reports
      <4>3. CASE c \notin Direct
        <5>1. calls[c].at = "admitted" /\ calls'[c].at = "refused"
          BY <1>3, <2>2, <4>3 DEF Enter, Begins, Moves, Call
        <5> QED
          BY <4>1, <5>1 DEF Reports
      <4> QED
        BY <4>2, <4>3
    <3> QED
      BY <2>1, <3>1, <3>2, OthersOwn DEF SharedProbeOwned
  <2>3. CASE ~Refuses(breakers["shared"])
    <3>1. Reports(c)'
      <4>1. calls'[c].at = "inside"
        BY <1>3, <2>3 DEF Enter, Moves, Call
      <4>2. "provider" \in holds'[c]
        BY <1>3, <2>3 DEF Enter
      <4> QED
        BY <4>1, <4>2 DEF Reports
    <3> QED
      BY <3>1 DEF SharedProbeOwned
  <2> QED
    BY <2>2, <2>3
<1>4. ASSUME NEW c \in Callers, Answer(c) PROVE SharedProbeOwned'
  <2>1. /\ breakers'["shared"].probing => breakers["shared"].probing
        /\ "provider" \in holds[c] => ~breakers'["shared"].probing
    BY <1>4, SucceededIsSound DEF Answer, Of, Roles
  <2>2. CASE "provider" \in holds[c]
    BY <2>1, <2>2 DEF SharedProbeOwned
  <2>3. CASE "provider" \notin holds[c]
    <3>1. Reports(c) => Reports(c)'
      BY <1>4, <2>3 DEF Answer, Moves, Reports, Call
    <3> QED
      BY <1>4, <2>1, <3>1, OthersOwn DEF Answer, Moves
  <2> QED
    BY <2>2, <2>3
<1>5. ASSUME NEW c \in Callers, NEW error \in Errors, NEW counted \in BOOLEAN,
             Fail(c, error, counted)
      PROVE  SharedProbeOwned'
  <2>1. /\ breakers'["shared"].probing => breakers["shared"].probing
        /\ "provider" \in holds[c] => ~breakers'["shared"].probing
    BY <1>5, FailedIsSound DEF Fail, Of, Roles
  <2>2. CASE "provider" \in holds[c]
    BY <2>1, <2>2 DEF SharedProbeOwned
  <2>3. CASE "provider" \notin holds[c]
    <3>1. Reports(c) => Reports(c)'
      BY <1>5, <2>3 DEF Fail, Reports, Call
    <3> QED
      BY <1>5, <2>1, <3>1, OthersOwn DEF Fail
  <2> QED
    BY <2>2, <2>3
<1>6. ASSUME NEW c \in Callers, Unbuildable(c) PROVE SharedProbeOwned'
  <2>1. breakers' = breakers /\ (Reports(c) => Reports(c)')
        /\ \A d \in Callers : d # c => calls'[d] = calls[d] /\ holds'[d] = holds[d]
    BY <1>6 DEF Unbuildable, Reports
  <2> QED
    BY <2>1, OthersOwn DEF SharedProbeOwned
<1>7. ASSUME NEW c \in Callers, Return(c) \/ Cancel(c) PROVE SharedProbeOwned'
  <2>1. \A d \in Callers : d # c => calls'[d] = calls[d] /\ holds'[d] = holds[d]
    BY <1>7 DEF Return, Cancel, Over
  <2>2. /\ breakers'["shared"].probing => breakers["shared"].probing
        /\ Reports(c) => ~breakers'["shared"].probing
    <3>1. CASE Cancel(c)
      BY <3>1 DEF Cancel, Reports
    <3>2. CASE Return(c)
      BY <3>2, SucceededIsSound, ScopeOfCaller DEF Return, Roles, Reports, Of
    <3> QED
      BY <1>7, <3>1, <3>2
  <2> QED
    BY <2>1, <2>2, OthersOwn DEF SharedProbeOwned
<1>8. ASSUME NEW c \in Callers, Recycle(c) \/ UserMessage(c)
      PROVE  SharedProbeOwned'
  BY <1>8, ResetIsSound DEF Recycle, UserMessage, OnSuccess, SharedProbeOwned
<1>9. ASSUME NEW c \in Callers,
             RetryBusy(c) \/ Compact(c) \/ Discard(c) \/ Waits(c) \/ Repeats(c)
      PROVE  SharedProbeOwned' \/ AbortedLeaves
  <2>1. calls[c].at = "failed" /\ GuardSees(c)
    BY <1>9 DEF RetryBusy, Compact, Discard, Waits, Repeats, Thrown
  <2>2. \A d \in Callers : d # c => calls'[d] = calls[d] /\ holds'[d] = holds[d]
    BY <1>9 DEF RetryBusy, Compact, Discard, Waits, Repeats, Over, Again
  <2>3. breakers'["shared"].probing => breakers["shared"].probing
    BY <2>1, GuardSeesIsSound
  <2>4. CASE c \in Plain /\ "guard" \in holds[c]
    <3>1. CASE calls[c].error \notin Aborts
      BY <2>1, <2>4, <3>1, GuardSeesIsSound DEF SharedProbeOwned
    <3>2. CASE calls[c].error \in Aborts
      <4>1. calls'[c].at \in {"ready", "waiting"}
        <5>1. CASE Repeats(c)
          BY <5>1 DEF Repeats, Over, NewCall
        <5>2. CASE Waits(c)
          BY <5>2 DEF Waits, NewCall
        <5>3. CASE RetryBusy(c) \/ Compact(c) \/ Discard(c)
          BY <5>3 DEF RetryBusy, Compact, Discard, Again, NewCall
        <5> QED
          BY <1>9, <5>1, <5>2, <5>3
      <4> QED
        BY <2>1, <2>4, <3>2, <4>1 DEF AbortedLeaves
    <3> QED
      BY <3>1, <3>2
  <2>5. CASE ~(c \in Plain /\ "guard" \in holds[c])
    <3>1. ~Reports(c)
      BY <2>1, <2>5 DEF Reports
    <3> QED
      BY <2>2, <2>3, <3>1, OthersOwn
  <2> QED
    BY <2>4, <2>5
<1>10. ASSUME NEW s \in Scopes, ProbeInterval(s) PROVE SharedProbeOwned'
  <2>1. breakers'["shared"].probing = breakers["shared"].probing
    BY <1>10 DEF ProbeInterval, Scopes, Breaker
  <2> QED
    BY <1>10, <2>1 DEF ProbeInterval, SharedProbeOwned, Reports
<1>11. CASE ProviderRecovers \/ UNCHANGED vars
  BY <1>11 DEF ProviderRecovers, vars, SharedProbeOwned, Reports
<1> QED
  BY <1>1, <1>2, <1>3, <1>4, <1>5, <1>6, <1>7, <1>8, <1>9, <1>10, <1>11
     DEF Next, Proceeds

-----------------------------------------------------------------------------
(* The theorems *)

\* The invariant holds at first.
LEMMA InitHolds == Init => IInv
<1> SUFFICES ASSUME Init PROVE IInv
  OBVIOUS
<1>1. NewCall \in Call
  BY CallersAssumption DEF NewCall, Call
<1>2. TypeOK /\ Sound
  BY <1>1, FreshIsSound DEF Init, TypeOK, Sound, Roles
<1> QED
  BY <1>2 DEF IInv

\* The slot is free at first.
LEMMA InitOwned == Init => SharedProbeOwned
  BY FreshIsSound DEF Init, SharedProbeOwned, Scopes

\* The invariant holds in every state.
THEOREM GuardInvariant == Spec => []IInv
<1>1. IInv /\ [Next]_vars => IInv'
  <2> SUFFICES ASSUME IInv, [Next]_vars PROVE IInv'
    OBVIOUS
  <2>1. TypeOK /\ Sound
    BY DEF IInv
  <2>2. Sound'
    BY <2>1, SoundStays
  <2>3. TypeOK'
    BY <2>1, <2>2, CallsStayTyped DEF TypeOK, Sound
  <2> QED
    BY <2>2, <2>3 DEF IInv
<1> QED
  BY <1>1, InitHolds, PTL DEF Spec

\* The breakers, the calls and their counters keep their types and bounds.
THEOREM TypeCorrect == Spec => []TypeOK
<1>1. IInv => TypeOK
  BY DEF IInv
<1> QED
  BY <1>1, GuardInvariant, PTL

\* No interleaving of late answers, probes, resets and clears leaves a breaker
\* of CircuitBreaker.ts open below its threshold or closed at it.
THEOREM BreakersCounted == Spec => []OpenExactlyWhenCounted
<1>1. IInv => OpenExactlyWhenCounted
  BY DEF IInv, Sound, Counted, OpenExactlyWhenCounted
<1> QED
  BY <1>1, GuardInvariant, PTL

\* The slot of the shared breaker's probe is lost by an abort alone: however
\* answers, failures, refusals and resets of streaming and other callers
\* interleave, each leaves the slot free or with a request under way.
THEOREM ProbeOwned == Spec => OnlyAbortLosesProbe
<1>1. IInv /\ [Next]_vars =>
        [SharedProbeOwned => SharedProbeOwned' \/ AbortedLeaves]_vars
  BY OwnerStays DEF IInv
<1> QED
  BY <1>1, GuardInvariant, PTL DEF Spec, OnlyAbortLosesProbe

\* As long as no guard of the shared scope is aborted, somebody who holds the
\* slot is still to report.
THEOREM ProbeOwnedUnlessAborted ==
  Spec /\ [][~AbortedLeaves]_vars => []SharedProbeOwned
<1>1. IInv /\ SharedProbeOwned /\ [Next]_vars /\ [~AbortedLeaves]_vars
        => SharedProbeOwned'
  <2> SUFFICES ASSUME IInv, SharedProbeOwned, [Next]_vars, [~AbortedLeaves]_vars
               PROVE  SharedProbeOwned'
    OBVIOUS
  <2>1. CASE UNCHANGED vars
    BY <2>1 DEF vars, SharedProbeOwned, Reports
  <2>2. CASE ~AbortedLeaves
    BY <2>2, OwnerStays DEF IInv
  <2> QED
    BY <2>1, <2>2
<1> QED
  BY <1>1, InitOwned, GuardInvariant, PTL DEF Spec
=============================================================================
