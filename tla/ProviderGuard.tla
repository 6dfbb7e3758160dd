--------------------------- MODULE ProviderGuard ---------------------------
(***************************************************************************)
(* The guards every paid call of Local Discovery passes: the request's     *)
(* RequestBudget and the daily ledger (spend.ts), the provider's circuit   *)
(* breaker and token bucket, the timeout and the retry (reliability.ts),   *)
(* in the order searchPlaces takes them (places.ts).                       *)
(*                                                                         *)
(* One provider, shared by every request of the instance.  Each request    *)
(* fans out to its adapters in parallel, one paid call each; JavaScript    *)
(* runs a call without interruption up to its next await, and that is one  *)
(* action.  Time is counted in ticks; Tick is the clock.                   *)
(***************************************************************************)
EXTENDS Integers, FiniteSets

CONSTANTS
    Request,       \* /search requests in flight at once
    Adapter,       \* the adapters a request fans out to
    PaidCallCap,   \* perRequestPaidCallCap
    Budget,        \* dailyBudgetUsd, in units of money
    Cost,          \* the estimate of one call, in the same units
    Threshold,     \* breakerThreshold
    Cooldown,      \* breakerCooldownMs, in ticks
    Capacity,      \* bucketCapacity; one token is refilled per tick
    Retries        \* retries of one guarded call

ASSUME GuardAssumption ==
    /\ IsFiniteSet(Request) /\ IsFiniteSet(Adapter)
    /\ PaidCallCap \in Nat /\ Budget \in Nat /\ Cost \in Nat \ {0}
    /\ Threshold \in Nat \ {0} /\ Cooldown \in Nat
    /\ Capacity \in Nat \ {0} /\ Retries \in Nat

Call == Request \X Adapter

\* What a call is doing: waiting for its fetch, sleeping before a retry, or
\* back in searchPlaces with a result it has not billed yet.
Waiting == {"fetch", "backoff", "won"}
Alert   == {50, 80, 100}  \* alertThresholds, in percent

VARIABLES
    breaker,     \* the breaker's state
    failures,    \* its counter, which stops mattering at Threshold
    cooling,     \* ticks until an open breaker allows a trial
    tokens,      \* tokens in the bucket
    call,        \* what each call is doing
    attempt,     \* retry()'s counter, for each call
    paid_calls,  \* RequestBudget.paidCalls
    spent,       \* totalUsd of today's ledger
    alerts,      \* alertsFired of today's ledger
    healthy      \* the provider has recovered for good

breakerVars == <<breaker, failures, cooling>>
ledgerVars  == <<paid_calls, spent, alerts>>
guardVars   == <<breakerVars, tokens, call, attempt, ledgerVars, healthy>>

InFlight == {k \in Call : call[k] \in Waiting}

GuardTypeOK ==
    /\ breaker \in {"closed", "open", "half_open"}
    /\ failures \in 0..Threshold
    /\ cooling \in 0..Cooldown
    /\ tokens \in 0..Capacity
    /\ call \in [Call -> {"idle", "done"} \cup Waiting]
    /\ attempt \in [Call -> 0..Retries]
    /\ paid_calls \in [Request -> Nat]
    /\ spent \in Nat
    /\ alerts \subseteq Alert
    /\ healthy \in BOOLEAN

GuardInit ==
    /\ breaker = "closed" /\ failures = 0 /\ cooling = 0
    /\ tokens = Capacity
    /\ call = [k \in Call |-> "idle"]
    /\ attempt = [k \in Call |-> 0]
    /\ paid_calls = [r \in Request |-> 0]
    /\ spent = 0 /\ alerts = {}
    /\ healthy = FALSE

-----------------------------------------------------------------------------
(* Budget and breaker                                                      *)

\* canAfford: headroom for one more call today.
Affordable == Budget - spent >= Cost

\* RequestBudget.canSpend.
CanSpend(r) == paid_calls[r] < PaidCallCap /\ Affordable

\* CircuitBreaker.canRequest answers true.
CanRequest == breaker = "open" => cooling = 0

\* CircuitBreaker.canRequest, answering true: an open breaker half-opens.
AdmitRequest ==
    /\ CanRequest
    /\ breaker' = IF breaker = "open" THEN "half_open" ELSE breaker
    /\ UNCHANGED <<failures, cooling>>

\* Mutant of OnSuccess: only the counter is reset.
OnSuccessCounts ==
    /\ failures' = 0
    /\ UNCHANGED <<breaker, cooling>>

\* CircuitBreaker.onSuccess.
OnSuccess ==
    /\ breaker' = "closed" /\ failures' = 0
    /\ UNCHANGED cooling

\* Mutant of OnFailure: an opening breaker forgets its count.
OnFailureCleared ==
    IF failures + 1 >= Threshold
    THEN breaker' = "open" /\ cooling' = Cooldown /\ failures' = 0
    ELSE failures' = failures + 1 /\ UNCHANGED <<breaker, cooling>>

\* CircuitBreaker.onFailure.
OnFailure ==
    /\ failures' = IF failures < Threshold THEN failures + 1 ELSE failures
    /\ IF failures + 1 >= Threshold
       THEN breaker' = "open" /\ cooling' = Cooldown
       ELSE UNCHANGED <<breaker, cooling>>

\* Mutant of Spend: RequestBudget and searchPlaces both record the call.
SpendTwice(r) ==
    /\ paid_calls' = [paid_calls EXCEPT ![r] = @ + 1]
    /\ spent' = spent + 2 * Cost
    /\ alerts' = alerts \cup {t \in Alert : spent' * 100 >= t * Budget}

\* RequestBudget.spend and recordSpend, with the alerts that fall due.
Spend(r) ==
    /\ paid_calls' = [paid_calls EXCEPT ![r] = @ + 1]
    /\ spent' = spent + Cost
    /\ alerts' = IF Budget = 0 THEN alerts
                 ELSE alerts \cup {t \in Alert : spent' * 100 >= t * Budget}

-----------------------------------------------------------------------------
(* searchPlaces                                                            *)

\* searchPlaces returns empty-handed, with `skipped`.
Skip(k) ==
    /\ call' = [call EXCEPT ![k] = "done"]
    /\ attempt' = [attempt EXCEPT ![k] = 0]
    /\ UNCHANGED <<ledgerVars, healthy>>

\* No budget: { skipped: "budget" }.
RefuseBudget(r, c) ==
    /\ call[<<r, c>>] = "idle" /\ ~CanSpend(r)
    /\ Skip(<<r, c>>)
    /\ UNCHANGED <<breakerVars, tokens>>

\* guardedCall throws CircuitOpenError, which searchPlaces turns into a skip.
RefuseOpen(r, c) ==
    /\ call[<<r, c>>] = "idle" /\ CanSpend(r) /\ ~CanRequest
    /\ Skip(<<r, c>>)
    /\ UNCHANGED <<breakerVars, tokens>>

\* RateLimitedError: the breaker has been asked first and may have half-opened.
RefuseRate(r, c) ==
    /\ call[<<r, c>>] = "idle" /\ CanSpend(r) /\ tokens = 0
    /\ AdmitRequest
    /\ Skip(<<r, c>>)
    /\ UNCHANGED tokens

\* All guards passed: the first attempt's request goes out.
StartCall(r, c) ==
    /\ call[<<r, c>>] = "idle" /\ CanSpend(r) /\ tokens > 0
    /\ AdmitRequest
    /\ tokens' = tokens - 1
    /\ call' = [call EXCEPT ![<<r, c>>] = "fetch"]
    /\ UNCHANGED <<attempt, ledgerVars, healthy>>

\* The fetch answers in time: onSuccess, and guardedCall returns.
FetchOk(k) ==
    /\ call[k] = "fetch"
    /\ OnSuccess
    /\ call' = [call EXCEPT ![k] = "won"]
    /\ attempt' = [attempt EXCEPT ![k] = 0]
    /\ UNCHANGED <<tokens, ledgerVars, healthy>>

\* The continuation in searchPlaces bills the call.
Bill(r, c) ==
    /\ call[<<r, c>>] = "won"
    /\ Spend(r)
    /\ call' = [call EXCEPT ![<<r, c>>] = "done"]
    /\ UNCHANGED <<breakerVars, tokens, attempt, healthy>>

\* The fetch fails or times out and the error may be retried: retry() sleeps.
\* The next attempt asks neither the breaker nor the bucket nor the budget.
FetchRetried(k) ==
    /\ call[k] = "fetch" /\ attempt[k] < Retries /\ ~healthy
    /\ call' = [call EXCEPT ![k] = "backoff"]
    /\ attempt' = [attempt EXCEPT ![k] = @ + 1]
    /\ UNCHANGED <<breakerVars, tokens, ledgerVars, healthy>>

BackoffOver(k) ==
    /\ call[k] = "backoff"
    /\ call' = [call EXCEPT ![k] = "fetch"]
    /\ UNCHANGED <<breakerVars, tokens, attempt, ledgerVars, healthy>>

\* It fails for good: no attempt left, or a 4xx that shouldRetry rejects.
FetchFailed(k) ==
    /\ call[k] = "fetch" /\ ~healthy
    /\ OnFailure
    /\ Skip(k)
    /\ UNCHANGED tokens

-----------------------------------------------------------------------------
(* Around the calls                                                        *)

\* A request is over and the next one comes, with a RequestBudget of its own.
NewRequest(r) ==
    /\ \A c \in Adapter : call[<<r, c>>] = "done"
    /\ call' = [k \in Call |-> IF k[1] = r THEN "idle" ELSE call[k]]
    /\ paid_calls' = [paid_calls EXCEPT ![r] = 0]
    /\ UNCHANGED <<breakerVars, tokens, attempt, spent, alerts, healthy>>

\* Mutant of Tick: the refill without Math.min.
TickUncapped ==
    /\ tokens < Capacity \/ cooling > 0
    /\ tokens' = tokens + 1
    /\ cooling' = IF cooling > 0 THEN cooling - 1 ELSE 0
    /\ UNCHANGED <<breaker, failures, call, attempt, ledgerVars, healthy>>

\* Time passes: the bucket is refilled and an open breaker cools.
Tick ==
    /\ tokens < Capacity \/ cooling > 0
    /\ tokens' = IF tokens < Capacity THEN tokens + 1 ELSE tokens
    /\ cooling' = IF cooling > 0 THEN cooling - 1 ELSE 0
    /\ UNCHANGED <<breaker, failures, call, attempt, ledgerVars, healthy>>

\* UTC midnight: currentLedger starts a fresh ledger.
NewDay ==
    /\ spent > 0
    /\ spent' = 0 /\ alerts' = {}
    /\ UNCHANGED <<breakerVars, tokens, call, attempt, paid_calls, healthy>>

\* The provider's outage is over; from here on every fetch answers.
Recover ==
    /\ ~healthy /\ healthy' = TRUE
    /\ UNCHANGED <<breakerVars, tokens, call, attempt, ledgerVars>>

CallStep(r, c) ==
    \/ RefuseBudget(r, c) \/ RefuseOpen(r, c) \/ RefuseRate(r, c)
    \/ StartCall(r, c) \/ Bill(r, c)
    \/ FetchOk(<<r, c>>) \/ FetchRetried(<<r, c>>)
    \/ BackoffOver(<<r, c>>) \/ FetchFailed(<<r, c>>)

GuardNext ==
    \/ \E r \in Request, c \in Adapter : CallStep(r, c)
    \/ \E r \in Request : NewRequest(r)
    \/ Tick \/ NewDay \/ Recover

GuardSpec == GuardInit /\ [][GuardNext]_guardVars

\* Timeouts settle every fetch, requests keep coming, the clock runs.
FairGuardSpec ==
    /\ GuardSpec
    /\ WF_guardVars(Tick) /\ WF_guardVars(NewDay)
    /\ \A r \in Request : WF_guardVars(NewRequest(r))
    /\ \A r \in Request, c \in Adapter : WF_guardVars(CallStep(r, c))

-----------------------------------------------------------------------------
(* Properties                                                              *)

\* The daily budget is read before a call and charged after it, so calls in
\* flight may overshoot it, but by no more than all the calls can cost at once,
\* however many requests have come and gone (spend.ts canAfford, recordSpend).
DailyOvershoot == spent + Cost * Cardinality(InFlight)
                     <= Budget + Cost * Cardinality(Call)

\* No call is refused for the day's money before the 80% alert has fired,
\* when one call costs at most a fifth of the budget (spend.ts recordSpend).
AlertBeforeRefusal ==
    (Cost * 5 <= Budget /\ ~Affordable) => {50, 80} \subseteq alerts

\* Whatever order the outcomes of overlapping calls come in, a breaker that is
\* not closed has its counter at the threshold, so the first failure of a trial
\* re-opens it, and a closed one has not (CircuitBreaker.onFailure).
TrialFailureReopens == breaker = "closed" <=> failures < Threshold

\* A provider that has recovered is used again: the breaker closes and stays
\* closed, in spite of empty buckets, spent budgets and trials turned away
\* after the breaker had half-opened (reliability.ts guardedCall).
BreakerRecovers == healthy ~> [](breaker = "closed")

=============================================================================
