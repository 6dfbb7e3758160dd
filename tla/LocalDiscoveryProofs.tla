------------------------ MODULE LocalDiscoveryProofs ------------------------
(***************************************************************************)
(* Proofs about Local Discovery, for any requests and adapters in flight,  *)
(* any budget, price, threshold, cooldown and bucket, and for any finite   *)
(* set of categories, any searches, streams and number of session objects. *)
(*                                                                         *)
(* What a call does to the ledger and the breaker is stated once, in the   *)
(* lemmas about calls.  Of the sessions, what is said is that their flags  *)
(* tell what is in their buffer, and that an open stream has the buffer;   *)
(* the rest follows from those.                                            *)
(***************************************************************************)
EXTENDS MCLocalDiscovery, FiniteSetTheorems, SequenceTheorems, TLAPS

-----------------------------------------------------------------------------
(* Calls                                                                   *)

\* Everything the breaker does to itself.
BreakerStep == AdmitRequest \/ OnSuccess \/ OnFailure \/ UNCHANGED breakerVars

\* No call bills, and no call starts.
LedgerStands == UNCHANGED <<spent, alerts>> /\ InFlight' \subseteq InFlight

\* A call starts, with money for one more call left.
LedgerPasses == UNCHANGED <<spent, alerts>> /\ Affordable

\* One call that was in flight bills.
LedgerBills ==
    /\ spent' = spent + Cost
    /\ alerts' = IF Budget = 0 THEN alerts
                 ELSE alerts \cup {t \in Alert : spent' * 100 >= t * Budget}
    /\ \E k \in InFlight : InFlight' \subseteq InFlight \ {k}

\* A new day.
LedgerClears == spent' = 0 /\ alerts' = {}

-----------------------------------------------------------------------------
(* Types                                                                   *)

LEMMA BreakerTypes ==
    ASSUME GuardTypeOK, BreakerStep
    PROVE  /\ breaker' \in {"closed", "open", "half_open"}
           /\ failures' \in 0..Threshold
           /\ cooling' \in 0..Cooldown
  BY GuardAssumption
     DEF GuardTypeOK, BreakerStep, AdmitRequest, OnSuccess, OnFailure, breakerVars

\* A step of a call moves that call and its attempts only.
LEMMA CallMoves ==
    ASSUME GuardTypeOK, NEW r \in Request, NEW c \in Adapter, CallStep(r, c)
    PROVE  /\ call' \in [Call -> {"idle", "done"} \cup Waiting]
           /\ attempt' \in [Call -> 0..Retries]
<1> DEFINE k == <<r, c>>
           Doing == {"idle", "done"} \cup Waiting
<1>0. k \in Call /\ attempt[k] \in 0..Retries /\ 0 \in 0..Retries
  BY GuardAssumption DEF Call, GuardTypeOK
<1>1. \E x \in Doing : call' = [call EXCEPT ![k] = x]
  BY DEF CallStep, RefuseBudget, RefuseOpen, RefuseRate, StartCall, Bill, FetchOk,
         FetchRetried, BackoffOver, FetchFailed, Skip, Waiting
<1>2. \E n \in 0..Retries : attempt' = [attempt EXCEPT ![k] = n] \/ attempt' = attempt
  <2>1. CASE FetchRetried(k)
    <3>1. attempt[k] + 1 \in 0..Retries
      BY <2>1, <1>0, GuardAssumption DEF FetchRetried
    <3>. QED
      BY <2>1, <3>1 DEF FetchRetried
  <2>2. CASE ~FetchRetried(k)
    BY <2>2, <1>0 DEF CallStep, RefuseBudget, RefuseOpen, RefuseRate, StartCall, Bill,
                      FetchOk, BackoffOver, FetchFailed, Skip
  <2>. QED
    BY <2>1, <2>2
<1>. QED
  BY <1>0, <1>1, <1>2 DEF GuardTypeOK

LEMMA CallTypes ==
    ASSUME GuardTypeOK, NEW r \in Request, NEW c \in Adapter, CallStep(r, c)
    PROVE  GuardTypeOK'
<1>1. BreakerStep
  BY DEF CallStep, RefuseBudget, RefuseOpen, RefuseRate, StartCall, Bill, FetchOk,
         FetchRetried, BackoffOver, FetchFailed, BreakerStep
<1>2. tokens' \in 0..Capacity
  BY GuardAssumption
     DEF GuardTypeOK, CallStep, RefuseBudget, RefuseOpen, RefuseRate, StartCall, Bill,
         FetchOk, FetchRetried, BackoffOver, FetchFailed
<1>3. /\ paid_calls' \in [Request -> Nat] /\ spent' \in Nat /\ alerts' \subseteq Alert
      /\ healthy' \in BOOLEAN
  <2>1. CASE Bill(r, c)
    <3>1. paid_calls' \in [Request -> Nat] /\ spent' \in Nat
      BY <2>1, GuardAssumption DEF Bill, Spend, GuardTypeOK
    <3>2. alerts' \subseteq Alert
      BY <2>1 DEF Bill, Spend, GuardTypeOK
    <3>3. healthy' \in BOOLEAN
      BY <2>1 DEF Bill, GuardTypeOK
    <3>. QED
      BY <3>1, <3>2, <3>3
  <2>2. CASE ~Bill(r, c)
    <3>1. UNCHANGED <<paid_calls, spent, alerts, healthy>>
      BY <2>2 DEF CallStep, RefuseBudget, RefuseOpen, RefuseRate, StartCall, FetchOk,
                  FetchRetried, BackoffOver, FetchFailed, Skip, ledgerVars
    <3>. QED
      BY <3>1 DEF GuardTypeOK
  <2>. QED
    BY <2>1, <2>2
<1>4. /\ breaker' \in {"closed", "open", "half_open"} /\ failures' \in 0..Threshold
      /\ cooling' \in 0..Cooldown
  BY <1>1, BreakerTypes
<1>5. /\ call' \in [Call -> {"idle", "done"} \cup Waiting]
      /\ attempt' \in [Call -> 0..Retries]
  BY CallMoves
<1>. QED
  BY <1>2, <1>3, <1>4, <1>5, Zenon DEF GuardTypeOK

LEMMA GuardInitTypes == GuardInit => GuardTypeOK
<1> SUFFICES ASSUME GuardInit PROVE GuardTypeOK
  OBVIOUS
<1>1. 0 \in 0..Threshold /\ 0 \in 0..Cooldown /\ Capacity \in 0..Capacity /\ 0 \in 0..Retries
  BY GuardAssumption
<1>2. /\ call \in [Call -> {"idle", "done"} \cup Waiting]
      /\ attempt \in [Call -> 0..Retries]
      /\ paid_calls \in [Request -> Nat] /\ spent \in Nat
  BY <1>1 DEF GuardInit
<1>3. healthy \in BOOLEAN /\ alerts \subseteq Alert
  BY DEF GuardInit
<1>. QED
  BY <1>1, <1>2, <1>3 DEF GuardInit, GuardTypeOK

LEMMA GuardStepTypes == GuardTypeOK /\ [GuardNext]_guardVars => GuardTypeOK'
<1> SUFFICES ASSUME GuardTypeOK, [GuardNext]_guardVars
             PROVE  GuardTypeOK'
  OBVIOUS
<1>1. ASSUME NEW r \in Request, NEW c \in Adapter, CallStep(r, c)
      PROVE  GuardTypeOK'
  BY <1>1, CallTypes
<1>2. ASSUME NEW r \in Request, NewRequest(r)
      PROVE  GuardTypeOK'
  BY <1>2 DEF NewRequest, GuardTypeOK, breakerVars
<1>3. CASE Tick
  BY <1>3, GuardAssumption DEF Tick, GuardTypeOK, ledgerVars
<1>4. CASE NewDay
  BY <1>4 DEF NewDay, GuardTypeOK, breakerVars
<1>5. CASE Recover
  BY <1>5 DEF Recover, GuardTypeOK, breakerVars, ledgerVars
<1>6. CASE UNCHANGED guardVars
  BY <1>6 DEF guardVars, GuardTypeOK, breakerVars, ledgerVars
<1>. QED
  BY <1>1, <1>2, <1>3, <1>4, <1>5, <1>6 DEF GuardNext

\* Every variable keeps its type: the bucket between empty and full, the counter
\* up to its threshold.
THEOREM GuardTypeCorrect == GuardSpec => []GuardTypeOK
  BY GuardInitTypes, GuardStepTypes, PTL DEF GuardSpec

-----------------------------------------------------------------------------
(* The breaker                                                             *)

LEMMA BreakerKeepsTrial ==
    ASSUME GuardTypeOK, TrialFailureReopens, [GuardNext]_guardVars
    PROVE  TrialFailureReopens'
<1>1. BreakerStep \/ (breaker' = breaker /\ failures' = failures)
  BY DEF GuardNext, CallStep, RefuseBudget, RefuseOpen, RefuseRate, StartCall, Bill,
         FetchOk, FetchRetried, BackoffOver, FetchFailed, NewRequest, Tick, NewDay,
         Recover, guardVars, breakerVars, BreakerStep
<1>. QED
  BY <1>1, GuardAssumption
     DEF BreakerStep, AdmitRequest, OnSuccess, OnFailure, breakerVars, GuardTypeOK,
         TrialFailureReopens

\* A breaker that is not closed re-opens at the first failure, whatever the
\* order in which overlapping calls end.
THEOREM TrialFailureAlwaysReopens == GuardSpec => []TrialFailureReopens
<1>1. GuardInit => TrialFailureReopens
  BY GuardAssumption DEF GuardInit, TrialFailureReopens
<1>. QED
  BY <1>1, BreakerKeepsTrial, GuardTypeCorrect, PTL DEF GuardSpec

-----------------------------------------------------------------------------
(* The ledger                                                              *)

\* What a step of a call can do to the ledger.
LEMMA CallLedger ==
    ASSUME GuardTypeOK, NEW r \in Request, NEW c \in Adapter, CallStep(r, c)
    PROVE  LedgerStands \/ LedgerPasses \/ LedgerBills
<1> DEFINE k == <<r, c>>
<1>0. k \in Call
  BY DEF Call
<1> USE <1>0 DEF GuardTypeOK, Waiting, InFlight
<1>1. CASE RefuseBudget(r, c) \/ RefuseOpen(r, c) \/ RefuseRate(r, c) \/ FetchFailed(k)
  BY <1>1 DEF RefuseBudget, RefuseOpen, RefuseRate, FetchFailed, Skip, LedgerStands,
              ledgerVars
<1>2. CASE StartCall(r, c)
  BY <1>2 DEF StartCall, CanSpend, LedgerPasses, ledgerVars
<1>3. CASE FetchOk(k) \/ FetchRetried(k) \/ BackoffOver(k)
  BY <1>3 DEF FetchOk, FetchRetried, BackoffOver, LedgerStands, ledgerVars
<1>4. CASE Bill(r, c)
  <2>1. k \in InFlight /\ InFlight' \subseteq InFlight \ {k}
    BY <1>4 DEF Bill
  <2>. QED
    BY <1>4, <2>1 DEF Bill, Spend, LedgerBills
<1>. QED
  BY <1>1, <1>2, <1>3, <1>4 DEF CallStep

\* What any step can do to it.
LEMMA StepLedger ==
    ASSUME GuardTypeOK, [GuardNext]_guardVars
    PROVE  LedgerStands \/ LedgerPasses \/ LedgerBills \/ LedgerClears
<1>1. ASSUME NEW r \in Request, NEW c \in Adapter, CallStep(r, c)
      PROVE  LedgerStands \/ LedgerPasses \/ LedgerBills
  BY <1>1, CallLedger
<1>2. ASSUME NEW r \in Request, NewRequest(r)
      PROVE  LedgerStands
  BY <1>2 DEF NewRequest, LedgerStands, InFlight, Waiting, GuardTypeOK
<1>3. CASE Tick \/ Recover \/ UNCHANGED guardVars
  BY <1>3 DEF Tick, Recover, guardVars, ledgerVars, LedgerStands, InFlight
<1>4. CASE NewDay
  BY <1>4 DEF NewDay, LedgerClears
<1>. QED
  BY <1>1, <1>2, <1>3, <1>4 DEF GuardNext

\* The alerts that are due have fired.
AlertsFired == Budget > 0 => {t \in Alert : spent * 100 >= t * Budget} \subseteq alerts

LEMMA LedgerKeepsAlerts ==
    ASSUME GuardTypeOK, AlertsFired, [GuardNext]_guardVars
    PROVE  AlertsFired'
<1>1. CASE LedgerStands \/ LedgerPasses
  BY <1>1 DEF LedgerStands, LedgerPasses, AlertsFired
<1>2. CASE LedgerBills
  BY <1>2 DEF LedgerBills, AlertsFired
<1>3. CASE LedgerClears
  BY <1>3, GuardAssumption DEF LedgerClears, AlertsFired, Alert
<1>. QED
  BY <1>1, <1>2, <1>3, StepLedger

\* No call is refused for the day's money before the 80% alert has fired.
THEOREM AlertsComeFirst == GuardSpec => []AlertBeforeRefusal
<1>1. GuardInit => AlertsFired
  BY GuardAssumption DEF GuardInit, AlertsFired, Alert
<1>2. GuardTypeOK /\ AlertsFired => AlertBeforeRefusal
  BY GuardAssumption DEF GuardTypeOK, AlertsFired, AlertBeforeRefusal, Affordable, Alert
<1>. QED
  BY <1>1, <1>2, LedgerKeepsAlerts, GuardTypeCorrect, PTL DEF GuardSpec

\* The price of fewer calls is not higher.
LEMMA PriceGrows ==
    ASSUME NEW m \in Nat, NEW n \in Nat, m <= n
    PROVE  Cost * m <= Cost * n /\ Cost * m \in Nat /\ Cost * n \in Nat
  BY GuardAssumption

LEMMA InFlightFinite ==
    /\ IsFiniteSet(Call) /\ IsFiniteSet(InFlight)
    /\ Cardinality(InFlight) <= Cardinality(Call)
    /\ Cardinality(Call) \in Nat /\ Cardinality(InFlight) \in Nat
<1>1. IsFiniteSet(Call)
  BY GuardAssumption, FS_Product DEF Call
<1>2. InFlight \in SUBSET Call
  BY DEF InFlight
<1>3. IsFiniteSet(InFlight) /\ Cardinality(InFlight) <= Cardinality(Call)
  BY <1>1, <1>2, FS_Subset
<1>. QED
  BY <1>1, <1>3, FS_CardinalityType

LEMMA LedgerKeepsOvershoot ==
    ASSUME GuardTypeOK, GuardTypeOK', DailyOvershoot, [GuardNext]_guardVars
    PROVE  DailyOvershoot'
<1> DEFINE n == Cardinality(InFlight)
           m == Cardinality(InFlight')
           all == Cardinality(Call)
<1>1. n \in Nat /\ m \in Nat /\ all \in Nat /\ m <= all
      /\ IsFiniteSet(InFlight)
  <2>1. Cardinality(InFlight') <= Cardinality(Call) /\ Cardinality(InFlight') \in Nat
    <3>1. InFlight' \in SUBSET Call
      BY DEF InFlight
    <3>. QED
      BY <3>1, InFlightFinite, FS_Subset, FS_CardinalityType
  <2>. QED
    BY <2>1, InFlightFinite
<1>2. spent \in Nat /\ spent' \in Nat /\ Cost \in Nat /\ Budget \in Nat
  BY GuardAssumption DEF GuardTypeOK
<1>3. spent + Cost * n <= Budget + Cost * all
  BY DEF DailyOvershoot
<1>4. spent' + Cost * m <= Budget + Cost * all
  <2>1. CASE LedgerStands
    <3>1. m <= n
      BY <2>1, <1>1, FS_Subset DEF LedgerStands
    <3>2. spent' = spent
      BY <2>1 DEF LedgerStands
    <3>3. Cost * m <= Cost * n /\ Cost * m \in Nat /\ Cost * n \in Nat /\ Cost * all \in Nat
      BY <3>1, <1>1, PriceGrows
    <3> HIDE DEF n, m, all
    <3>. QED
      BY <3>2, <3>3, <1>2, <1>3
  <2>2. CASE LedgerPasses
    <3>1. spent' = spent /\ Budget - spent >= Cost
      BY <2>2 DEF LedgerPasses, Affordable
    <3>2. Cost * m <= Cost * all /\ Cost * m \in Nat /\ Cost * all \in Nat
      BY <1>1, PriceGrows
    <3> HIDE DEF n, m, all
    <3>. QED
      BY <3>1, <3>2, <1>2
  <2>3. CASE LedgerBills
    <3>1. PICK k \in InFlight : InFlight' \subseteq InFlight \ {k}
      BY <2>3 DEF LedgerBills
    <3>2. IsFiniteSet(InFlight \ {k}) /\ Cardinality(InFlight \ {k}) = n - 1
      BY <1>1, FS_RemoveElement
    <3>3. m <= n - 1
      BY <3>1, <3>2, FS_Subset
    <3>4. spent' = spent + Cost
      BY <2>3 DEF LedgerBills
    <3> HIDE DEF n, m, all
    <3>5. m + 1 \in Nat /\ m + 1 <= n
      BY <3>3, <1>1
    <3>6. Cost * (m + 1) <= Cost * n /\ Cost * n \in Nat /\ Cost * m \in Nat /\ Cost * all \in Nat
      BY <3>5, <1>1, PriceGrows
    <3>7. Cost * (m + 1) = Cost * m + Cost
      BY <1>1, <1>2
    <3>. QED
      BY <3>4, <3>6, <3>7, <1>2, <1>3
  <2>4. CASE LedgerClears
    <3>1. spent' = 0
      BY <2>4 DEF LedgerClears
    <3>2. Cost * m <= Cost * all /\ Cost * m \in Nat /\ Cost * all \in Nat
      BY <1>1, PriceGrows
    <3> HIDE DEF n, m, all
    <3>. QED
      BY <3>1, <3>2, <1>2
  <2>. QED
    BY <2>1, <2>2, <2>3, <2>4, StepLedger
<1>. QED
  BY <1>4 DEF DailyOvershoot, Call

\* Calls in flight overshoot the daily budget by the price of all of them at
\* most.
THEOREM OvershootIsBounded == GuardSpec => []DailyOvershoot
<1>1. GuardInit => DailyOvershoot
  <2> SUFFICES ASSUME GuardInit PROVE DailyOvershoot
    OBVIOUS
  <2>1. InFlight = {} /\ Cardinality(InFlight) = 0 /\ spent = 0
    BY FS_EmptySet DEF GuardInit, InFlight, Waiting
  <2>2. Cost * Cardinality(Call) \in Nat /\ Cost * 0 = 0
    BY InFlightFinite, GuardAssumption
  <2>. QED
    BY <2>1, <2>2, GuardAssumption DEF DailyOvershoot
<1>. QED
  BY <1>1, LedgerKeepsOvershoot, GuardTypeCorrect, PTL DEF GuardSpec

-----------------------------------------------------------------------------
(* Sequences, and what runSearch emits at once                             *)

\* Naturals have a least element: induction over data rests on it.
LEMMA LeastNatural ==
    ASSUME NEW T \in SUBSET Nat, T # {}
    PROVE  \E x \in T : \A y \in T : x <= y
<1> DEFINE R == OpToRel(<, Nat)
<1>1. IsWellFoundedOn(R, Nat)
  BY NatLessThanWellFounded
<1>2. \A x, y \in Nat : y < x => <<y, x>> \in R
  BY DEF OpToRel
<1> HIDE DEF R
<1>3. PICK x \in T : \A y \in T : ~ (<<y, x>> \in R)
  BY <1>1, WFMin
<1>4. \A y \in T : y \in Nat /\ ~ (y < x)
  BY <1>2, <1>3
<1>5. \A y \in T : x <= y
  BY <1>4
<1>. QED
  BY <1>5

\* Natural numbers up to n that are reached step by step are all of them.
LEMMA StepByStep ==
    ASSUME NEW n \in Nat, NEW P \in SUBSET (0..n), 0 \in P,
           \A i \in 1..n : i - 1 \in P => i \in P
    PROVE  P = 0..n
<1> DEFINE T == (0..n) \ P
<1>1. SUFFICES ASSUME T # {} PROVE FALSE
  OBVIOUS
<1>2. T \in SUBSET Nat
  OBVIOUS
<1>3. PICK x \in T : \A y \in T : x <= y
  BY <1>1, <1>2, LeastNatural
<1>4. x \in 1..n /\ x - 1 \in 0..n
  BY <1>3
<1>5. x - 1 \in P
  BY <1>3, <1>4
<1>. QED
  BY <1>3, <1>4, <1>5

\* The request's order has every category once.
LEMMA QueryIsOrder ==
    /\ Query \in Seq(Category) /\ Len(Query) \in Nat /\ DOMAIN Query = 1..Len(Query)
    /\ \A i, j \in 1..Len(Query) : Query[i] = Query[j] => i = j
    /\ \A c \in Category : \E i \in 1..Len(Query) : Query[i] = c
<1> DEFINE n == Cardinality(Category)
<1>1. n \in Nat /\ Bijection(1..n, Category) # {}
  BY SessionAssumption, FS_CardinalityType DEF ExistsBijection
<1>2. PICK f \in [1..n -> Category] : IsInjective(f)
  BY <1>1 DEF Bijection, Injection
<1>3. Query \in [1..n -> Category] /\ IsInjective(Query)
  BY <1>2 DEF Query, SetToSeq
<1>4. Query \in Injection(1..n, Category)
  BY <1>3 DEF Injection
<1>5. IsFiniteSet(1..n) /\ Cardinality(1..n) = n
  BY <1>1, FS_Interval
<1>6. Query \in Surjection(1..n, Category)
  BY <1>4, <1>5, SessionAssumption, FS_Injection
<1>7. Query \in Seq(Category) /\ Len(Query) = n
  BY <1>3, <1>1
<1>. QED
  BY <1>1, <1>3, <1>6, <1>7 DEF IsInjective, Surjection

\* The events there are.
EventSet ==
    {Started, Complete} \cup {CatStart(c) : c \in Category} \cup {CatError(c) : c \in Category}
    \cup {Results(c, status) : c \in Category, status \in {"done", "degraded"}}

\* What runSearch emits at once for one category.
Block(c) == IF cache[c] = "none" THEN <<CatStart(c)>> ELSE <<CatStart(c), Results(c, "done")>>

EmittedDef(f, n) == f = [i \in 0..n |-> IF i = 0 THEN <<Started>> ELSE f[i - 1] \o Block(Query[i])]

\* There is such a function, by induction on the number of categories.
LEMMA EmittedExists == \E f : EmittedDef(f, Len(Query))
<1> DEFINE N == Len(Query)
           P == {n \in 0..N : \E f : EmittedDef(f, n)}
<1>1. 0 \in P
  <2>1. EmittedDef([i \in 0..0 |-> <<Started>>], 0)
    BY DEF EmittedDef
  <2>. QED
    BY <2>1, QueryIsOrder
<1>2. ASSUME NEW n \in 1..N, n - 1 \in P
      PROVE  n \in P
  <2>1. PICK f : EmittedDef(f, n - 1)
    BY <1>2
  <2> DEFINE g == [i \in 0..n |-> IF i = n THEN f[n - 1] \o Block(Query[n]) ELSE f[i]]
  <2>2. n \in Nat /\ n # 0 /\ n \in 0..n /\ n - 1 \in 0..n /\ N \in Nat
    BY QueryIsOrder
  <2>3. \A i \in 0..n : g[i] = IF i = 0 THEN <<Started>> ELSE g[i - 1] \o Block(Query[i])
    <3> SUFFICES ASSUME NEW i \in 0..n
                 PROVE  g[i] = IF i = 0 THEN <<Started>> ELSE g[i - 1] \o Block(Query[i])
      OBVIOUS
    <3>1. CASE i = n
      <4>1. g[n] = f[n - 1] \o Block(Query[n]) /\ n # 0
        BY <2>2
      <4>2. n - 1 # n /\ g[n - 1] = f[n - 1]
        BY <2>2
      <4>. QED
        BY <4>1, <4>2, <3>1
    <3>2. CASE i # n
      <4>1. i \in 0..(n - 1) /\ g[i] = f[i] /\ (i # 0 => i - 1 \in 0..n /\ i - 1 # n)
        BY <3>2, <2>2
      <4>2. i # 0 => g[i - 1] = f[i - 1]
        BY <4>1
      <4>. QED
        BY <4>1, <4>2, <2>1 DEF EmittedDef
    <3>. QED
      BY <3>1, <3>2
  <2> HIDE DEF g
  <2>4. g = [i \in 0..n |-> IF i = 0 THEN <<Started>> ELSE g[i - 1] \o Block(Query[i])]
    <3>1. \E h : g = [i \in 0..n |-> h[i]]
      <4> USE DEF g
      <4>. WITNESS [i \in 0..n |-> IF i = n THEN f[n - 1] \o Block(Query[n]) ELSE f[i]]
      <4>. QED OBVIOUS
    <3>. QED
      BY <2>3, <3>1
  <2>. QED
    BY <2>4, <1>2 DEF EmittedDef
<1>3. P = 0..N
  <2> HIDE DEF N
  <2>1. N \in Nat
    BY QueryIsOrder DEF N
  <2>2. P \in SUBSET (0..N)
    OBVIOUS
  <2> HIDE DEF P
  <2>. QED
    BY <1>1, <1>2, <2>1, <2>2, StepByStep
<1>4. N \in P
  BY <1>3, QueryIsOrder
<1>. QED
  BY <1>4

\* So Emitted is what its definition says.
LEMMA EmittedIs == EmittedDef(Emitted, Len(Query))
  BY EmittedExists DEF Emitted, EmittedDef, Block

\* and for each category more than the block of it comes after.
LEMMA EmittedStep ==
    /\ Emitted[0] = <<Started>>
    /\ \A n \in 1..Len(Query) : Emitted[n] = Emitted[n - 1] \o Block(Query[n])
<1>1. \A i \in 0..Len(Query) :
         Emitted[i] = IF i = 0 THEN <<Started>> ELSE Emitted[i - 1] \o Block(Query[i])
  BY EmittedIs DEF EmittedDef
<1>2. 0 \in 0..Len(Query) /\ \A n \in 1..Len(Query) : n \in 0..Len(Query) /\ n # 0
  BY QueryIsOrder
<1>. QED
  BY <1>1, <1>2

\* A buffer: a sequence of events, none of them twice.
Buffer(s) == s \in Seq(EventSet) /\ \A i, j \in 1..Len(s) : s[i] = s[j] => i = j

\* Events of different kinds, or of different categories, differ.
LEMMA EventsApart ==
    /\ Started \in EventSet /\ Complete \in EventSet /\ Started # Complete
    /\ \A c \in Category :
          /\ CatStart(c) \in EventSet /\ SettledBy(c) \subseteq EventSet
          /\ CatStart(c) \notin {Started, Complete}
          /\ Started \notin SettledBy(c) /\ Complete \notin SettledBy(c)
    /\ \A c, d \in Category :
          /\ CatStart(c) \notin SettledBy(d)
          /\ c # d => CatStart(c) # CatStart(d) /\ SettledBy(c) \cap SettledBy(d) = {}
<1>1. Started \in EventSet /\ Complete \in EventSet
  BY DEF EventSet
<1>2. \A c \in Category : CatStart(c) \in EventSet /\ SettledBy(c) \subseteq EventSet
  <2>1. \A c \in Category, status \in {"done", "degraded"} : Results(c, status) \in EventSet
    BY DEF EventSet
  <2>2. \A c \in Category : CatStart(c) \in EventSet /\ CatError(c) \in EventSet
    BY DEF EventSet
  <2>. QED
    BY <2>1, <2>2 DEF SettledBy
<1>3. Started.type = "search_started" /\ Complete.type = "search_complete"
  BY DEF Started, Complete, Event
<1>4. \A c : /\ CatStart(c).type = "category_started" /\ CatStart(c).category = c
             /\ \A e \in SettledBy(c) :
                   e.category = c /\ e.type \in {"category_error", "category_results"}
  BY DEF CatStart, SettledBy, CatError, Results, Event
<1>. QED
  BY <1>1, <1>2, <1>3, <1>4

\* A buffer grows by an event that is not in it.
LEMMA BufferGrows ==
    ASSUME NEW s, Buffer(s), NEW e \in EventSet, e \notin Range(s)
    PROVE  /\ Buffer(Append(s, e)) /\ Range(Append(s, e)) = Range(s) \cup {e}
           /\ Last(Append(s, e)) = e /\ Len(Append(s, e)) = Len(s) + 1 /\ Append(s, e) # <<>>
<1> DEFINE t == Append(s, e)
<1>1. s \in Seq(EventSet) /\ Len(s) \in Nat /\ DOMAIN s = 1..Len(s)
  BY DEF Buffer
<1>2. /\ t \in Seq(EventSet) /\ t # <<>> /\ Len(t) = Len(s) + 1
      /\ \A i \in 1..Len(s) : t[i] = s[i]
      /\ t[Len(s) + 1] = e
  BY <1>1, AppendProperties
<1>3. DOMAIN t = 1..(Len(s) + 1)
  BY <1>1, <1>2
<1> HIDE DEF t
<1>4. Range(t) = Range(s) \cup {e}
  BY <1>1, <1>2, <1>3 DEF Range
<1>5. \A i \in 1..Len(s) : s[i] # e
  BY <1>1 DEF Range
<1>6. \A i, j \in 1..Len(t) : t[i] = t[j] => i = j
  <2> SUFFICES ASSUME NEW i \in 1..Len(t), NEW j \in 1..Len(t), t[i] = t[j]
               PROVE  i = j
    OBVIOUS
  <2>1. (i \in 1..Len(s) \/ i = Len(s) + 1) /\ (j \in 1..Len(s) \/ j = Len(s) + 1)
    BY <1>1, <1>2
  <2>. QED
    BY <2>1, <1>2, <1>5 DEF Buffer
<1>. QED
  BY <1>2, <1>4, <1>6 DEF Buffer, Last, t

\* What is in a buffer after an emit.
LEMMA AppendedRange ==
    ASSUME NEW s \in Seq(EventSet), NEW e \in EventSet
    PROVE  Range(Append(s, e)) = Range(s) \cup {e}
<1>1. Len(s) \in Nat /\ DOMAIN s = 1..Len(s) /\ DOMAIN Append(s, e) = 1..(Len(s) + 1)
      /\ \A i \in 1..Len(s) : Append(s, e)[i] = s[i]
      /\ Append(s, e)[Len(s) + 1] = e
  BY AppendProperties
<1>2. \A i \in 1..(Len(s) + 1) : i \in 1..Len(s) \/ i = Len(s) + 1
  BY <1>1
<1>. QED
  BY <1>1, <1>2 DEF Range

LEMMA TwoAppended ==
    ASSUME NEW S, NEW s \in Seq(S), NEW a \in S, NEW b \in S
    PROVE  s \o <<a, b>> = Append(Append(s, a), b)
<1>1. <<a>> \in Seq(S) /\ <<b>> \in Seq(S) /\ <<a, b>> = <<a>> \o <<b>>
  <2>1. <<a>> \in Seq(S) /\ <<b>> \in Seq(S) /\ <<a, b>> \in Seq(S)
    OBVIOUS
  <2>2. /\ <<a>> \o <<b>> \in Seq(S) /\ Len(<<a>> \o <<b>>) = 2
        /\ (<<a>> \o <<b>>)[1] = a /\ (<<a>> \o <<b>>)[2] = b
    <3>1. Len(<<a>>) = 1 /\ Len(<<b>>) = 1 /\ <<a>>[1] = a /\ <<b>>[1] = b
      OBVIOUS
    <3>2. /\ <<a>> \o <<b>> \in Seq(S) /\ Len(<<a>> \o <<b>>) = Len(<<a>>) + Len(<<b>>)
          /\ \A i \in 1..Len(<<a>>) + Len(<<b>>) :
                (<<a>> \o <<b>>)[i] = IF i <= Len(<<a>>) THEN <<a>>[i] ELSE <<b>>[i - Len(<<a>>)]
      BY <2>1, ConcatProperties
    <3>. QED
      BY <3>1, <3>2
  <2>3. Len(<<a, b>>) = 2 /\ \A i \in 1..2 : <<a, b>>[i] = (<<a>> \o <<b>>)[i]
    BY <2>2
  <2>4. <<a, b>> = <<a>> \o <<b>>
    BY <2>1, <2>2, <2>3, SeqEqual
  <2>. QED
    BY <2>1, <2>4
<1>2. s \o <<a>> \in Seq(S)
  BY <1>1, ConcatProperties
<1>3. Append(s, a) = s \o <<a>> /\ Append(s \o <<a>>, b) = (s \o <<a>>) \o <<b>>
  BY <1>2, AppendIsConcat
<1>4. s \o (<<a>> \o <<b>>) = (s \o <<a>>) \o <<b>>
  BY <1>1, ConcatAssociative
<1>. QED
  BY <1>1, <1>3, <1>4

\* What has been emitted for the first n categories.
Told(n) ==
    {Started} \cup {CatStart(Query[i]) : i \in 1..n}
    \cup {Results(Query[i], "done") : i \in {j \in 1..n : cache[Query[j]] # "none"}}

\* One category more is emitted.
LEMMA BlockTold ==
    ASSUME NEW n \in 1..Len(Query), NEW s, Buffer(s), Range(s) = Told(n - 1)
    PROVE  Buffer(s \o Block(Query[n])) /\ Range(s \o Block(Query[n])) = Told(n)
<1> DEFINE c == Query[n]
           t == Append(s, CatStart(c))
<1>1. c \in Category /\ \A i \in 1..(n - 1) : Query[i] \in Category /\ Query[i] # c
  BY QueryIsOrder
<1>2. CatStart(c) \in EventSet /\ Results(c, "done") \in EventSet /\ Results(c, "done") \in SettledBy(c)
  BY <1>1, EventsApart DEF SettledBy
<1>3. CatStart(c) \notin Told(n - 1)
  <2>1. \A i \in 1..(n - 1) : Results(Query[i], "done") \in SettledBy(Query[i])
    BY DEF SettledBy
  <2>. QED
    BY <2>1, <1>1, EventsApart DEF Told
<1>4. Buffer(t) /\ Range(t) = Told(n - 1) \cup {CatStart(c)} /\ t \in Seq(EventSet) /\ s \in Seq(EventSet)
  BY <1>2, <1>3, BufferGrows DEF Buffer
<1>5. 1..n = (1..(n - 1)) \cup {n}
  BY QueryIsOrder
<1>6. CASE cache[c] = "none"
  <2>1. s \o Block(c) = t
    BY <1>2, <1>4, <1>6, AppendIsConcat DEF Block
  <2>2. Told(n) = Told(n - 1) \cup {CatStart(c)}
    BY <1>5, <1>6 DEF Told
  <2>. QED
    BY <2>1, <2>2, <1>4
<1>7. CASE cache[c] # "none"
  <2>1. s \o Block(c) = Append(t, Results(c, "done"))
    BY <1>2, <1>4, <1>7, TwoAppended DEF Block
  <2>2. Told(n) = Told(n - 1) \cup {CatStart(c)} \cup {Results(c, "done")}
    BY <1>5, <1>7 DEF Told
  <2>3. Results(c, "done") \notin Range(t)
    <3>1. \A i \in 1..(n - 1) : Results(Query[i], "done") \in SettledBy(Query[i])
      BY DEF SettledBy
    <3>2. Results(c, "done") \notin Told(n - 1)
      BY <3>1, <1>1, <1>2, EventsApart DEF Told
    <3>3. Results(c, "done") # CatStart(c)
      BY <1>1, <1>2, EventsApart
    <3>. QED
      BY <1>4, <3>2, <3>3
  <2> HIDE DEF t
  <2>4. Buffer(Append(t, Results(c, "done"))) /\ Range(Append(t, Results(c, "done"))) = Range(t) \cup {Results(c, "done")}
    BY <1>2, <1>4, <2>3, BufferGrows
  <2>. QED
    BY <2>1, <2>2, <2>4, <1>4
<1>. QED
  BY <1>6, <1>7

\* What a search that begins emits at once: that it started, every category's
\* start, and the results of those that are cached; each once.
LEMMA FirstBuffer ==
    /\ Buffer(FirstEvents)
    /\ Range(FirstEvents) = {Started} \cup {CatStart(c) : c \in Category}
                              \cup {Results(c, "done") : c \in Cached}
<1> DEFINE N == Len(Query)
           P == {n \in 0..N : Buffer(Emitted[n]) /\ Range(Emitted[n]) = Told(n)}
<1>1. 0 \in P
  <2>1. Buffer(<<Started>>) /\ Range(<<Started>>) = {Started}
    BY EventsApart DEF Buffer, Range
  <2>2. Told(0) = {Started}
    BY DEF Told
  <2>3. 0 \in 0..N
    BY QueryIsOrder
  <2>. QED
    BY <2>1, <2>2, <2>3, EmittedStep, Zenon
<1>2. ASSUME NEW n \in 1..N, n - 1 \in P
      PROVE  n \in P
  <2>1. Buffer(Emitted[n - 1]) /\ Range(Emitted[n - 1]) = Told(n - 1) /\ n \in 0..N
    BY <1>2
  <2>2. Emitted[n] = Emitted[n - 1] \o Block(Query[n])
    BY EmittedStep
  <2>3. Buffer(Emitted[n]) /\ Range(Emitted[n]) = Told(n)
    BY <2>1, <2>2, BlockTold
  <2>. QED
    BY <2>1, <2>3
<1>3. N \in Nat /\ P \in SUBSET (0..N)
  BY QueryIsOrder
<1> HIDE DEF N, P
<1>4. P = 0..N
  BY <1>1, <1>2, <1>3, StepByStep
<1>5. N \in P
  BY <1>3, <1>4
<1>6. Told(N) = {Started} \cup {CatStart(c) : c \in Category}
                 \cup {Results(c, "done") : c \in Cached}
  <2>1. {CatStart(Query[i]) : i \in 1..N} = {CatStart(c) : c \in Category}
    BY QueryIsOrder DEF N
  <2>2. {Results(Query[i], "done") : i \in {j \in 1..N : cache[Query[j]] # "none"}}
           = {Results(c, "done") : c \in Cached}
    BY QueryIsOrder DEF N, Cached
  <2>. QED
    BY <2>1, <2>2 DEF Told
<1>7. Buffer(Emitted[N]) /\ Range(Emitted[N]) = Told(N)
  BY <1>5 DEF P
<1>. QED
  BY <1>6, <1>7 DEF FirstEvents, N

-----------------------------------------------------------------------------
(* Sessions and streams                                                    *)

SessionRecord == [search : SearchId, started : BOOLEAN, done : BOOLEAN,
                  events : Seq(EventSet), settled : SUBSET Category]

StreamRecord == [state : {"away", "resolving", "open"}, search : SearchId \cup {None},
                 active : Nat \cup {None}, got : Seq(EventSet)]

\* A session's flags and its buffer agree.
Sound(x) ==
    /\ x \in SessionRecord /\ Buffer(x.events)
    /\ ~x.started => x.events = <<>> /\ ~x.done /\ x.settled = {}
    /\ x.started => Started \in Range(x.events)
                    /\ \A c \in Category : CatStart(c) \in Range(x.events)
    /\ \A c \in Category :
          /\ c \in x.settled <=> Range(x.events) \cap SettledBy(c) # {}
          /\ \A e, f \in Range(x.events) \cap SettledBy(c) : e = f
    /\ x.done <=> Complete \in Range(x.events)
    /\ x.done => x.settled = Category /\ Last(x.events) = Complete

\* The session objects ss are sound.
AllSound(ss) == ss \in Seq(SessionRecord) /\ \A o \in 1..Len(ss) : Sound(ss[o])

\* Stream k, if it is open, follows one of them, which is under way.
Follows(k, ss) ==
    k.state = "open" =>
        /\ k.active \in 1..Len(ss) /\ ss[k.active].started /\ ~ss[k.active].done
        /\ k.got = ss[k.active].events

Registered(s) ==
    registry[s] # None => registry[s] \in 1..Len(session) /\ session[registry[s]].search = s

SessionInv ==
    /\ AllSound(session) /\ Len(session) <= MaxObjects
    /\ posted \subseteq SearchId /\ \A o \in 1..Len(session) : session[o].search \in posted
    /\ registry \in [SearchId -> Nat \cup {None}] /\ \A s \in SearchId : Registered(s)
    /\ expired \subseteq 1..Len(session)
    /\ cache \in [Category -> {"none", "live", "degraded"}]
    /\ client \in [Client -> StreamRecord]
    /\ \A k \in Client : Follows(client[k], session)
    /\ \A k \in Client : client[k].state = "resolving" => client[k].search \in posted

\* No events.
LEMMA EmptyBuffer == Buffer(<<>>) /\ Range(<<>>) = {}
  BY DEF Buffer, Range

\* A session as it is built is sound.
LEMMA NewSound ==
    ASSUME NEW s \in SearchId
    PROVE  Sound(NewSession(s)) /\ NewSession(s).search = s /\ NewSession(s).events = <<>>
           /\ ~NewSession(s).started
  BY EmptyBuffer DEF Sound, NewSession, SessionRecord

\* A session with its fan-out begun.
Begun(x) == [x EXCEPT !.started = TRUE, !.events = FirstEvents, !.settled = Cached]

\* At the beginning, the cached categories and no others have an outcome.
LEMMA FirstOutcome ==
    ASSUME NEW c \in Category
    PROVE  /\ Range(FirstEvents) \cap SettledBy(c) = IF c \in Cached THEN {Results(c, "done")} ELSE {}
           /\ Complete \notin Range(FirstEvents) /\ Started \in Range(FirstEvents)
           /\ CatStart(c) \in Range(FirstEvents)
<1>1. \A d \in Category : Results(d, "done") \in SettledBy(d)
  BY DEF SettledBy
<1>2. Cached \subseteq Category
  BY DEF Cached
<1>3. \A d \in Cached : Results(d, "done") # Complete /\ (d # c => Results(d, "done") \notin SettledBy(c))
  BY <1>1, <1>2, EventsApart
<1>4. Complete \notin Range(FirstEvents) /\ Started \in Range(FirstEvents)
      /\ CatStart(c) \in Range(FirstEvents)
  BY <1>3, FirstBuffer, EventsApart
<1>5. Range(FirstEvents) \cap SettledBy(c) = {Results(d, "done") : d \in Cached} \cap SettledBy(c)
  BY FirstBuffer, EventsApart
<1>6. {Results(d, "done") : d \in Cached} \cap SettledBy(c)
         = IF c \in Cached THEN {Results(c, "done")} ELSE {}
  BY <1>1, <1>3
<1>. QED
  BY <1>4, <1>5, <1>6

\* It is sound.
LEMMA BegunSound ==
    ASSUME NEW x, Sound(x), ~x.started
    PROVE  /\ Sound(Begun(x)) /\ Begun(x).started /\ ~Begun(x).done
           /\ Begun(x).search = x.search /\ Begun(x).events = FirstEvents
<1> DEFINE y == Begun(x)
<1>1. x \in SessionRecord /\ ~x.done
  BY DEF Sound
<1>2. FirstEvents \in Seq(EventSet) /\ Cached \subseteq Category
  BY FirstBuffer DEF Buffer, Cached
<1>3. /\ y \in SessionRecord /\ y.started /\ ~y.done /\ y.search = x.search
      /\ y.events = FirstEvents /\ y.settled = Cached
  BY <1>1, <1>2 DEF Begun, SessionRecord
<1> HIDE DEF y
<1>4. Complete \notin Range(FirstEvents) /\ Started \in Range(FirstEvents)
  BY FirstBuffer, EventsApart DEF Cached, SettledBy
<1>5. \A c \in Category :
         /\ c \in Cached <=> Range(FirstEvents) \cap SettledBy(c) # {}
         /\ \A e, f \in Range(FirstEvents) \cap SettledBy(c) : e = f
         /\ CatStart(c) \in Range(FirstEvents)
  BY FirstOutcome
<1>6. Sound(y)
  BY <1>3, <1>4, <1>5, FirstBuffer DEF Sound
<1>. QED
  BY <1>3, <1>6 DEF y

\* A session once a category has had its outcome e.
Settled(x, c, e) ==
    [[x EXCEPT !.settled = @ \cup {c}] EXCEPT !.events = Append(x.events, e)]

\* It is sound, and the outcome is news.
LEMMA SettledSound ==
    ASSUME NEW x, Sound(x), x.started, ~x.done, NEW c \in Category \ x.settled,
           NEW e \in SettledBy(c)
    PROVE  /\ Sound(Settled(x, c, e)) /\ Settled(x, c, e).search = x.search
           /\ Settled(x, c, e).started /\ ~Settled(x, c, e).done
           /\ Settled(x, c, e).events = Append(x.events, e)
           /\ e \in EventSet /\ e \notin Range(x.events) /\ e # Complete
<1> DEFINE y == Settled(x, c, e)
           t == Append(x.events, e)
<1>1. e \in EventSet /\ e \notin Range(x.events) /\ e # Complete
  BY EventsApart DEF Sound
<1>2. Buffer(t) /\ Range(t) = Range(x.events) \cup {e} /\ t # <<>> /\ t \in Seq(EventSet)
  BY <1>1, BufferGrows DEF Sound, Buffer
<1>3. /\ y \in SessionRecord /\ y.started /\ ~y.done /\ y.search = x.search
      /\ y.events = t /\ y.settled = x.settled \cup {c}
  BY <1>2 DEF Settled, SessionRecord, Sound
<1> HIDE DEF y, t
<1>4. \A d \in Category :
         /\ d \in y.settled <=> Range(t) \cap SettledBy(d) # {}
         /\ \A f, g \in Range(t) \cap SettledBy(d) : f = g
  <2> SUFFICES ASSUME NEW d \in Category
               PROVE  /\ d \in y.settled <=> Range(t) \cap SettledBy(d) # {}
                      /\ \A f, g \in Range(t) \cap SettledBy(d) : f = g
    OBVIOUS
  <2>1. CASE d = c
    <3>1. Range(x.events) \cap SettledBy(c) = {}
      BY DEF Sound
    <3>2. Range(t) \cap SettledBy(c) = {e}
      BY <3>1, <1>2
    <3>. QED
      BY <2>1, <3>2, <1>3
  <2>2. CASE d # c
    <3>1. e \notin SettledBy(d)
      BY <2>2, EventsApart
    <3>2. Range(t) \cap SettledBy(d) = Range(x.events) \cap SettledBy(d)
      BY <3>1, <1>2
    <3>. QED
      BY <2>2, <3>2, <1>3 DEF Sound
  <2>. QED
    BY <2>1, <2>2
<1>5. Started \in Range(t) /\ Complete \notin Range(t)
      /\ \A d \in Category : CatStart(d) \in Range(t)
  BY <1>1, <1>2 DEF Sound
<1>6. Sound(y)
  BY <1>2, <1>3, <1>4, <1>5 DEF Sound
<1>. QED
  BY <1>1, <1>3, <1>6 DEF y, t

\* A session once it is complete.
Finished(x) == [[x EXCEPT !.done = TRUE] EXCEPT !.events = Append(x.events, Complete)]

\* It is sound, and the terminal event is news.
LEMMA FinishedSound ==
    ASSUME NEW x, Sound(x), x.started, ~x.done, x.settled = Category
    PROVE  /\ Sound(Finished(x)) /\ Finished(x).search = x.search /\ Finished(x).done
           /\ Finished(x).events = Append(x.events, Complete)
           /\ Complete \notin Range(x.events)
<1> DEFINE y == Finished(x)
           t == Append(x.events, Complete)
<1>1. Complete \in EventSet /\ Complete \notin Range(x.events)
  BY EventsApart DEF Sound
<1>2. Buffer(t) /\ Range(t) = Range(x.events) \cup {Complete} /\ Last(t) = Complete
      /\ t \in Seq(EventSet)
  BY <1>1, BufferGrows DEF Sound, Buffer
<1>3. /\ y \in SessionRecord /\ y.started /\ y.done /\ y.search = x.search
      /\ y.events = t /\ y.settled = x.settled
  BY <1>2 DEF Finished, SessionRecord, Sound
<1> HIDE DEF y, t
<1>4. \A d \in Category : Range(t) \cap SettledBy(d) = Range(x.events) \cap SettledBy(d)
  BY <1>2, EventsApart
<1>5. \A d \in Category :
         /\ d \in y.settled <=> Range(t) \cap SettledBy(d) # {}
         /\ \A f, g \in Range(t) \cap SettledBy(d) : f = g
  BY <1>3, <1>4 DEF Sound
<1>6. Started \in Range(t) /\ Complete \in Range(t)
      /\ \A d \in Category : CatStart(d) \in Range(t)
  BY <1>2 DEF Sound
<1>7. Sound(y)
  BY <1>2, <1>3, <1>5, <1>6 DEF Sound
<1>. QED
  BY <1>1, <1>3, <1>7 DEF y, t

\* A sound session's last event tells whether it is done.
LEMMA LastTells ==
    ASSUME NEW x, Sound(x), x.started
    PROVE  x.events # <<>> /\ (Last(x.events) = Complete <=> x.done)
<1>1. x.events \in Seq(EventSet) /\ Range(x.events) # {}
  BY DEF Sound, Buffer
<1>2. x.events # <<>>
  BY <1>1, EmptyBuffer
<1>3. Len(x.events) \in 1..Len(x.events) /\ DOMAIN x.events = 1..Len(x.events)
  BY <1>1, <1>2
<1>4. Last(x.events) \in Range(x.events)
  BY <1>3 DEF Last, Range
<1>. QED
  BY <1>2, <1>4 DEF Sound

\* A pump that has sent nothing yet sends all; one that has sent everything but
\* the newest event sends that one.
LEMMA PumpAll ==
    ASSUME NEW k \in StreamRecord, k.got = <<>>, NEW s, Buffer(s), s # <<>>
    PROVE  Pump(k, s) = IF Last(s) = Complete THEN Away ELSE [k EXCEPT !.got = s]
<1>1. s \in Seq(EventSet)
  BY DEF Buffer
<1>2. SubSeq(s, 1, Len(s)) = s
  BY <1>1, SubSeqFull
<1>3. Len(<<>>) + 1 = 1 /\ <<>> \o s = s
  BY <1>1, ConcatEmptySeq
<1>. QED
  BY <1>2, <1>3 DEF Pump

LEMMA PumpNext ==
    ASSUME NEW k \in StreamRecord, Buffer(k.got), NEW e \in EventSet
    PROVE  Pump(k, Append(k.got, e))
             = IF e = Complete THEN Away ELSE [k EXCEPT !.got = Append(k.got, e)]
<1> DEFINE s == k.got
           t == Append(s, e)
           n == Len(s)
<1>1. s \in Seq(EventSet) /\ n \in Nat
  BY DEF Buffer
<1>2. /\ t \in Seq(EventSet) /\ Len(t) = n + 1 /\ t[n + 1] = e /\ t # <<>>
      /\ t = s \o <<e>>
  BY <1>1, AppendProperties, AppendIsConcat
<1> HIDE DEF s, t, n
<1>3. SubSeq(t, n + 1, n + 1) = <<e>>
  <2>1. \A i \in (n + 1)..(n + 1) : t[i] \in EventSet
    BY <1>1, <1>2
  <2>2. SubSeq(t, n + 1, n + 1) \in Seq(EventSet) /\ Len(SubSeq(t, n + 1, n + 1)) = 1
        /\ SubSeq(t, n + 1, n + 1)[1] = e
    <3>1. n + 1 \in Int /\ n + 1 <= n + 1 /\ (n + 1) - (n + 1) + 1 = 1 /\ (n + 1) + 1 - 1 = n + 1
      BY <1>1
    <3>2. /\ SubSeq(t, n + 1, n + 1) \in Seq(EventSet)
          /\ Len(SubSeq(t, n + 1, n + 1))
                = IF n + 1 <= n + 1 THEN (n + 1) - (n + 1) + 1 ELSE 0
          /\ \A i \in 1..(n + 1) - (n + 1) + 1 :
                SubSeq(t, n + 1, n + 1)[i] = t[(n + 1) + i - 1]
      BY <2>1, <3>1, SubSeqProperties
    <3>3. 1 \in 1..(n + 1) - (n + 1) + 1
      BY <3>1
    <3>. QED
      BY <1>2, <3>1, <3>2, <3>3
  <2>3. <<e>> \in Seq(EventSet) /\ Len(<<e>>) = 1 /\ <<e>>[1] = e
    OBVIOUS
  <2>4. \A i \in 1..1 : SubSeq(t, n + 1, n + 1)[i] = <<e>>[i]
    BY <2>2, <2>3
  <2>. QED
    BY <2>2, <2>3, <2>4, SeqEqual
<1>4. k.got \o SubSeq(t, Len(k.got) + 1, Len(t)) = t
  BY <1>2, <1>3 DEF n, s
<1>5. Last(t) = e
  BY <1>2 DEF Last
<1>. QED
  BY <1>2, <1>4, <1>5 DEF Pump, t, s

-----------------------------------------------------------------------------
(* Steps                                                                   *)

\* The session objects of before are there, under the ids they had.
Kept(ss) == Len(session) <= Len(ss) /\ \A o \in 1..Len(session) : ss[o].search = session[o].search

\* ss with session s at its end.
LEMMA OneMore ==
    ASSUME SessionInv, Len(session) < MaxObjects, NEW s \in SearchId
    PROVE  LET ss == Append(session, NewSession(s)) IN
           /\ AllSound(ss) /\ Len(ss) = Len(session) + 1 /\ Kept(ss)
           /\ \A o \in 1..Len(session) : ss[o] = session[o]
           /\ ss[Len(session) + 1] = NewSession(s)
           /\ \A k \in Client : Follows(client[k], ss)
<1> DEFINE ss == Append(session, NewSession(s))
           n == Len(session)
<1>1. session \in Seq(SessionRecord) /\ n \in Nat /\ NewSession(s) \in SessionRecord
  BY NewSound DEF SessionInv, AllSound, Sound
<1>2. /\ ss \in Seq(SessionRecord) /\ Len(ss) = n + 1
      /\ \A o \in 1..n : ss[o] = session[o]
      /\ ss[n + 1] = NewSession(s)
  BY <1>1, AppendProperties
<1> HIDE DEF ss, n
<1>3. \A o \in 1..(n + 1) : o \in 1..n \/ o = n + 1
  BY <1>1
<1>4. \A o \in 1..Len(ss) : Sound(ss[o])
  BY <1>2, <1>3, NewSound DEF SessionInv, AllSound, n
<1>5. \A k \in Client : Follows(client[k], ss)
  <2> SUFFICES ASSUME NEW k \in Client, client[k].state = "open" PROVE Follows(client[k], ss)
    BY DEF Follows
  <2>1. Follows(client[k], session) /\ client[k].active \in 1..n
    BY DEF SessionInv, Follows, n
  <2>2. client[k].active \in 1..Len(ss) /\ ss[client[k].active] = session[client[k].active]
    BY <2>1, <1>1, <1>2
  <2>. QED
    BY <2>1, <2>2 DEF Follows
<1>6. Kept(ss)
  BY <1>1, <1>2 DEF Kept, n
<1>. QED
  BY <1>2, <1>4, <1>5, <1>6 DEF AllSound, ss, n

\* One session object gets another sound value under its id.
LEMMA OneChanged ==
    ASSUME NEW ss, AllSound(ss), NEW o \in 1..Len(ss), NEW y, Sound(y), y.search = ss[o].search
    PROVE  LET tt == [ss EXCEPT ![o] = y] IN
           /\ AllSound(tt) /\ Len(tt) = Len(ss) /\ tt[o] = y
           /\ \A p \in 1..Len(ss) : p # o => tt[p] = ss[p]
           /\ \A p \in 1..Len(ss) : tt[p].search = ss[p].search
<1> DEFINE tt == [ss EXCEPT ![o] = y]
<1>1. ss \in Seq(SessionRecord) /\ y \in SessionRecord
  BY DEF AllSound, Sound
<1>2. /\ tt \in Seq(SessionRecord) /\ Len(tt) = Len(ss)
      /\ \A p \in 1..Len(ss) : tt[p] = IF p = o THEN y ELSE ss[p]
  BY <1>1, ExceptSeq
<1> HIDE DEF tt
<1>3. \A p \in 1..Len(tt) : Sound(tt[p])
  BY <1>2 DEF AllSound
<1>. QED
  BY <1>2, <1>3 DEF AllSound, tt

\* A stream's attachment keeps sessions and streams sound.
LEMMA AttachSound ==
    ASSUME NEW ss, AllSound(ss), NEW o \in 1..Len(ss), NEW k \in Client,
           client \in [Client -> StreamRecord], \A j \in Client : Follows(client[j], ss),
           Attach(k, o, ss)
    PROVE  /\ AllSound(session') /\ Len(session') = Len(ss)
           /\ \A p \in 1..Len(ss) : session'[p].search = ss[p].search
           /\ client' \in [Client -> StreamRecord]
           /\ \A j \in Client : Follows(client'[j], session')
           /\ \A j \in Client : client'[j].state = "resolving" => client'[j] = client[j]
           /\ session' = ss \/ (~ss[o].started /\ session' = [ss EXCEPT ![o] = Begun(ss[o])])
<1> DEFINE x == ss[o]
           y == IF x.started THEN x ELSE Begun(x)
           new == [state |-> "open", search |-> x.search, active |-> o, got |-> <<>>]
<1>1. Sound(x) /\ x \in SessionRecord
  BY DEF AllSound, Sound
<1>2. Sound(y) /\ y.started /\ y.search = x.search /\ Buffer(y.events) /\ y.events \in Seq(EventSet)
  BY <1>1, BegunSound DEF Sound, Buffer
<1>3. session' = [ss EXCEPT ![o] = y] /\ client' = [client EXCEPT ![k] = Pump(new, y.events)]
  BY DEF Attach, Begun
<1>a. x.started => y = x
  OBVIOUS
<1>b. ~x.started => y = Begun(x)
  OBVIOUS
<1> HIDE DEF y
<1>4. /\ AllSound(session') /\ Len(session') = Len(ss) /\ session'[o] = y
      /\ \A p \in 1..Len(ss) : p # o => session'[p] = ss[p]
      /\ \A p \in 1..Len(ss) : session'[p].search = ss[p].search
  <2> DEFINE tt == [ss EXCEPT ![o] = y]
  <2>1. y.search = ss[o].search
    BY <1>2
  <2>2. /\ AllSound(tt) /\ Len(tt) = Len(ss) /\ tt[o] = y
        /\ \A p \in 1..Len(ss) : p # o => tt[p] = ss[p]
        /\ \A p \in 1..Len(ss) : tt[p].search = ss[p].search
    BY <1>2, <2>1, OneChanged
  <2>. QED
    BY <1>3, <2>2
<1>5. new \in StreamRecord /\ new.got = <<>>
  <2>1. x.search \in SearchId /\ o \in Nat
    BY <1>1 DEF SessionRecord
  <2>. QED
    BY <2>1 DEF StreamRecord
<1>6. Away \in StreamRecord /\ Away.state = "away"
  BY DEF Away, Idle, StreamRecord
<1>7. y.events # <<>> /\ (Last(y.events) = Complete <=> y.done)
  BY <1>2, LastTells
<1>8. Pump(new, y.events) = IF y.done THEN Away ELSE [new EXCEPT !.got = y.events]
  BY <1>2, <1>5, <1>7, PumpAll
<1>9. client'[k] = Pump(new, y.events) /\ \A j \in Client \ {k} : client'[j] = client[j]
  BY <1>3
<1>10. Pump(new, y.events) \in StreamRecord /\ Pump(new, y.events).state # "resolving"
  <2>1. CASE y.done
    BY <2>1, <1>6, <1>8
  <2>2. CASE ~y.done
    <3>1. Pump(new, y.events) = [new EXCEPT !.got = y.events]
      BY <2>2, <1>8
    <3>2. [new EXCEPT !.got = y.events] \in StreamRecord
      BY <1>2, <1>5 DEF StreamRecord
    <3>. QED
      BY <3>1, <3>2
  <2>. QED
    BY <2>1, <2>2
<1>11. Follows(Pump(new, y.events), session')
  BY <1>4, <1>6, <1>8, <1>2 DEF Follows
<1>12. ASSUME NEW j \in Client \ {k} PROVE Follows(client'[j], session')
  <2> SUFFICES ASSUME client[j].state = "open" PROVE Follows(client[j], session')
    BY <1>9 DEF Follows
  <2>1. Follows(client[j], ss)
    OBVIOUS
  <2>2. client[j].active = o => y = x
    BY <2>1, <1>a DEF Follows
  <2>. QED
    BY <2>1, <2>2, <1>4 DEF Follows
<1>13. session' = ss \/ (~ss[o].started /\ session' = [ss EXCEPT ![o] = Begun(ss[o])])
  <2>1. ss \in Seq(SessionRecord)
    BY DEF AllSound
  <2>2. [ss EXCEPT ![o] = ss[o]] = ss
    BY <2>1
  <2>. QED
    BY <1>3, <1>a, <1>b, <2>2
<1>14. client' \in [Client -> StreamRecord]
  BY <1>3, <1>10
<1>. QED
  BY <1>4, <1>9, <1>10, <1>11, <1>12, <1>13, <1>14

\* Event e is emitted on session object o, which becomes y.
Emits(o, e, y) ==
    /\ session' = [session EXCEPT ![o] = y]
    /\ client' = [k \in Client |->
          IF client[k].state = "open" /\ client[k].active = o
          THEN Pump(client[k], Append(session[o].events, e)) ELSE client[k]]

\* It reaches every stream that follows the session.
LEMMA EmitSound ==
    ASSUME SessionInv, NEW o \in 1..Len(session), NEW e \in EventSet, NEW y, Sound(y),
           y.search = session[o].search, y.started, y.done <=> e = Complete,
           y.events = Append(session[o].events, e),
           Emits(o, e, y)
    PROVE  /\ AllSound(session') /\ Len(session') = Len(session) /\ Kept(session')
           /\ client' \in [Client -> StreamRecord]
           /\ \A k \in Client : Follows(client'[k], session')
           /\ \A k \in Client : client'[k].state = "resolving" => client'[k] = client[k]
<1> DEFINE events == Append(session[o].events, e)
<1>1. session' = [session EXCEPT ![o] = y]
  BY DEF Emits
<1>2. AllSound(session)
  BY DEF SessionInv
<1>3. /\ AllSound(session') /\ Len(session') = Len(session) /\ session'[o] = y
      /\ \A p \in 1..Len(session) : p # o => session'[p] = session[p]
      /\ \A p \in 1..Len(session) : session'[p].search = session[p].search
  <2> DEFINE tt == [session EXCEPT ![o] = y]
  <2>1. y.search = session[o].search
    BY <1>2
  <2>2. /\ AllSound(tt) /\ Len(tt) = Len(session) /\ tt[o] = y
        /\ \A p \in 1..Len(session) : p # o => tt[p] = session[p]
        /\ \A p \in 1..Len(session) : tt[p].search = session[p].search
    BY <1>2, <2>1, OneChanged
  <2>. QED
    BY <1>1, <2>2
<1>4. Kept(session')
  <2>1. Len(session) \in Nat
    BY <1>2 DEF AllSound
  <2>. QED
    BY <1>3, <2>1 DEF Kept
<1>5. Buffer(session[o].events) /\ events \in Seq(EventSet)
  BY <1>2 DEF AllSound, Sound, Buffer
<1>6. Away \in StreamRecord /\ Away.state = "away"
  BY DEF Away, Idle, StreamRecord
<1>7. \A k \in Client : client[k] \in StreamRecord /\ Follows(client[k], session)
  BY DEF SessionInv
<1>8. client' = [k \in Client |->
          IF client[k].state = "open" /\ client[k].active = o
          THEN Pump(client[k], events) ELSE client[k]]
  BY DEF Emits
<1>9. ASSUME NEW k \in Client
      PROVE  /\ client'[k] \in StreamRecord /\ Follows(client'[k], session')
             /\ client'[k].state = "resolving" => client'[k] = client[k]
  <2>1. CASE client[k].state = "open" /\ client[k].active = o
    <3>1. client[k].got = session[o].events
      BY <1>7, <2>1 DEF Follows
    <3>2. Pump(client[k], events) = IF e = Complete THEN Away
                                    ELSE [client[k] EXCEPT !.got = events]
      <4>1. client[k] \in StreamRecord /\ Buffer(client[k].got)
        BY <1>5, <1>7, <3>1
      <4>2. Pump(client[k], Append(client[k].got, e))
              = IF e = Complete THEN Away ELSE [client[k] EXCEPT !.got = Append(client[k].got, e)]
        BY <4>1, PumpNext
      <4>. QED
        BY <3>1, <4>2
    <3>3. client'[k] = Pump(client[k], events)
      BY <1>8, <2>1
    <3>4. CASE e = Complete
      BY <3>2, <3>3, <3>4, <1>6 DEF Follows
    <3>5. CASE e # Complete
      <4>1. client'[k] = [client[k] EXCEPT !.got = events]
        BY <3>2, <3>3, <3>5
      <4>2. client'[k] \in StreamRecord /\ client'[k].state = "open" /\ client'[k].active = o
            /\ client'[k].got = events
        BY <4>1, <1>5, <1>7, <2>1 DEF StreamRecord
      <4>3. y.started /\ ~y.done /\ y.events = events
        BY <3>5
      <4>. QED
        BY <4>2, <4>3, <1>3 DEF Follows
    <3>. QED
      BY <3>4, <3>5
  <2>2. CASE ~(client[k].state = "open" /\ client[k].active = o)
    <3>1. client'[k] = client[k]
      BY <1>8, <2>2
    <3>. QED
      BY <3>1, <1>3, <1>7, <2>2 DEF Follows
  <2>. QED
    BY <2>1, <2>2
<1>. QED
  BY <1>1, <1>3, <1>4, <1>8, <1>9

\* What keeps the invariant, once sessions and streams are known to be sound.
LEMMA InvKept ==
    ASSUME SessionInv, AllSound(session'), Len(session') <= MaxObjects, Kept(session'),
           client' \in [Client -> StreamRecord],
           \A k \in Client : Follows(client'[k], session'),
           posted \subseteq posted', posted' \subseteq SearchId,
           \A o \in 1..Len(session') : o > Len(session) => session'[o].search \in posted',
           \A k \in Client : client'[k].state = "resolving" => client'[k].search \in posted',
           registry' \in [SearchId -> Nat \cup {None}],
           \A s \in SearchId : registry'[s] \in {registry[s], None}
                 \/ (registry'[s] \in 1..Len(session') /\ session'[registry'[s]].search = s),
           expired' \subseteq expired \cup 1..Len(session),
           cache' \in [Category -> {"none", "live", "degraded"}]
    PROVE  SessionInv'
<1>1. Len(session) \in Nat /\ Len(session') \in Nat /\ Len(session) <= Len(session')
  BY DEF SessionInv, AllSound, Kept
<1>2. \A o \in 1..Len(session) : o \in 1..Len(session')
                                /\ session'[o].search = session[o].search
  BY <1>1 DEF Kept
<1>3. expired' \subseteq 1..Len(session')
  BY <1>2 DEF SessionInv
<1>4. \A s \in SearchId : Registered(s)'
  BY <1>2 DEF SessionInv, Registered
<1>5. \A o \in 1..Len(session') : session'[o].search \in posted'
  <2> SUFFICES ASSUME NEW o \in 1..Len(session') PROVE session'[o].search \in posted'
    OBVIOUS
  <2>1. CASE o > Len(session)
    BY <2>1
  <2>2. CASE o \in 1..Len(session)
    BY <2>2, <1>2 DEF SessionInv
  <2>. QED
    BY <2>1, <2>2, <1>1
<1>. QED
  BY <1>3, <1>4, <1>5 DEF SessionInv

\* Where the session objects stand, their number and their streams do.
LEMMA SessionsStand ==
    ASSUME SessionInv, session' = session
    PROVE  /\ AllSound(session') /\ Len(session') <= MaxObjects /\ Kept(session')
           /\ \A o \in 1..Len(session') : ~(o > Len(session))
           /\ Len(session) \in Nat /\ DOMAIN session = 1..Len(session)
  BY SessionAssumption DEF SessionInv, AllSound, Kept

\* POST, and what drops a registry entry.
LEMMA PostsKeepInv ==
    ASSUME SessionInv, NEW s \in SearchId, PostSearch(s) \/ PostElsewhere(s) \/ EvictOldest(s)
    PROVE  SessionInv'
<1>1. CASE PostSearch(s)
  <2> DEFINE n == Len(session)
  <2>1. /\ n < MaxObjects /\ posted' = posted \cup {s}
        /\ session' = Append(session, NewSession(s)) /\ registry' = registerSession(s, n + 1)
        /\ expired' = expired /\ cache' = cache /\ client' = client
    BY <1>1 DEF PostSearch
  <2>2. /\ AllSound(session') /\ Len(session') = n + 1 /\ Kept(session')
        /\ session'[n + 1] = NewSession(s)
        /\ \A k \in Client : Follows(client[k], session')
    BY <2>1, OneMore
  <2>3. n \in Nat
    BY DEF SessionInv, AllSound
  <2>4. /\ Len(session') <= MaxObjects
        /\ \A o \in 1..Len(session') : o > n => session'[o].search = s
        /\ n + 1 \in 1..Len(session') /\ session'[n + 1].search = s
    <3>1. \A o \in 1..(n + 1) : o > n => o = n + 1
      BY <2>3
    <3>. QED
      BY <2>1, <2>2, <2>3, <3>1, SessionAssumption, NewSound
  <2>5. /\ registry' \in [SearchId -> Nat \cup {None}]
        /\ \A t \in SearchId : registry'[t] \in {registry[t], None}
              \/ (registry'[t] \in 1..Len(session') /\ session'[registry'[t]].search = t)
    BY <2>1, <2>3, <2>4 DEF registerSession, SessionInv
  <2>6. posted \subseteq posted' /\ posted' \subseteq SearchId /\ s \in posted'
    BY <2>1 DEF SessionInv
  <2>. QED
    BY <2>1, <2>2, <2>4, <2>5, <2>6, InvKept DEF SessionInv
<1>2. CASE PostElsewhere(s)
  <2>1. posted' = posted \cup {s} /\ UNCHANGED <<session, registry, expired, cache, client>>
    BY <1>2 DEF PostElsewhere
  <2>. QED
    BY <2>1, SessionsStand, InvKept DEF SessionInv
<1>3. CASE EvictOldest(s)
  <2>1. registry' = [registry EXCEPT ![s] = None] /\ UNCHANGED <<session, posted, expired, cache, client>>
    BY <1>3 DEF EvictOldest
  <2>. QED
    BY <2>1, SessionsStand, InvKept DEF SessionInv
<1>. QED
  BY <1>1, <1>2, <1>3

\* What a search does.
LEMMA SearchKeepsInv ==
    ASSUME SessionInv, NEW o \in DOMAIN session, Expire(o) \/ SearchStep(o)
    PROVE  SessionInv'
<1>1. o \in 1..Len(session) /\ Sound(session[o]) /\ Len(session) \in Nat
  BY DEF SessionInv, AllSound
<1>2. CASE Expire(o)
  <2>1. expired' = expired \cup {o} /\ UNCHANGED <<session, registry, posted, cache, client>>
    BY <1>2 DEF Expire
  <2>. QED
    BY <2>1, <1>1, SessionsStand, InvKept DEF SessionInv
<1>3. ASSUME NEW e \in EventSet, NEW y, Sound(y), y.search = session[o].search, y.started,
             y.done <=> e = Complete, y.events = Append(session[o].events, e), Emits(o, e, y),
             UNCHANGED <<registry, posted, expired>>,
             cache' \in [Category -> {"none", "live", "degraded"}]
      PROVE  SessionInv'
  <2>1. /\ AllSound(session') /\ Len(session') = Len(session) /\ Kept(session')
        /\ client' \in [Client -> StreamRecord]
        /\ \A k \in Client : Follows(client'[k], session')
        /\ \A k \in Client : client'[k].state = "resolving" => client'[k] = client[k]
    BY <1>1, <1>3, EmitSound
  <2>2. Len(session') <= MaxObjects /\ \A p \in 1..Len(session') : ~(p > Len(session))
    BY <2>1, <1>1 DEF SessionInv
  <2>. QED
    BY <1>3, <2>1, <2>2, InvKept DEF SessionInv
<1>4. ASSUME NEW c \in Category, NEW e \in SettledBy(c), Running(o, c),
             Emit(o, e, SettleCategory(o, c)),
             UNCHANGED <<registry, posted, expired>>,
             cache' \in [Category -> {"none", "live", "degraded"}]
      PROVE  SessionInv'
  <2> DEFINE y == Settled(session[o], c, e)
  <2>1. /\ Sound(y) /\ y.search = session[o].search /\ y.started /\ ~y.done
        /\ y.events = Append(session[o].events, e)
        /\ e \in EventSet /\ e # Complete
    BY <1>1, <1>4, SettledSound DEF Running
  <2>2. Emits(o, e, y)
    BY <1>4 DEF Emit, Emits, Settled, SettleCategory
  <2> HIDE DEF y
  <2>. QED
    BY <1>3, <1>4, <2>1, <2>2
<1>5. CASE \E c \in Category : AdapterThrows(o, c)
  <2>1. PICK c \in Category : AdapterThrows(o, c)
    BY <1>5
  <2>. QED
    BY <2>1, <1>4 DEF AdapterThrows, SettledBy, SessionInv
<1>6. CASE \E c \in Category, how \in {"live", "degraded"} : AdapterReturns(o, c, how)
  <2>1. PICK c \in Category, how \in {"live", "degraded"} : AdapterReturns(o, c, how)
    BY <1>6
  <2>2. cache' \in [Category -> {"none", "live", "degraded"}]
    BY <2>1 DEF AdapterReturns, SessionInv
  <2>3. \E e \in SettledBy(c) : Emit(o, e, SettleCategory(o, c))
    BY <2>1 DEF AdapterReturns, SettledBy
  <2>. QED
    BY <2>1, <2>2, <2>3, <1>4 DEF AdapterReturns
<1>7. CASE CompleteSearch(o)
  <2> DEFINE y == Finished(session[o])
  <2>1. session[o].started /\ ~session[o].done /\ session[o].settled = Category
    BY <1>7 DEF CompleteSearch
  <2>2. /\ Sound(y) /\ y.search = session[o].search /\ y.done
        /\ y.events = Append(session[o].events, Complete)
    BY <1>1, <2>1, FinishedSound
  <2>3. y.started /\ Complete \in EventSet
    BY <2>2, EventsApart DEF Sound
  <2>4. Emits(o, Complete, y)
    BY <1>7 DEF CompleteSearch, Emit, Emits, Finished
  <2>5. UNCHANGED <<registry, posted, expired, cache>>
    BY <1>7 DEF CompleteSearch
  <2>6. cache' \in [Category -> {"none", "live", "degraded"}]
    BY <2>5 DEF SessionInv
  <2> HIDE DEF y
  <2>. QED
    BY <1>3, <2>2, <2>3, <2>4, <2>5, <2>6
<1>. QED
  BY <1>2, <1>5, <1>6, <1>7 DEF SearchStep

\* What a stream does.
LEMMA StreamsKeepInv ==
    ASSUME SessionInv, NEW k \in Client,
           \/ \E s \in SearchId : GetMissing(k, s) \/ \E o \in DOMAIN session : GetFound(k, s, o)
           \/ Rebuild(k) \/ RebuildFails(k) \/ CloseStream(k)
    PROVE  SessionInv'
<1>1. Len(session) \in Nat /\ DOMAIN session = 1..Len(session)
  BY DEF SessionInv, AllSound
<1>2. Away \in StreamRecord /\ Away.state = "away"
  BY DEF Away, Idle, StreamRecord
<1>3. CASE \E s \in SearchId : GetMissing(k, s)
  <2>1. PICK s \in SearchId : GetMissing(k, s)
    BY <1>3
  <2> DEFINE new == [Idle("resolving") EXCEPT !.search = s]
  <2>2. /\ s \in posted /\ registry' = [registry EXCEPT ![s] = None]
        /\ client' = [client EXCEPT ![k] = new]
        /\ UNCHANGED <<session, posted, expired, cache>>
    BY <2>1 DEF GetMissing
  <2>10. new = [state |-> "resolving", search |-> s, active |-> None, got |-> <<>>]
    BY DEF Idle
  <2>11. <<>> \in Seq(EventSet)
    OBVIOUS
  <2>3. new \in StreamRecord /\ new.state = "resolving" /\ new.search = s
    BY <2>10, <2>11 DEF StreamRecord
  <2> HIDE DEF new
  <2>4. /\ client' \in [Client -> StreamRecord]
        /\ \A j \in Client : Follows(client'[j], session')
        /\ \A j \in Client : client'[j].state = "resolving" => client'[j].search \in posted'
    BY <2>2, <2>3 DEF SessionInv, Follows
  <2>. QED
    BY <2>2, <2>4, SessionsStand, InvKept DEF SessionInv
<1>4. CASE \E s \in SearchId, o \in DOMAIN session : GetFound(k, s, o)
  <2>1. PICK s \in SearchId, o \in DOMAIN session : GetFound(k, s, o)
    BY <1>4
  <2>2. Attach(k, o, session) /\ UNCHANGED <<registry, posted, expired, cache>>
    BY <2>1 DEF GetFound
  <2>3. /\ AllSound(session') /\ Len(session') = Len(session)
        /\ \A p \in 1..Len(session) : session'[p].search = session[p].search
        /\ client' \in [Client -> StreamRecord]
        /\ \A j \in Client : Follows(client'[j], session')
        /\ \A j \in Client : client'[j].state = "resolving" => client'[j] = client[j]
    BY <1>1, <2>2, AttachSound DEF SessionInv
  <2>4. /\ Kept(session') /\ Len(session') <= MaxObjects
        /\ \A p \in 1..Len(session') : ~(p > Len(session))
    BY <1>1, <2>3 DEF Kept, SessionInv
  <2>. QED
    BY <2>2, <2>3, <2>4, InvKept DEF SessionInv
<1>5. CASE Rebuild(k)
  <2> DEFINE n == Len(session)
             s == client[k].search
             ss == Append(session, NewSession(s))
  <2>1. /\ client[k].state = "resolving" /\ n < MaxObjects
        /\ registry' = registerSession(s, n + 1) /\ Attach(k, n + 1, ss)
        /\ UNCHANGED <<posted, expired, cache>>
    BY <1>5 DEF Rebuild
  <2>2. s \in posted /\ s \in SearchId
    BY <2>1 DEF SessionInv
  <2>3. /\ AllSound(ss) /\ Len(ss) = n + 1 /\ Kept(ss) /\ ss[n + 1] = NewSession(s)
        /\ \A j \in Client : Follows(client[j], ss)
    BY <2>1, <2>2, OneMore
  <2> HIDE DEF ss, s
  <2>4. n + 1 \in 1..Len(ss) /\ n \in Nat
    BY <1>1, <2>3
  <2>5. /\ AllSound(session') /\ Len(session') = Len(ss)
        /\ \A p \in 1..Len(ss) : session'[p].search = ss[p].search
        /\ client' \in [Client -> StreamRecord]
        /\ \A j \in Client : Follows(client'[j], session')
        /\ \A j \in Client : client'[j].state = "resolving" => client'[j] = client[j]
    BY <2>1, <2>3, <2>4, AttachSound DEF SessionInv
  <2>6. ss[n + 1].search = s
    BY <2>2, <2>3, NewSound
  <2>7. /\ Kept(session') /\ Len(session') <= MaxObjects
        /\ \A p \in 1..Len(session') : p > n => session'[p].search = s
        /\ n + 1 \in 1..Len(session') /\ session'[n + 1].search = s
    <3>1. \A p \in 1..n : p \in 1..Len(ss)
      BY <2>3, <2>4
    <3>2. \A p \in 1..(n + 1) : p > n => p = n + 1
      BY <2>4
    <3>. QED
      BY <2>1, <2>3, <2>4, <2>5, <2>6, <3>1, <3>2, SessionAssumption DEF Kept
  <2>8. /\ registry' \in [SearchId -> Nat \cup {None}]
        /\ \A t \in SearchId : registry'[t] \in {registry[t], None}
              \/ (registry'[t] \in 1..Len(session') /\ session'[registry'[t]].search = t)
    BY <2>1, <2>4, <2>7 DEF registerSession, SessionInv
  <2>. QED
    BY <2>1, <2>2, <2>5, <2>7, <2>8, InvKept DEF SessionInv
<1>6. CASE RebuildFails(k) \/ CloseStream(k)
  <2>1. client' = [client EXCEPT ![k] = Away] /\ UNCHANGED <<session, registry, posted, expired, cache>>
    BY <1>6 DEF RebuildFails, CloseStream
  <2>2. /\ client' \in [Client -> StreamRecord]
        /\ \A j \in Client : Follows(client'[j], session')
        /\ \A j \in Client : client'[j].state = "resolving" => client'[j].search \in posted'
    BY <2>1, <1>2 DEF SessionInv, Follows
  <2>. QED
    BY <2>1, <2>2, SessionsStand, InvKept DEF SessionInv
<1>. QED
  BY <1>3, <1>4, <1>5, <1>6

\* Every step keeps the invariant.
LEMMA SessionStepInv ==
    ASSUME SessionInv, [SessionNext]_sessionVars
    PROVE  SessionInv'
<1>1. ASSUME NEW s \in SearchId, PostSearch(s) \/ PostElsewhere(s) \/ EvictOldest(s)
      PROVE  SessionInv'
  BY <1>1, PostsKeepInv
<1>2. ASSUME NEW o \in DOMAIN session, Expire(o) \/ SearchStep(o)
      PROVE  SessionInv'
  BY <1>2, SearchKeepsInv
<1>3. ASSUME NEW k \in Client,
             \/ \E s \in SearchId : GetMissing(k, s) \/ \E o \in DOMAIN session : GetFound(k, s, o)
             \/ Rebuild(k) \/ RebuildFails(k) \/ CloseStream(k)
      PROVE  SessionInv'
  BY <1>3, StreamsKeepInv
<1>4. ASSUME NEW c \in Category, CacheDrop(c)
      PROVE  SessionInv'
  <2>1. cache' = [cache EXCEPT ![c] = "none"] /\ UNCHANGED <<session, registry, posted, expired, client>>
    BY <1>4 DEF CacheDrop
  <2>. QED
    BY <2>1, SessionsStand, InvKept DEF SessionInv
<1>5. CASE UNCHANGED sessionVars
  BY <1>5, SessionsStand, InvKept DEF SessionInv, sessionVars
<1>. QED
  BY <1>1, <1>2, <1>3, <1>4, <1>5 DEF SessionNext

LEMMA SessionInitInv == SessionInit => SessionInv
<1> SUFFICES ASSUME SessionInit PROVE SessionInv
  OBVIOUS
<1>1. session = <<>> /\ session \in Seq(SessionRecord) /\ Len(session) = 0 /\ 0 <= MaxObjects
  BY SessionAssumption DEF SessionInit
<1>2. Away \in StreamRecord /\ Away.state = "away"
  BY DEF Away, Idle, StreamRecord
<1>3. client \in [Client -> StreamRecord] /\ \A k \in Client : client[k].state = "away"
  BY <1>2 DEF SessionInit
<1>4. registry \in [SearchId -> Nat \cup {None}] /\ \A s \in SearchId : registry[s] = None
  BY DEF SessionInit
<1>5. posted = {} /\ expired = {} /\ cache \in [Category -> {"none", "live", "degraded"}]
  BY DEF SessionInit
<1>. QED
  BY <1>1, <1>3, <1>4, <1>5 DEF SessionInv, AllSound, Registered, Follows

LEMMA SessionsSound == SessionSpec => []SessionInv
  BY SessionInitInv, SessionStepInv, PTL DEF SessionSpec

\* Sessions, registry, cache and streams keep their types, and a registry entry
\* is a session of its id.
THEOREM SessionTypeCorrect == SessionSpec => []SessionTypeOK
<1>1. SessionInv => SessionTypeOK
  <2> SUFFICES ASSUME SessionInv PROVE SessionTypeOK
    OBVIOUS
  <2>1. DOMAIN session = 1..Len(session) /\ \A o \in 1..Len(session) : session[o] \in SessionRecord
    BY DEF SessionInv, AllSound, Sound
  <2>2. \A o \in 1..Len(session) : session[o].settled \subseteq Category
            /\ {session[o].started, session[o].done} \subseteq BOOLEAN
    BY <2>1 DEF SessionRecord
  <2>3. \A k \in Client : client[k].state \in {"away", "resolving", "open"}
    BY DEF SessionInv, StreamRecord
  <2>. QED
    BY <2>1, <2>2, <2>3 DEF SessionInv, SessionTypeOK, Registered
<1>. QED
  BY <1>1, SessionsSound, PTL

\* An open stream has received its session's events, all, once and in order, and
\* is over when they are, for any number of streams, searches and objects.
THEOREM StreamsAreFaithful == SessionSpec => []StreamFaithful
<1>1. SessionInv => StreamFaithful
  BY DEF SessionInv, Follows, StreamFaithful
<1>. QED
  BY <1>1, SessionsSound, PTL

\* No event is in a buffer twice, no category has two outcomes, and the buffer
\* of a session that is done, and no other, has the terminal event.
THEOREM OutcomesAreSingle == SessionSpec => []OneOutcomeEach
<1>1. SessionInv => OneOutcomeEach
  <2> SUFFICES ASSUME SessionInv, NEW o \in DOMAIN session
               PROVE  /\ IsInjective(session[o].events)
                      /\ \A c \in Category : Cardinality(EventsOf(o) \cap SettledBy(c)) <= 1
                      /\ session[o].done <=> Complete \in EventsOf(o)
    BY DEF OneOutcomeEach
  <2>1. Sound(session[o]) /\ EventsOf(o) = Range(session[o].events)
    BY DEF SessionInv, AllSound, EventsOf
  <2>2. IsInjective(session[o].events)
    <3>1. Buffer(session[o].events) /\ session[o].events \in Seq(EventSet)
      BY <2>1 DEF Sound, Buffer
    <3>2. DOMAIN session[o].events = 1..Len(session[o].events)
      BY <3>1
    <3>. QED
      BY <3>1, <3>2 DEF Buffer, IsInjective
  <2>3. ASSUME NEW c \in Category
        PROVE  Cardinality(EventsOf(o) \cap SettledBy(c)) <= 1
    <3> DEFINE X == EventsOf(o) \cap SettledBy(c)
    <3>1. \A e, f \in X : e = f
      BY <2>1 DEF Sound
    <3> HIDE DEF X
    <3>2. X = {} \/ \E e : X = {e}
      BY <3>1
    <3>3. Cardinality(X) = 0 \/ Cardinality(X) = 1
      BY <3>2, FS_EmptySet, FS_Singleton
    <3>. QED
      BY <3>3 DEF X
  <2>. QED
    BY <2>1, <2>2, <2>3 DEF Sound
<1>. QED
  BY <1>1, SessionsSound, PTL

-----------------------------------------------------------------------------
(* Each session is a search feed                                           *)

\* The feed's variables, as the events of a session tell them.
PhaseOf(E) == IF Complete \in E THEN "complete" ELSE IF Started \in E THEN "running" ELSE "new"
StatusOf(E) == [c \in Category |-> IF E \cap SettledBy(c) # {} THEN "settled"
                                   ELSE IF CatStart(c) \in E THEN "loading" ELSE "pending"]
Phase  == [o \in Object |-> PhaseOf(EventsOf(o))]
Status == [o \in Object |-> StatusOf(EventsOf(o))]

\* What happens to the feed of o: it begins, category c settles, it is complete.
FeedBegins(o) == EventsOf(o) = {} /\ EventsOf(o)' = Range(FirstEvents)
FeedSettles(o, c) ==
    /\ Started \in EventsOf(o) /\ Complete \notin EventsOf(o)
    /\ CatStart(c) \in EventsOf(o) /\ EventsOf(o) \cap SettledBy(c) = {}
    /\ \E e \in SettledBy(c) : EventsOf(o)' = EventsOf(o) \cup {e}
FeedFinishes(o) ==
    /\ Started \in EventsOf(o) /\ Complete \notin EventsOf(o)
    /\ \A c \in Category : EventsOf(o) \cap SettledBy(c) # {}
    /\ EventsOf(o)' = EventsOf(o) \cup {Complete}
FeedMoves(o) == FeedBegins(o) \/ (\E c \in Category : FeedSettles(o, c)) \/ FeedFinishes(o)

\* At most the feed of one object moves.
FeedsMove ==
    \/ \A o \in Object : EventsOf(o)' = EventsOf(o)
    \/ \E o \in Object : FeedMoves(o) /\ \A p \in Object \ {o} : EventsOf(p)' = EventsOf(p)

\* They are the steps of SearchFeed.
LEMMA BeginsIsBegin ==
    ASSUME NEW o \in Object, FeedBegins(o), \A p \in Object \ {o} : EventsOf(p)' = EventsOf(p)
    PROVE  Feed!Begin(o)
<1> DEFINE new == StatusOf(Range(FirstEvents))
<1>1. PhaseOf({}) = "new" /\ PhaseOf(Range(FirstEvents)) = "running"
  <2>1. Complete \notin Range(FirstEvents) /\ Started \in Range(FirstEvents)
    BY FirstBuffer, EventsApart DEF Cached, SettledBy
  <2>. QED
    BY <2>1 DEF PhaseOf
<1>2. new \in [Category -> {"loading", "settled"}]
  BY FirstOutcome DEF StatusOf
<1>3. Phase[o] = "new" /\ Phase' = [Phase EXCEPT ![o] = "running"]
  BY <1>1 DEF FeedBegins, Phase
<1>4. Status' = [Status EXCEPT ![o] = new]
  BY DEF FeedBegins, Status
<1> HIDE DEF new
<1>. QED
  BY <1>2, <1>3, <1>4 DEF Feed!Begin, Phase, Status, PhaseOf, StatusOf

LEMMA SettlesIsSettle ==
    ASSUME NEW o \in Object, NEW c \in Category, FeedSettles(o, c),
           \A p \in Object \ {o} : EventsOf(p)' = EventsOf(p)
    PROVE  Feed!Settle(o, c)
<1> DEFINE E == EventsOf(o)
<1>1. PICK e \in SettledBy(c) : EventsOf(o)' = E \cup {e}
  BY DEF FeedSettles
<1>2. e # Started /\ e # Complete /\ \A d \in Category : e # CatStart(d) /\ (d # c => e \notin SettledBy(d))
  BY EventsApart
<1>3. PhaseOf(E) = "running" /\ PhaseOf(E \cup {e}) = "running"
  BY <1>2 DEF FeedSettles, PhaseOf
<1>4. StatusOf(E)[c] = "loading" /\ StatusOf(E \cup {e}) = [StatusOf(E) EXCEPT ![c] = "settled"]
  BY <1>2 DEF FeedSettles, StatusOf
<1>5. Phase[o] = "running" /\ Phase' = Phase
  BY <1>1, <1>3 DEF Phase
<1>6. Status[o][c] = "loading" /\ Status' = [Status EXCEPT ![o] = StatusOf(E \cup {e})]
  BY <1>1, <1>4 DEF Status
<1>7. Status' = [Status EXCEPT ![o][c] = "settled"]
  BY <1>4, <1>6 DEF Status
<1>. QED
  BY <1>5, <1>6, <1>7 DEF Feed!Settle, Phase, Status, PhaseOf, StatusOf

LEMMA FinishesIsFinish ==
    ASSUME NEW o \in Object, FeedFinishes(o), \A p \in Object \ {o} : EventsOf(p)' = EventsOf(p)
    PROVE  Feed!Finish(o)
<1> DEFINE E == EventsOf(o)
<1>1. EventsOf(o)' = E \cup {Complete}
  BY DEF FeedFinishes
<1>2. PhaseOf(E) = "running" /\ PhaseOf(E \cup {Complete}) = "complete"
  BY DEF FeedFinishes, PhaseOf
<1>3. \A c \in Category : Complete \notin SettledBy(c) /\ Complete # CatStart(c)
  BY EventsApart
<1>4. StatusOf(E \cup {Complete}) = StatusOf(E) /\ \A c \in Category : StatusOf(E)[c] = "settled"
  BY <1>3 DEF FeedFinishes, StatusOf
<1>5. Phase[o] = "running" /\ Phase' = [Phase EXCEPT ![o] = "complete"]
  BY <1>1, <1>2 DEF Phase
<1>6. Status' = Status /\ \A c \in Category : Status[o][c] = "settled"
  BY <1>1, <1>4 DEF Status
<1>. QED
  BY <1>5, <1>6 DEF Feed!Finish, Phase, Status, PhaseOf, StatusOf

\* So the feeds step as SearchFeed says.
LEMMA FeedsStep ==
    ASSUME FeedsMove
    PROVE  [Feed!FeedNext]_(Feed!feedVars)
<1>1. CASE \A o \in Object : EventsOf(o)' = EventsOf(o)
  <2>1. Phase' = Phase /\ Status' = Status
    BY <1>1 DEF Phase, Status
  <2>. QED
    BY <2>1 DEF Feed!feedVars, Phase, Status, PhaseOf, StatusOf
<1>2. CASE \E o \in Object : FeedMoves(o) /\ \A p \in Object \ {o} : EventsOf(p)' = EventsOf(p)
  <2>1. PICK o \in Object : FeedMoves(o) /\ \A p \in Object \ {o} : EventsOf(p)' = EventsOf(p)
    BY <1>2
  <2>2. Feed!Begin(o) \/ (\E c \in Category : Feed!Settle(o, c)) \/ Feed!Finish(o)
    BY <2>1, BeginsIsBegin, SettlesIsSettle, FinishesIsFinish DEF FeedMoves
  <2>. QED
    BY <2>2 DEF Feed!FeedNext
<1>. QED
  BY <1>1, <1>2 DEF FeedsMove

\* Session object o alone changes, or is the one that is new; o is y afterwards.
Becomes(o, y) ==
    /\ o \in 1..Len(session') /\ session'[o] = y
    /\ \A p \in Object \ {o} :
          /\ p \in 1..Len(session') <=> p \in 1..Len(session)
          /\ p \in 1..Len(session) => session'[p] = session[p]

\* The other objects' events stay.
LEMMA OthersStand ==
    ASSUME SessionInv, SessionInv', NEW o, NEW y, Becomes(o, y)
    PROVE  /\ o \in Object /\ EventsOf(o)' = Range(y.events)
           /\ \A p \in Object \ {o} : EventsOf(p)' = EventsOf(p)
<1>1. DOMAIN session = 1..Len(session) /\ DOMAIN session' = 1..Len(session')
  BY DEF SessionInv, AllSound
<1>2. o \in Object
  BY SessionAssumption DEF SessionInv, AllSound, Becomes, Object
<1>. QED
  BY <1>1, <1>2 DEF Becomes, EventsOf

\* An object that was not under way begins.
LEMMA BegunFeed ==
    ASSUME SessionInv, SessionInv', NEW o, NEW x, Becomes(o, Begun(x)), Sound(x), ~x.started,
           o \in 1..Len(session) => session[o] = x
    PROVE  FeedsMove
<1>1. /\ o \in Object /\ EventsOf(o)' = Range(FirstEvents)
      /\ \A p \in Object \ {o} : EventsOf(p)' = EventsOf(p)
  BY OthersStand, BegunSound
<1>2. EventsOf(o) = {}
  BY EmptyBuffer DEF SessionInv, AllSound, EventsOf, Sound
<1>. QED
  BY <1>1, <1>2 DEF FeedsMove, FeedMoves, FeedBegins

\* An object is built, and nothing starts.
LEMMA NewFeed ==
    ASSUME SessionInv, SessionInv', NEW o, o \notin 1..Len(session), NEW s \in SearchId,
           Becomes(o, NewSession(s))
    PROVE  FeedsMove
<1>1. /\ EventsOf(o)' = {} /\ \A p \in Object \ {o} : EventsOf(p)' = EventsOf(p)
  BY OthersStand, NewSound, EmptyBuffer
<1>2. EventsOf(o) = {}
  BY DEF SessionInv, AllSound, EventsOf
<1>. QED
  BY <1>1, <1>2 DEF FeedsMove

\* An object gets one more event.
LEMMA GrownFeed ==
    ASSUME SessionInv, SessionInv', NEW o \in DOMAIN session, NEW y, NEW e \in EventSet,
           y.events = Append(session[o].events, e), session' = [session EXCEPT ![o] = y]
    PROVE  /\ o \in Object /\ EventsOf(o) = Range(session[o].events)
           /\ EventsOf(o)' = EventsOf(o) \cup {e}
           /\ \A p \in Object \ {o} : EventsOf(p)' = EventsOf(p)
<1>1. /\ DOMAIN session = 1..Len(session) /\ DOMAIN session' = DOMAIN session
      /\ session[o].events \in Seq(EventSet) /\ Len(session') = Len(session)
  BY DEF SessionInv, AllSound, Sound, Buffer
<1>2. Becomes(o, y)
  BY <1>1 DEF Becomes
<1>3. Range(y.events) = Range(session[o].events) \cup {e}
  BY <1>1, AppendedRange
<1>. QED
  BY <1>1, <1>2, <1>3, OthersStand DEF EventsOf

\* Every step moves the feed of one object, or none.
LEMMA SessionStepFeeds ==
    ASSUME SessionInv, SessionInv', [SessionNext]_sessionVars
    PROVE  FeedsMove
<1>1. DOMAIN session = 1..Len(session) /\ Len(session) \in Nat /\ AllSound(session)
  BY DEF SessionInv, AllSound
<1>2. ASSUME session' = session PROVE FeedsMove
  BY <1>2 DEF FeedsMove, EventsOf
<1>3. ASSUME NEW s \in SearchId, PostSearch(s) PROVE FeedsMove
  <2>1. Len(session) < MaxObjects /\ session' = Append(session, NewSession(s))
    BY <1>3 DEF PostSearch
  <2>2. /\ Len(session') = Len(session) + 1 /\ session'[Len(session) + 1] = NewSession(s)
        /\ \A p \in 1..Len(session) : session'[p] = session[p]
    BY <2>1, OneMore
  <2>3. Becomes(Len(session) + 1, NewSession(s))
    BY <2>2, <1>1 DEF Becomes, Object
  <2>4. Len(session) + 1 \notin 1..Len(session)
    BY <1>1
  <2>. QED
    BY <2>3, <2>4, NewFeed
<1>4. ASSUME NEW o \in DOMAIN session, SearchStep(o) PROVE FeedsMove
  <2>1. Sound(session[o]) /\ EventsOf(o) = Range(session[o].events)
    BY <1>1 DEF AllSound, EventsOf
  <2>2. ASSUME NEW c \in Category, NEW e \in SettledBy(c), Running(o, c),
               Emit(o, e, SettleCategory(o, c))
        PROVE  FeedsMove
    <3> DEFINE y == Settled(session[o], c, e)
    <3>1. y.events = Append(session[o].events, e) /\ e \in EventSet
      BY <2>1, <2>2, SettledSound DEF Running
    <3>2. session' = [session EXCEPT ![o] = y]
      BY <2>2 DEF Emit, Settled, SettleCategory
    <3> HIDE DEF y
    <3>3. /\ o \in Object /\ EventsOf(o)' = EventsOf(o) \cup {e}
          /\ \A p \in Object \ {o} : EventsOf(p)' = EventsOf(p)
      BY <3>1, <3>2, GrownFeed
    <3>4. /\ Started \in EventsOf(o) /\ Complete \notin EventsOf(o)
          /\ CatStart(c) \in EventsOf(o) /\ EventsOf(o) \cap SettledBy(c) = {}
      BY <2>1, <2>2 DEF Sound, Running
    <3>. QED
      BY <3>3, <3>4 DEF FeedsMove, FeedMoves, FeedSettles
  <2>3. CASE \E c \in Category : AdapterThrows(o, c)
    BY <2>2, <2>3 DEF AdapterThrows, SettledBy
  <2>4. CASE \E c \in Category, how \in {"live", "degraded"} : AdapterReturns(o, c, how)
    BY <2>2, <2>4 DEF AdapterReturns, SettledBy
  <2>5. CASE CompleteSearch(o)
    <3> DEFINE y == Finished(session[o])
    <3>1. session[o].started /\ ~session[o].done /\ session[o].settled = Category
      BY <2>5 DEF CompleteSearch
    <3>2. y.events = Append(session[o].events, Complete) /\ Complete \in EventSet
      BY <2>1, <3>1, FinishedSound, EventsApart
    <3>3. session' = [session EXCEPT ![o] = y]
      BY <2>5 DEF CompleteSearch, Emit, Finished
    <3> HIDE DEF y
    <3>4. /\ o \in Object /\ EventsOf(o)' = EventsOf(o) \cup {Complete}
          /\ \A p \in Object \ {o} : EventsOf(p)' = EventsOf(p)
      BY <3>2, <3>3, GrownFeed
    <3>5. /\ Started \in EventsOf(o) /\ Complete \notin EventsOf(o)
          /\ \A c \in Category : EventsOf(o) \cap SettledBy(c) # {}
      BY <2>1, <3>1 DEF Sound
    <3>. QED
      BY <3>4, <3>5 DEF FeedsMove, FeedMoves, FeedFinishes
  <2>. QED
    BY <1>4, <2>3, <2>4, <2>5 DEF SearchStep
<1>5. ASSUME NEW k \in Client, NEW s \in SearchId, NEW o \in DOMAIN session, GetFound(k, s, o)
      PROVE  FeedsMove
  <2>1. Attach(k, o, session)
    BY <1>5 DEF GetFound
  <2>2. session' = session \/ (~session[o].started /\ session' = [session EXCEPT ![o] = Begun(session[o])])
    BY <1>1, <2>1, AttachSound DEF SessionInv
  <2>3. CASE ~session[o].started /\ session' = [session EXCEPT ![o] = Begun(session[o])]
    <3> DEFINE y == Begun(session[o])
    <3>0. session' = [session EXCEPT ![o] = y]
      BY <2>3
    <3> HIDE DEF y
    <3>1. DOMAIN session' = DOMAIN session /\ Len(session') = Len(session)
      BY <1>1, <3>0
    <3>2. Becomes(o, y)
      BY <1>1, <3>0, <3>1 DEF Becomes
    <3>. QED
      BY <1>1, <2>3, <3>2, BegunFeed DEF y, AllSound
  <2>. QED
    BY <2>2, <2>3, <1>2
<1>6. ASSUME NEW k \in Client, Rebuild(k) PROVE FeedsMove
  <2> DEFINE n == Len(session)
             s == client[k].search
             ss == Append(session, NewSession(s))
  <2>1. client[k].state = "resolving" /\ n < MaxObjects /\ Attach(k, n + 1, ss)
    BY <1>6 DEF Rebuild
  <2>2. s \in SearchId
    BY <2>1 DEF SessionInv
  <2>3. /\ AllSound(ss) /\ Len(ss) = n + 1 /\ ss[n + 1] = NewSession(s)
        /\ \A p \in 1..n : ss[p] = session[p]
        /\ \A j \in Client : Follows(client[j], ss)
    BY <2>1, <2>2, OneMore
  <2> HIDE DEF ss, s
  <2>4. n + 1 \in 1..Len(ss)
    BY <1>1, <2>3
  <2>5. session' = ss \/ session' = [ss EXCEPT ![n + 1] = Begun(ss[n + 1])]
    BY <2>1, <2>3, <2>4, AttachSound DEF SessionInv
  <2>6. Sound(NewSession(s)) /\ ~NewSession(s).started /\ NewSession(s).events = <<>>
    BY <2>2, NewSound
  <2>7. n + 1 \notin 1..n
    BY <1>1
  <2>8. CASE session' = ss
    <3>1. Becomes(n + 1, NewSession(s))
      BY <2>3, <2>4, <2>8, <1>1 DEF Becomes, Object
    <3>. QED
      BY <2>2, <2>7, <3>1, NewFeed
  <2>9. CASE session' = [ss EXCEPT ![n + 1] = Begun(ss[n + 1])]
    <3> DEFINE y == Begun(NewSession(s))
    <3>0. session' = [ss EXCEPT ![n + 1] = y]
      BY <2>3, <2>9
    <3> HIDE DEF y
    <3>1. DOMAIN ss = 1..Len(ss) /\ Len(session') = Len(ss) /\ session'[n + 1] = y
          /\ \A p \in 1..n : session'[p] = session[p]
      BY <1>1, <2>3, <2>4, <2>7, <3>0 DEF AllSound
    <3>2. Becomes(n + 1, y)
      BY <2>3, <2>4, <3>1, <1>1 DEF Becomes, Object
    <3>. QED
      BY <2>6, <2>7, <3>2, BegunFeed DEF y
  <2>. QED
    BY <2>5, <2>8, <2>9
<1>7. ASSUME UNCHANGED session PROVE FeedsMove
  BY <1>2, <1>7
<1>. QED
  BY <1>3, <1>4, <1>5, <1>6, <1>7
     DEF SessionNext, sessionVars, PostElsewhere, EvictOldest, Expire, GetMissing, RebuildFails,
         CloseStream, CacheDrop

\* A session object is a search feed, whoever posts, listens, leaves or
\* is evicted: a search begins once, each category settles once and apart from
\* the others, and the search is complete once, after them.
THEOREM SessionsImplementFeeds == SessionSpec => SessionsAreFeeds
<1>1. SessionInit => Feed!FeedInit
  <2> SUFFICES ASSUME SessionInit PROVE Feed!FeedInit
    OBVIOUS
  <2>1. \A o \in Object : EventsOf(o) = {}
    BY DEF SessionInit, EventsOf
  <2>2. Phase = [o \in Object |-> "new"]
        /\ Status = [o \in Object |-> [c \in Category |-> "pending"]]
    BY <2>1 DEF Phase, Status, PhaseOf, StatusOf
  <2>. QED
    BY <2>2 DEF Feed!FeedInit, Phase, Status, PhaseOf, StatusOf
<1>2. SessionInv /\ SessionInv' /\ [SessionNext]_sessionVars => [Feed!FeedNext]_(Feed!feedVars)
  BY SessionStepFeeds, FeedsStep
<1>. QED
  BY <1>1, <1>2, SessionsSound, PTL DEF SessionSpec, SessionsAreFeeds, Feed!FeedSpec

-----------------------------------------------------------------------------
(* Both parts                                                              *)

\* The guards' state and the sessions' have their types, whichever part runs.
THEOREM DiscoveryTypeCorrect == Spec => []DiscoveryTypeOK
<1>1. Init => GuardInit /\ SessionInit
  BY DEF Init
<1>2. [Next]_allVars => [GuardNext]_guardVars /\ [SessionNext]_sessionVars
  BY DEF Next, allVars
<1>3. Spec => GuardSpec /\ SessionSpec
  BY <1>1, <1>2, PTL DEF Spec, GuardSpec, SessionSpec
<1>. QED
  BY <1>3, GuardTypeCorrect, SessionTypeCorrect, PTL DEF DiscoveryTypeOK
=============================================================================
