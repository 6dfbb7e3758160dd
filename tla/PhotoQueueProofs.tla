-------------------------- MODULE PhotoQueueProofs --------------------------
(***************************************************************************)
(* Proofs about PhotoQueue, for any hotels, workers, batch size, budget and*)
(* time limits.  ClaimsExclusive is not inductive: a claim excludes others *)
(* through the row's status, and it is the row's age that keeps the requeue*)
(* away, so the invariant says that every held row is in progress and not  *)
(* older than its worker's claim (HeldFresh), and where the loop stands    *)
(* says what it holds (LoopShape).  DayOvershoot needs to know what the    *)
(* workers may still spend (Owed): one row's fetches for each of the rows  *)
(* of its batch that a worker has not paid for yet.                        *)
(***************************************************************************)
EXTENDS PhotoQueue, FiniteSetTheorems, TLAPS

\* Where a worker's loop stands says what it has claimed.
LoopShape ==
    \A w \in Worker :
        /\ pc[w] \in {"down", "loop", "claim"} => batch[w] = {}
        /\ pc[w] \in {"down", "loop", "claim", "batch"} => current[w] = None
        /\ pc[w] \in {"record", "write", "catch"} => current[w] \in Hotel
        /\ current[w] \notin batch[w]

\* A row that is held is in progress, and not older than the claim.
HeldFresh ==
    ~overran => \A w \in Worker : \A h \in Holding(w) :
        photos_status[h] = "in_progress" /\ age[h] <= since[w] /\ since[w] < StaleAfter

PhotoInv == PhotoTypeOK /\ LoopShape /\ HeldFresh /\ ClaimsExclusive

-----------------------------------------------------------------------------
(* Types                                                                   *)

LEMMA PhotoNumbers ==
    /\ 0 \in 0..RefreshAfter /\ 0 \in 0..StaleAfter /\ RefreshAfter \in 0..RefreshAfter
    /\ 0 \in 0..FaultBound /\ 0 \in 0..UpsertBound
  BY PhotoAssumption

LEMMA PhotoInitInv == PhotoInit => PhotoInv
<1> SUFFICES ASSUME PhotoInit PROVE PhotoInv
  OBVIOUS
<1>1. PhotoTypeOK
  BY PhotoNumbers DEF PhotoInit, PhotoTypeOK, Settled
<1>2. \A w \in Worker : pc[w] = "down" /\ batch[w] = {} /\ current[w] = None
  BY DEF PhotoInit
<1>3. \A w \in Worker : Holding(w) = {}
  BY <1>2 DEF Holding
<1>. QED
  BY <1>1, <1>2, <1>3 DEF PhotoInv, LoopShape, HeldFresh, ClaimsExclusive

\* A row with a new status and a fresh photos_fetched_at.
LEMMA StampTypes ==
    ASSUME PhotoTypeOK, NEW h \in Hotel,
           NEW s \in {"pending", "in_progress"} \cup Settled, Stamp(h, s)
    PROVE  /\ photos_status' \in [Hotel -> {"pending", "in_progress"} \cup Settled]
           /\ age' \in [Hotel -> 0..RefreshAfter]
  BY PhotoNumbers DEF Stamp, PhotoTypeOK

LEMMA DoneTypes ==
    ASSUME PhotoTypeOK, NEW w \in Worker, Done(w)
    PROVE  /\ pc' \in [Worker -> {"down", "loop", "claim", "batch", "record", "write", "catch"}]
           /\ current' \in [Worker -> Hotel \cup {None}]
           /\ since' \in [Worker -> 0..StaleAfter]
  BY PhotoNumbers DEF Done, Goto, PhotoTypeOK

LEMMA FaultTypes == PhotoTypeOK /\ Fault => faults' \in 0..FaultBound
  BY PhotoAssumption DEF PhotoTypeOK, Fault

LEMMA WorkerTypes ==
    ASSUME PhotoTypeOK, LoopShape, NEW w \in Worker, WorkerStep(w) \/ Crash(w)
    PROVE  PhotoTypeOK'
<1>1. CASE Start(w)
  BY <1>1 DEF Start, requeueStalePhotos, Goto, PhotoTypeOK
<1>2. CASE CheckBudget(w)
  BY <1>2 DEF CheckBudget, Goto, PhotoTypeOK, rowVars
<1>3. CASE RequeueStep(w)
  BY <1>3 DEF RequeueStep, requeueStalePhotos, PhotoTypeOK
<1>4. ASSUME NEW rows \in SUBSET Hotel, Claim(w, rows)
      PROVE  PhotoTypeOK'
  <2>1. /\ photos_status' \in [Hotel -> {"pending", "in_progress"} \cup Settled]
        /\ age' \in [Hotel -> 0..RefreshAfter]
        /\ since' \in [Worker -> 0..StaleAfter]
    BY <1>4, PhotoNumbers DEF Claim, PhotoTypeOK
  <2>2. batch' \in [Worker -> SUBSET Hotel]
    BY <1>4 DEF Claim, PhotoTypeOK
  <2>. QED
    BY <1>4, <2>1, <2>2 DEF Claim, Goto, PhotoTypeOK
<1>5. CASE ClaimNothing(w)
  <2>1. faults' \in 0..FaultBound
    BY <1>5, FaultTypes DEF ClaimNothing, PhotoTypeOK
  <2>. QED
    BY <1>5, <2>1 DEF ClaimNothing, Goto, PhotoTypeOK, rowVars
<1>6. ASSUME NEW h \in Hotel, NextHotel(w, h)
      PROVE  PhotoTypeOK'
  <2>1. batch' \in [Worker -> SUBSET Hotel] /\ current' \in [Worker -> Hotel \cup {None}]
    BY <1>6 DEF NextHotel, PhotoTypeOK
  <2>. QED
    BY <1>6, <2>1 DEF NextHotel, Goto, PhotoTypeOK, rowVars
<1>7. ASSUME NEW n \in 0..MaxPerHotel, NEW next \in {"write", "catch"}, RecordSpend(w, n, next)
      PROVE  PhotoTypeOK'
  <2>1. media_fetches' \in Nat
    BY <1>7, PhotoAssumption DEF RecordSpend, PhotoTypeOK
  <2>. QED
    BY <1>7, <2>1 DEF RecordSpend, Goto, PhotoTypeOK, rowVars
<1>8. ASSUME NEW s \in {"done", "none"}, Save(w, s)
      PROVE  PhotoTypeOK'
  <2>1. current[w] \in Hotel
    BY <1>8 DEF Save, LoopShape
  <2>2. /\ photos_status' \in [Hotel -> {"pending", "in_progress"} \cup Settled]
        /\ age' \in [Hotel -> 0..RefreshAfter]
    BY <1>8, <2>1, StampTypes DEF Save, Settled
  <2>. QED
    BY <1>8, <2>2, DoneTypes DEF Save, PhotoTypeOK
<1>9. CASE SaveFails(w)
  BY <1>9, FaultTypes DEF SaveFails, Goto, PhotoTypeOK, rowVars
<1>10. CASE MarkError(w)
  <2>1. current[w] \in Hotel
    BY <1>10 DEF MarkError, LoopShape
  <2>2. /\ photos_status' \in [Hotel -> {"pending", "in_progress"} \cup Settled]
        /\ age' \in [Hotel -> 0..RefreshAfter]
    BY <1>10, <2>1, StampTypes DEF MarkError, Settled
  <2>. QED
    BY <1>10, <2>2, DoneTypes DEF MarkError, PhotoTypeOK
<1>11. CASE MarkErrorFails(w)
  BY <1>11, FaultTypes, DoneTypes DEF MarkErrorFails, PhotoTypeOK, rowVars
<1>12. CASE Crash(w)
  <2>1. /\ batch' \in [Worker -> SUBSET Hotel]
        /\ current' \in [Worker -> Hotel \cup {None}]
        /\ since' \in [Worker -> 0..StaleAfter]
    BY <1>12, PhotoNumbers DEF Crash, PhotoTypeOK
  <2>. QED
    BY <1>12, <2>1, FaultTypes DEF Crash, Goto, PhotoTypeOK, rowVars
<1>. QED
  BY <1>1, <1>2, <1>3, <1>4, <1>5, <1>6, <1>7, <1>8, <1>9, <1>10, <1>11, <1>12 DEF WorkerStep

LEMMA TimeTypes ==
    ASSUME PhotoTypeOK, Tick
    PROVE  PhotoTypeOK'
<1>1. age' \in [Hotel -> 0..RefreshAfter]
  <2>1. \A h \in Hotel : Older(age[h], RefreshAfter) \in 0..RefreshAfter
    BY PhotoAssumption DEF Older, PhotoTypeOK
  <2>. QED
    BY <2>1 DEF Tick
<1>2. since' \in [Worker -> 0..StaleAfter]
  <2>1. \A w \in Worker : Older(since[w], StaleAfter) \in 0..StaleAfter
    BY PhotoAssumption DEF Older, PhotoTypeOK
  <2>. QED
    BY <2>1, PhotoNumbers DEF Tick
<1>3. overran' \in BOOLEAN
  BY DEF Tick
<1>. QED
  BY <1>1, <1>2, <1>3 DEF Tick, PhotoTypeOK

LEMMA SurroundingTypes ==
    ASSUME PhotoTypeOK, (\E h \in Hotel : Upsert(h)) \/ Midnight
    PROVE  PhotoTypeOK'
<1>1. ASSUME NEW h \in Hotel, Upsert(h)
      PROVE  PhotoTypeOK'
  <2>1. upserts' \in 0..UpsertBound
    BY <1>1, PhotoAssumption DEF Upsert, PhotoTypeOK
  <2>2. photos_status' \in [Hotel -> {"pending", "in_progress"} \cup Settled]
    BY <1>1 DEF Upsert, PhotoTypeOK
  <2>. QED
    BY <1>1, <2>1, <2>2 DEF Upsert, PhotoTypeOK
<1>2. CASE Midnight
  BY <1>2 DEF Midnight, PhotoTypeOK, rowVars
<1>. QED
  BY <1>1, <1>2

-----------------------------------------------------------------------------
(* The loop                                                                *)

LEMMA LoopKeepsShape ==
    ASSUME PhotoTypeOK, LoopShape, NEW w \in Worker, WorkerStep(w) \/ Crash(w)
    PROVE  LoopShape'
<1> USE DEF PhotoTypeOK, LoopShape, Goto
<1>1. CASE Start(w) \/ CheckBudget(w) \/ RequeueStep(w) \/ ClaimNothing(w) \/ SaveFails(w)
  BY <1>1 DEF Start, CheckBudget, RequeueStep, ClaimNothing, SaveFails
<1>2. ASSUME NEW rows \in SUBSET Hotel, Claim(w, rows)
      PROVE  LoopShape'
  BY <1>2, PhotoAssumption DEF Claim
<1>3. ASSUME NEW h \in Hotel, NextHotel(w, h)
      PROVE  LoopShape'
  BY <1>3 DEF NextHotel
<1>4. ASSUME NEW n \in 0..MaxPerHotel, NEW next \in {"write", "catch"}, RecordSpend(w, n, next)
      PROVE  LoopShape'
  BY <1>4 DEF RecordSpend
<1>5. ASSUME Done(w), UNCHANGED batch
      PROVE  LoopShape'
  BY <1>5, PhotoAssumption DEF Done
<1>6. CASE Crash(w)
  BY <1>6, PhotoAssumption DEF Crash
<1>. QED
  BY <1>1, <1>2, <1>3, <1>4, <1>5, <1>6 DEF WorkerStep, Save, MarkError, MarkErrorFails

-----------------------------------------------------------------------------
(* Claims                                                                  *)

\* A step that gives up claims at most, and leaves the rows still held alone.
LEMMA FewerClaims ==
    ASSUME HeldFresh, ClaimsExclusive, overran' = overran,
           \A v \in Worker : Holding(v)' \subseteq Holding(v),
           \A v \in Worker : \A h \in Holding(v)' :
               ~overran => /\ photos_status'[h] = photos_status[h]
                           /\ age'[h] = age[h] /\ since'[v] = since[v]
    PROVE  HeldFresh' /\ ClaimsExclusive'
<1>1. HeldFresh'
  BY DEF HeldFresh
<1>2. ClaimsExclusive'
  BY DEF ClaimsExclusive
<1>. QED
  BY <1>1, <1>2

\* A requeue passes by the rows that are held.
LEMMA RequeueSparesHeld ==
    ASSUME PhotoTypeOK, HeldFresh, ~overran, requeueStalePhotos,
           NEW v \in Worker, NEW h \in Holding(v)
    PROVE  photos_status'[h] = photos_status[h]
<1>1. /\ h \in Hotel /\ photos_status[h] = "in_progress"
      /\ age[h] <= since[v] /\ since[v] < StaleAfter
  BY DEF HeldFresh, Holding, PhotoTypeOK
<1>2. age[h] \in Nat /\ since[v] \in Nat /\ StaleAfter \in Nat
  BY <1>1, PhotoAssumption DEF PhotoTypeOK
<1>3. ~Stale(h)
  BY <1>1, <1>2 DEF Stale
<1>. QED
  BY <1>1, <1>3 DEF requeueStalePhotos

\* Settling the row at hand touches no other claim.
LEMMA SettleSparesOthers ==
    ASSUME PhotoTypeOK, LoopShape, HeldFresh, ClaimsExclusive, NEW w \in Worker,
           current[w] \in Hotel, NEW s, Stamp(current[w], s), Done(w),
           UNCHANGED <<batch, overran>>
    PROVE  HeldFresh' /\ ClaimsExclusive'
<1>1. \A v \in Worker : current'[v] = (IF v = w THEN None ELSE current[v])
  BY DEF Done, PhotoTypeOK
<1>2. \A v \in Worker : Holding(v)' = IF v = w THEN batch[w] ELSE Holding(v)
  BY <1>1 DEF Holding
<1>3. \A v \in Worker : Holding(v)' \subseteq Holding(v)
  BY <1>2 DEF Holding
<1>4. ASSUME NEW v \in Worker, NEW h \in Holding(v)', ~overran
      PROVE  /\ photos_status'[h] = photos_status[h]
             /\ age'[h] = age[h] /\ since'[v] = since[v]
  <2>1. current[w] \in Holding(w)
    BY PhotoAssumption DEF Holding
  <2>2. h # current[w]
    BY <1>2, <1>4, <2>1 DEF ClaimsExclusive, LoopShape
  <2>3. h \in Hotel
    BY <1>3, <1>4 DEF Holding, PhotoTypeOK
  <2>4. since'[v] = since[v]
    BY <1>2, <1>4 DEF Done, PhotoTypeOK
  <2>. QED
    BY <2>2, <2>3, <2>4 DEF Stamp, PhotoTypeOK
<1>. QED
  BY <1>3, <1>4, FewerClaims

LEMMA WorkerKeepsClaims ==
    ASSUME PhotoInv, NEW w \in Worker, WorkerStep(w) \/ Crash(w)
    PROVE  HeldFresh' /\ ClaimsExclusive'
<1> USE DEF PhotoInv
<1>1. CASE Start(w) \/ RequeueStep(w)
  <2>1. /\ requeueStalePhotos /\ UNCHANGED <<age, batch, current, since, overran>>
    BY <1>1 DEF Start, RequeueStep
  <2>2. \A v \in Worker : Holding(v)' = Holding(v)
    BY <2>1 DEF Holding
  <2>. QED
    BY <2>1, <2>2, RequeueSparesHeld, FewerClaims
<1>2. CASE CheckBudget(w) \/ ClaimNothing(w) \/ SaveFails(w)
  BY <1>2, FewerClaims
     DEF CheckBudget, ClaimNothing, SaveFails, Holding, rowVars
<1>3. ASSUME NEW rows \in SUBSET Hotel, Claim(w, rows)
      PROVE  HeldFresh' /\ ClaimsExclusive'
  <2>1. Holding(w)' = rows /\ since'[w] = 0 /\ overran' = overran
    BY <1>3, PhotoAssumption DEF Claim, Holding, LoopShape, PhotoTypeOK
  <2>2. \A v \in Worker \ {w} : Holding(v)' = Holding(v) /\ since'[v] = since[v]
    BY <1>3 DEF Claim, Holding, PhotoTypeOK
  <2>3. \A h \in rows : photos_status'[h] = "in_progress" /\ age'[h] = 0
    BY <1>3 DEF Claim
  <2>4. \A h \in rows : photos_status[h] # "in_progress"
    BY <1>3 DEF Claim, Pick, Claimable, Pending, Aged
  <2>5. \A v \in Worker \ {w} : \A h \in Holding(v) : ~overran => h \in Hotel \ rows
    BY <2>4 DEF HeldFresh, Holding, PhotoTypeOK
  <2>6. \A h \in Hotel \ rows : photos_status'[h] = photos_status[h] /\ age'[h] = age[h]
    BY <1>3 DEF Claim
  <2>7. 0 < StaleAfter /\ 0 <= 0
    BY PhotoAssumption
  <2>8. HeldFresh'
    BY <2>1, <2>2, <2>3, <2>5, <2>6, <2>7 DEF HeldFresh
  <2>9. ClaimsExclusive'
    BY <2>1, <2>2, <2>5 DEF ClaimsExclusive
  <2>. QED
    BY <2>8, <2>9
<1>4. ASSUME NEW h \in Hotel, NextHotel(w, h)
      PROVE  HeldFresh' /\ ClaimsExclusive'
  <2>1. \A v \in Worker : Holding(v)' \subseteq Holding(v)
    BY <1>4 DEF NextHotel, Holding, PhotoTypeOK
  <2>. QED
    BY <1>4, <2>1, FewerClaims DEF NextHotel, rowVars
<1>5. ASSUME NEW n \in 0..MaxPerHotel, NEW next \in {"write", "catch"}, RecordSpend(w, n, next)
      PROVE  HeldFresh' /\ ClaimsExclusive'
  BY <1>5, FewerClaims DEF RecordSpend, Holding, rowVars
<1>6. ASSUME NEW s \in {"done", "none"}, Save(w, s)
      PROVE  HeldFresh' /\ ClaimsExclusive'
  BY <1>6, SettleSparesOthers DEF Save, LoopShape
<1>7. CASE MarkError(w)
  BY <1>7, SettleSparesOthers DEF MarkError, LoopShape
<1>8. CASE MarkErrorFails(w) \/ Crash(w)
  <2>1. \A v \in Worker : Holding(v)' \subseteq Holding(v)
    BY <1>8 DEF MarkErrorFails, Crash, Done, Holding, PhotoTypeOK
  <2>2. \A v \in Worker : Holding(v)' # {} => since'[v] = since[v]
    BY <1>8 DEF MarkErrorFails, Crash, Done, Holding, PhotoTypeOK
  <2>. QED
    BY <1>8, <2>1, <2>2, FewerClaims DEF MarkErrorFails, Crash, rowVars
<1>. QED
  BY <1>1, <1>2, <1>3, <1>4, <1>5, <1>6, <1>7, <1>8 DEF WorkerStep

LEMMA TimeKeepsClaims ==
    ASSUME PhotoInv, Tick
    PROVE  HeldFresh' /\ ClaimsExclusive'
<1> USE DEF PhotoInv
<1>1. \A v \in Worker : Holding(v)' = Holding(v)
  BY DEF Tick, Holding
<1>2. ASSUME ~overran', NEW v \in Worker, NEW h \in Holding(v)
      PROVE  photos_status'[h] = "in_progress" /\ age'[h] <= since'[v] /\ since'[v] < StaleAfter
  <2>1. /\ ~overran /\ since'[v] # StaleAfter /\ since'[v] = Older(since[v], StaleAfter)
        /\ photos_status' = photos_status
    BY <1>2 DEF Tick
  <2>2. /\ photos_status[h] = "in_progress" /\ age[h] <= since[v] /\ since[v] < StaleAfter
    BY <1>2, <2>1 DEF HeldFresh
  <2>3. /\ h \in Hotel /\ age[h] \in 0..RefreshAfter /\ since[v] \in 0..StaleAfter
        /\ age'[h] = Older(age[h], RefreshAfter)
    BY <1>2 DEF Holding, PhotoTypeOK, Tick
  <2>. QED
    BY <2>1, <2>2, <2>3, PhotoAssumption DEF Older
<1>3. HeldFresh'
  BY <1>1, <1>2 DEF HeldFresh
<1>4. ClaimsExclusive'
  BY <1>1 DEF ClaimsExclusive, Tick
<1>. QED
  BY <1>3, <1>4

LEMMA SurroundingsKeepClaims ==
    ASSUME PhotoInv, (\E h \in Hotel : Upsert(h)) \/ Midnight
    PROVE  HeldFresh' /\ ClaimsExclusive'
<1> USE DEF PhotoInv
<1>1. ASSUME NEW g \in Hotel, Upsert(g)
      PROVE  HeldFresh' /\ ClaimsExclusive'
  <2>1. \A v \in Worker : Holding(v)' = Holding(v)
    BY <1>1 DEF Upsert, Holding
  <2>2. \A v \in Worker : \A h \in Holding(v) :
           ~overran => h # g /\ h \in Hotel
    BY <1>1 DEF Upsert, HeldFresh, Holding, PhotoTypeOK
  <2>3. \A h \in Hotel : h # g => photos_status'[h] = photos_status[h]
    BY <1>1 DEF Upsert, PhotoTypeOK
  <2>. QED
    BY <1>1, <2>1, <2>2, <2>3, FewerClaims DEF Upsert
<1>2. CASE Midnight
  BY <1>2, FewerClaims DEF Midnight, Holding, rowVars
<1>. QED
  BY <1>1, <1>2

-----------------------------------------------------------------------------
LEMMA PhotoStepInv == PhotoInv /\ [PhotoNext]_photoVars => PhotoInv'
<1> SUFFICES ASSUME PhotoInv, [PhotoNext]_photoVars
             PROVE  PhotoInv'
  OBVIOUS
<1>1. ASSUME NEW w \in Worker, WorkerStep(w) \/ Crash(w)
      PROVE  PhotoInv'
  BY <1>1, WorkerTypes, LoopKeepsShape, WorkerKeepsClaims DEF PhotoInv
<1>2. CASE Tick
  <2>1. LoopShape'
    BY <1>2 DEF PhotoInv, LoopShape, Tick
  <2>. QED
    BY <1>2, <2>1, TimeTypes, TimeKeepsClaims DEF PhotoInv
<1>3. CASE (\E h \in Hotel : Upsert(h)) \/ Midnight
  <2>1. LoopShape'
    BY <1>3 DEF PhotoInv, LoopShape, Upsert, Midnight
  <2>. QED
    BY <1>3, <2>1, SurroundingTypes, SurroundingsKeepClaims DEF PhotoInv
<1>4. CASE UNCHANGED photoVars
  BY <1>4 DEF photoVars, rowVars, PhotoInv, PhotoTypeOK, LoopShape, HeldFresh,
              ClaimsExclusive, Holding
<1>. QED
  BY <1>1, <1>2, <1>3, <1>4 DEF PhotoNext

\* Rows, workers and counters keep their types.
THEOREM PhotoTypeCorrect == PhotoSpec => []PhotoTypeOK
  BY PhotoInitInv, PhotoStepInv, PTL DEF PhotoSpec, PhotoInv

\* While no batch outlives StaleAfter no hotel is held by two workers.
THEOREM ClaimsAreExclusive == PhotoSpec => []ClaimsExclusive
  BY PhotoInitInv, PhotoStepInv, PTL DEF PhotoSpec, PhotoInv


-----------------------------------------------------------------------------
(* The day's spend                                                         *)

\* The rows a worker may still pay for before it reads the ledger again.
Unpaid(w) ==
    CASE pc[w] \in {"down", "loop"} -> 0
      [] pc[w] = "claim"  -> BatchSize
      [] pc[w] = "record" -> Cardinality(batch[w]) + 1
      [] OTHER -> Cardinality(batch[w])

Owed == {t \in Worker \X (1..BatchSize) : t[2] <= Unpaid(t[1])}

\* A batch is not larger than BatchSize, the row at hand included.
BatchFits == \A w \in Worker : Unpaid(w) \in 0..BatchSize

\* What is spent and owed exceeds the ceiling by no more than all batches cost.
SpendBounded ==
    DailyBudget > 0 =>
        media_fetches + MaxPerHotel * Cardinality(Owed)
            < DailyBudget + Cardinality(Worker) * BatchSize * MaxPerHotel

\* What a step can do to the ledger: nothing that adds to it; a worker passes
\* the check; it pays for a row; a new day.
DayStands == media_fetches' = media_fetches /\ Owed' \subseteq Owed
DayPasses == media_fetches' = media_fetches /\ (DailyBudget > 0 => media_fetches < DailyBudget)
DayPays   == \E t \in Owed, n \in 0..MaxPerHotel :
                media_fetches' = media_fetches + n /\ Owed' \subseteq Owed \ {t}
DayClears == media_fetches' = 0

LEMMA OwedFinite ==
    /\ IsFiniteSet(Owed) /\ Cardinality(Owed) \in Nat
    /\ Cardinality(Worker) \in Nat
    /\ Cardinality(Owed) <= Cardinality(Worker) * BatchSize
<1> DEFINE All == Worker \X (1..BatchSize)
<1>1. IsFiniteSet(1..BatchSize) /\ Cardinality(1..BatchSize) = BatchSize
  BY PhotoAssumption, FS_Interval
<1>2. IsFiniteSet(All) /\ Cardinality(All) = Cardinality(Worker) * BatchSize
  BY <1>1, PhotoAssumption, FS_Product
<1>3. Owed \in SUBSET All
  BY DEF Owed
<1>4. IsFiniteSet(Owed) /\ Cardinality(Owed) <= Cardinality(All)
  BY <1>2, <1>3, FS_Subset
<1>. QED
  BY <1>2, <1>4, PhotoAssumption, FS_CardinalityType

\* Where no worker may pay for more rows, no more is owed.
LEMMA OwedShrinks ==
    ASSUME BatchFits, BatchFits', \A v \in Worker : Unpaid(v)' <= Unpaid(v)
    PROVE  Owed' \subseteq Owed
<1> SUFFICES ASSUME NEW v \in Worker, NEW i \in 1..BatchSize, i <= Unpaid(v)'
             PROVE  i <= Unpaid(v)
  BY DEF Owed
<1>1. Unpaid(v) \in Int /\ Unpaid(v)' \in Int /\ Unpaid(v)' <= Unpaid(v)
  BY PhotoAssumption DEF BatchFits
<1>. QED
  BY <1>1, PhotoAssumption

LEMMA BatchFinite ==
    ASSUME PhotoTypeOK, NEW w \in Worker
    PROVE  IsFiniteSet(batch[w]) /\ Cardinality(batch[w]) \in Nat
<1>1. batch[w] \in SUBSET Hotel
  BY DEF PhotoTypeOK
<1>. QED
  BY <1>1, PhotoAssumption, FS_Subset, FS_CardinalityType

\* A step of worker w changes what w may pay for, if anything.
LEMMA OthersUnpaid ==
    ASSUME PhotoTypeOK, NEW w \in Worker, NEW l, pc' = [pc EXCEPT ![w] = l],
           \A v \in Worker \ {w} : batch'[v] = batch[v]
    PROVE  \A v \in Worker \ {w} : Unpaid(v)' = Unpaid(v)
  BY DEF Unpaid, PhotoTypeOK

LEMMA LessUnpaid ==
    ASSUME PhotoTypeOK, BatchFits, NEW w \in Worker, NEW l, pc' = [pc EXCEPT ![w] = l],
           \A v \in Worker \ {w} : batch'[v] = batch[v],
           Unpaid(w)' \in 0..Unpaid(w), media_fetches' = media_fetches
    PROVE  BatchFits' /\ DayStands
<1>1. \A v \in Worker : Unpaid(v)' \in 0..BatchSize /\ Unpaid(v)' <= Unpaid(v)
  <2>1. Unpaid(w) \in 0..BatchSize
    BY DEF BatchFits
  <2>2. Unpaid(w)' \in 0..BatchSize /\ Unpaid(w)' <= Unpaid(w)
    BY <2>1, PhotoAssumption
  <2>3. \A v \in Worker \ {w} : Unpaid(v)' = Unpaid(v)
    BY OthersUnpaid
  <2>4. \A v \in Worker \ {w} : Unpaid(v)' \in 0..BatchSize /\ Unpaid(v)' <= Unpaid(v)
    BY <2>3, PhotoAssumption DEF BatchFits
  <2>. QED
    BY <2>2, <2>4
<1>2. BatchFits'
  BY <1>1 DEF BatchFits
<1>. QED
  BY <1>1, <1>2, OwedShrinks DEF DayStands

LEMMA WorkerDay ==
    ASSUME PhotoTypeOK, LoopShape, BatchFits, NEW w \in Worker, WorkerStep(w) \/ Crash(w)
    PROVE  BatchFits' /\ (DayStands \/ DayPasses \/ DayPays)
<1>a. Cardinality(batch[w]) \in Nat /\ IsFiniteSet(batch[w]) /\ Unpaid(w) \in 0..BatchSize
  BY BatchFinite DEF BatchFits
<1>b. Cardinality({}) = 0
  BY FS_EmptySet
<1>1. CASE Start(w) \/ ClaimNothing(w) \/ Crash(w)
  <2>1. /\ \E l \in {"down", "loop"} : pc' = [pc EXCEPT ![w] = l]
        /\ \A v \in Worker \ {w} : batch'[v] = batch[v]
        /\ media_fetches' = media_fetches
    BY <1>1 DEF Start, ClaimNothing, Crash, Goto, PhotoTypeOK, rowVars
  <2>2. Unpaid(w)' = 0
    BY <2>1 DEF Unpaid, PhotoTypeOK
  <2>3. Unpaid(w)' \in 0..Unpaid(w)
    BY <2>2, <1>a, PhotoAssumption
  <2>. QED
    BY <2>1, <2>3, LessUnpaid
<1>2. CASE CheckBudget(w)
  <2>1. /\ pc' = [pc EXCEPT ![w] = "claim"] /\ batch' = batch
        /\ DayPasses
    BY <1>2 DEF CheckBudget, Goto, DayPasses
  <2>2. Unpaid(w)' = BatchSize
    BY <2>1 DEF Unpaid, PhotoTypeOK
  <2>3. \A v \in Worker \ {w} : Unpaid(v)' = Unpaid(v)
    BY <2>1, OthersUnpaid
  <2>. QED
    BY <2>1, <2>2, <2>3, PhotoAssumption DEF BatchFits
<1>3. CASE RequeueStep(w)
  <2>1. pc' = pc /\ batch' = batch /\ media_fetches' = media_fetches
    BY <1>3 DEF RequeueStep
  <2>. QED
    BY <2>1 DEF BatchFits, DayStands, Owed, Unpaid
<1>4. ASSUME NEW rows \in SUBSET Hotel, Claim(w, rows)
      PROVE  BatchFits' /\ DayStands
  <2>1. /\ pc[w] = "claim" /\ pc' = [pc EXCEPT ![w] = "batch"]
        /\ batch' = [batch EXCEPT ![w] = rows] /\ media_fetches' = media_fetches
        /\ Cardinality(rows) <= BatchSize
    BY <1>4 DEF Claim, Goto, Pick
  <2>2. Cardinality(rows) \in Nat
    BY PhotoAssumption, FS_Subset, FS_CardinalityType
  <2>3. Unpaid(w) = BatchSize /\ Unpaid(w)' = Cardinality(rows)
    BY <2>1 DEF Unpaid, PhotoTypeOK
  <2>4. Unpaid(w)' \in 0..Unpaid(w)
    BY <2>1, <2>2, <2>3, PhotoAssumption
  <2>. QED
    BY <2>1, <2>4, LessUnpaid DEF PhotoTypeOK
<1>5. ASSUME NEW h \in Hotel, NextHotel(w, h)
      PROVE  BatchFits' /\ DayStands
  <2>1. /\ pc[w] = "batch" /\ pc' = [pc EXCEPT ![w] = "record"] /\ h \in batch[w]
        /\ batch' = [batch EXCEPT ![w] = @ \ {h}] /\ media_fetches' = media_fetches
    BY <1>5 DEF NextHotel, Goto
  <2>2. Cardinality(batch[w] \ {h}) + 1 = Cardinality(batch[w])
    <3>1. h \in batch[w] /\ IsFiniteSet(batch[w]) /\ Cardinality(batch[w]) \in Nat
      BY <1>a, <2>1
    <3>2. Cardinality(batch[w] \ {h}) = Cardinality(batch[w]) - 1
      BY <3>1, FS_RemoveElement
    <3>. QED
      BY <3>1, <3>2
  <2>3. Unpaid(w) = Cardinality(batch[w]) /\ Unpaid(w)' = Cardinality(batch[w] \ {h}) + 1
    BY <2>1 DEF Unpaid, PhotoTypeOK
  <2>4. Unpaid(w)' \in 0..Unpaid(w)
    BY <2>2, <2>3, <1>a
  <2>. QED
    BY <2>1, <2>4, LessUnpaid DEF PhotoTypeOK
<1>6. ASSUME NEW n \in 0..MaxPerHotel, NEW next \in {"write", "catch"}, RecordSpend(w, n, next)
      PROVE  BatchFits' /\ DayPays
  <2>1. /\ pc[w] = "record" /\ pc' = [pc EXCEPT ![w] = next]
        /\ batch' = batch /\ media_fetches' = media_fetches + n
    BY <1>6 DEF RecordSpend, Goto
  <2>2. Unpaid(w) = Cardinality(batch[w]) + 1 /\ Unpaid(w)' = Cardinality(batch[w])
    BY <2>1 DEF Unpaid, PhotoTypeOK
  <2>3. \A v \in Worker \ {w} : Unpaid(v)' = Unpaid(v)
    BY <2>1, OthersUnpaid
  <2>4. BatchFits'
    BY <2>2, <2>3, <1>a, PhotoAssumption DEF BatchFits
  <2>5. <<w, Unpaid(w)>> \in Owed
    BY <2>2, <1>a, PhotoAssumption DEF Owed
  <2>6. Owed' \subseteq Owed \ {<<w, Unpaid(w)>>}
    <3> SUFFICES ASSUME NEW v \in Worker, NEW i \in 1..BatchSize, i <= Unpaid(v)'
                 PROVE  i <= Unpaid(v) /\ (v = w => i # Unpaid(w))
      BY DEF Owed
    <3>1. CASE v = w
      BY <3>1, <2>2, <1>a, PhotoAssumption
    <3>2. CASE v # w
      BY <3>2, <2>3
    <3>. QED
      BY <3>1, <3>2
  <2>. QED
    BY <2>1, <2>4, <2>5, <2>6 DEF DayPays
<1>7. ASSUME pc[w] \in {"write", "catch"}, batch' = batch, media_fetches' = media_fetches,
             \E l \in {"catch", "batch", "loop"} : pc' = [pc EXCEPT ![w] = l]
      PROVE  BatchFits' /\ DayStands
  <2>1. Unpaid(w) = Cardinality(batch[w]) /\ Unpaid(w)' \in {0, Cardinality(batch[w])}
    BY <1>7 DEF Unpaid, PhotoTypeOK
  <2>2. Unpaid(w)' \in 0..Unpaid(w)
    BY <2>1, <1>a
  <2>. QED
    BY <1>7, <2>2, LessUnpaid
<1>8. (\E s \in {"done", "none"} : Save(w, s)) \/ SaveFails(w) \/ MarkError(w) \/ MarkErrorFails(w)
        => BatchFits' /\ DayStands
  <2>1. Done(w) => \E l \in {"batch", "loop"} : pc' = [pc EXCEPT ![w] = l]
    BY DEF Done, Goto
  <2>. QED
    BY <1>7, <2>1 DEF Save, SaveFails, MarkError, MarkErrorFails, Goto
<1>. QED
  BY <1>1, <1>2, <1>3, <1>4, <1>5, <1>6, <1>8 DEF WorkerStep

LEMMA StepDay ==
    ASSUME PhotoInv, BatchFits, [PhotoNext]_photoVars
    PROVE  BatchFits' /\ (DayStands \/ DayPasses \/ DayPays \/ DayClears)
<1>1. ASSUME NEW w \in Worker, WorkerStep(w) \/ Crash(w)
      PROVE  BatchFits' /\ (DayStands \/ DayPasses \/ DayPays)
  BY <1>1, WorkerDay DEF PhotoInv
<1>2. ASSUME pc' = pc, batch' = batch
      PROVE  BatchFits' /\ Owed' = Owed
  BY <1>2 DEF BatchFits, Owed, Unpaid
<1>3. CASE (\E h \in Hotel : Upsert(h)) \/ Tick \/ UNCHANGED photoVars
  BY <1>2, <1>3 DEF Upsert, Tick, photoVars, DayStands
<1>4. CASE Midnight
  BY <1>2, <1>4 DEF Midnight, DayClears
<1>. QED
  BY <1>1, <1>3, <1>4 DEF PhotoNext

\* Products with a number of fetches, for the prover.
LEMMA FetchesGrow ==
    ASSUME NEW m \in Nat, NEW n \in Nat, m <= n
    PROVE  MaxPerHotel * m <= MaxPerHotel * n /\ MaxPerHotel * m \in Nat
           /\ MaxPerHotel * n \in Nat
  BY PhotoAssumption

LEMMA StepKeepsSpend ==
    ASSUME PhotoInv, PhotoInv', BatchFits, SpendBounded, [PhotoNext]_photoVars
    PROVE  SpendBounded'
<1> DEFINE n == Cardinality(Owed)
           m == Cardinality(Owed')
           all == Cardinality(Worker) * BatchSize
<1>1. n \in Nat /\ IsFiniteSet(Owed) /\ all \in Nat
  BY OwedFinite, PhotoAssumption
<1>2. m \in Nat /\ m <= all
  <2>1. IsFiniteSet(Worker \X (1..BatchSize)) /\ Cardinality(Worker \X (1..BatchSize)) = all
    <3>1. IsFiniteSet(1..BatchSize) /\ Cardinality(1..BatchSize) = BatchSize
      BY PhotoAssumption, FS_Interval
    <3>. QED
      BY <3>1, PhotoAssumption, FS_Product
  <2>2. Owed' \in SUBSET (Worker \X (1..BatchSize))
    BY DEF Owed
  <2>. QED
    BY <2>1, <2>2, FS_Subset, FS_CardinalityType
<1>3. media_fetches \in Nat /\ media_fetches' \in Nat /\ DailyBudget \in Nat /\ MaxPerHotel \in Nat
  BY PhotoAssumption DEF PhotoInv, PhotoTypeOK
<1>4. Cardinality(Worker) * BatchSize * MaxPerHotel = MaxPerHotel * all
  BY OwedFinite, PhotoAssumption
<1>5. SUFFICES ASSUME DailyBudget > 0
               PROVE  media_fetches' + MaxPerHotel * m < DailyBudget + MaxPerHotel * all
  BY <1>4 DEF SpendBounded
<1>6. media_fetches + MaxPerHotel * n < DailyBudget + MaxPerHotel * all
  BY <1>4, <1>5 DEF SpendBounded
<1>7. MaxPerHotel * m <= MaxPerHotel * all /\ MaxPerHotel * m \in Nat /\ MaxPerHotel * all \in Nat
  BY <1>1, <1>2, FetchesGrow
<1>8. CASE DayStands
  <2>1. m <= n /\ media_fetches' = media_fetches
    BY <1>8, <1>1, FS_Subset DEF DayStands
  <2>2. MaxPerHotel * m <= MaxPerHotel * n /\ MaxPerHotel * n \in Nat
    BY <2>1, <1>1, <1>2, FetchesGrow
  <2> HIDE DEF n, m, all
  <2>. QED
    BY <2>1, <2>2, <1>3, <1>6, <1>7
<1>9. CASE DayPasses
  <2>1. media_fetches' < DailyBudget
    BY <1>9, <1>5 DEF DayPasses
  <2> HIDE DEF n, m, all
  <2>. QED
    BY <2>1, <1>3, <1>7
<1>10. CASE DayPays
  <2>1. PICK t \in Owed, k \in 0..MaxPerHotel :
           media_fetches' = media_fetches + k /\ Owed' \subseteq Owed \ {t}
    BY <1>10 DEF DayPays
  <2>2. IsFiniteSet(Owed \ {t}) /\ Cardinality(Owed \ {t}) = n - 1
    BY <1>1, FS_RemoveElement
  <2>3. m + 1 <= n /\ m + 1 \in Nat
    <3>1. m <= n - 1
      BY <2>1, <2>2, FS_Subset
    <3>. QED
      BY <3>1, <1>1, <1>2
  <2> HIDE DEF n, m, all
  <2>4. MaxPerHotel * (m + 1) <= MaxPerHotel * n /\ MaxPerHotel * n \in Nat
    BY <2>3, <1>1, FetchesGrow
  <2>5. MaxPerHotel * (m + 1) = MaxPerHotel * m + MaxPerHotel
    BY <1>2, <1>3
  <2>. QED
    BY <2>1, <2>4, <2>5, <1>3, <1>6, <1>7
<1>11. CASE DayClears
  <2>1. media_fetches' = 0
    BY <1>11 DEF DayClears
  <2> HIDE DEF n, m, all
  <2>. QED
    BY <2>1, <1>3, <1>5, <1>7
<1>. QED
  BY <1>8, <1>9, <1>10, <1>11, StepDay

\* A day's spend exceeds the ceiling by less than what a batch of each worker
\* costs.
THEOREM OvershootIsBatches == PhotoSpec => []DayOvershoot
<1>1. PhotoInit => BatchFits /\ SpendBounded
  <2> SUFFICES ASSUME PhotoInit PROVE BatchFits /\ SpendBounded
    OBVIOUS
  <2>1. \A w \in Worker : Unpaid(w) = 0
    BY DEF PhotoInit, Unpaid
  <2>2. Owed = {} /\ Cardinality(Owed) = 0
    BY <2>1, FS_EmptySet, PhotoAssumption DEF Owed
  <2>3. MaxPerHotel * 0 = 0 /\ Cardinality(Worker) * BatchSize * MaxPerHotel \in Nat
    BY OwedFinite, PhotoAssumption
  <2>. QED
    BY <2>1, <2>2, <2>3, PhotoAssumption DEF BatchFits, SpendBounded, PhotoInit
<1>2. PhotoInv /\ SpendBounded => DayOvershoot
  <2> SUFFICES ASSUME PhotoInv, SpendBounded PROVE DayOvershoot
    OBVIOUS
  <2>1. MaxPerHotel * Cardinality(Owed) \in Nat
        /\ Cardinality(Worker) * BatchSize * MaxPerHotel \in Nat
    BY OwedFinite, PhotoAssumption
  <2>. QED
    BY <2>1, PhotoAssumption DEF SpendBounded, DayOvershoot, PhotoInv, PhotoTypeOK
<1>. QED
  BY <1>1, <1>2, PhotoInitInv, PhotoStepInv, StepDay, StepKeepsSpend, PTL DEF PhotoSpec

============================================================================
