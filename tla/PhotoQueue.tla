----------------------------- MODULE PhotoQueue -----------------------------
(***************************************************************************)
(* The photo resolver of the hotel crawler: the photos_status column of    *)
(* `hotels` as a queue (db.mjs) and the workers that drain it in batches   *)
(* under a daily budget (photos-worker.mjs).  A crawl of a ZIP may re-open *)
(* a settled row at any time (upsertHotel).                                *)
(*                                                                         *)
(* One action is one database call with what the worker does on its        *)
(* return.  A row's age is the time since photos_fetched_at, in ticks.     *)
(***************************************************************************)
EXTENDS Integers, FiniteSets

CONSTANTS
    Hotel,         \* rows with a place_id
    Worker,        \* photos-worker processes
    BatchSize,     \* photos.batchSize
    MaxPerHotel,   \* media fetches one hotel may cost
    DailyBudget,   \* dailyBudgetUsd, in media fetches; 0 is no cap
    StaleAfter,    \* requeueStalePhotos: in_progress for 30 minutes, in ticks
    RetryAfter,    \* requeueStalePhotos: error for 180 minutes
    RefreshAfter,  \* claimPhotoBatch: done for refreshAfterDays
    FaultBound,    \* bound on the crashes and failed database calls of a behaviour
    UpsertBound,   \* bound on the rows a crawl re-opens
    None

ASSUME PhotoAssumption ==
    /\ IsFiniteSet(Hotel) /\ IsFiniteSet(Worker) /\ None \notin Hotel
    /\ BatchSize \in Nat \ {0} /\ MaxPerHotel \in Nat /\ DailyBudget \in Nat
    /\ StaleAfter \in Nat \ {0} /\ RetryAfter \in Nat /\ RefreshAfter \in Nat
    /\ StaleAfter <= RetryAfter /\ RetryAfter <= RefreshAfter
    /\ FaultBound \in Nat /\ UpsertBound \in Nat

VARIABLES
    photos_status,  \* per hotel
    age,            \* per hotel: ticks since photos_fetched_at, up to RefreshAfter
    pc,             \* per worker: where its loop stands
    batch,          \* per worker: claimed rows it has not reached yet
    current,        \* per worker: the row it is resolving, or None
    since,          \* per worker: ticks since its claim, up to StaleAfter
    media_fetches,  \* today's row of photo_spend
    overran,        \* history: some batch has outlived StaleAfter
    faults,         \* crashes and failed calls so far
    upserts         \* rows re-opened by a crawl so far

rowVars   == <<photos_status, age>>
photoVars == <<rowVars, pc, batch, current, since, media_fetches, overran,
               faults, upserts>>

Settled == {"done", "none", "error"}

PhotoTypeOK ==
    /\ photos_status \in [Hotel -> {"pending", "in_progress"} \cup Settled]
    /\ age \in [Hotel -> 0..RefreshAfter]
    /\ pc \in [Worker -> {"down", "loop", "claim", "batch", "record", "write", "catch"}]
    /\ batch \in [Worker -> SUBSET Hotel]
    /\ current \in [Worker -> Hotel \cup {None}]
    /\ since \in [Worker -> 0..StaleAfter]
    /\ media_fetches \in Nat
    /\ overran \in BOOLEAN
    /\ faults \in 0..FaultBound /\ upserts \in 0..UpsertBound

PhotoInit ==
    /\ photos_status \in [Hotel -> {"pending", "done"}]
    /\ age = [h \in Hotel |-> RefreshAfter]
    /\ pc = [w \in Worker |-> "down"]
    /\ batch = [w \in Worker |-> {}]
    /\ current = [w \in Worker |-> None]
    /\ since = [w \in Worker |-> 0]
    /\ media_fetches = 0 /\ overran = FALSE /\ faults = 0 /\ upserts = 0

\* Worker w's loop goes on at l.
Goto(w, l) == pc' = [pc EXCEPT ![w] = l]

\* Hotel h's row gets a status and a fresh photos_fetched_at.
Stamp(h, status) ==
    /\ photos_status' = [photos_status EXCEPT ![h] = status]
    /\ age' = [age EXCEPT ![h] = 0]

\* A crash, or a failed call of the database.
Fault == faults < FaultBound /\ faults' = faults + 1

-----------------------------------------------------------------------------
(* The queue                                                               *)

\* Mutant of Stale: claims of any age.
StaleAtOnce(h) ==
    \/ photos_status[h] = "in_progress"
    \/ photos_status[h] = "error" /\ age[h] >= RetryAfter

\* Mutant of Stale: errors only.
StaleErrors(h) == photos_status[h] = "error" /\ age[h] >= RetryAfter

\* requeueStalePhotos: crashed claims and old errors become pending.
Stale(h) ==
    \/ photos_status[h] = "in_progress" /\ age[h] >= StaleAfter
    \/ photos_status[h] = "error" /\ age[h] >= RetryAfter

requeueStalePhotos ==
    photos_status' = [h \in Hotel |-> IF Stale(h) THEN "pending" ELSE photos_status[h]]

\* Phase 1, the rows never resolved; phase 2, when there are none, the aged.
Pending == {h \in Hotel : photos_status[h] = "pending"}
Aged    == {h \in Hotel : photos_status[h] = "done" /\ age[h] >= RefreshAfter}
Claimable == IF Pending # {} THEN Pending ELSE Aged

\* claimPhotoBatch may pick these: as many as the limit lets it.  The order of
\* the picks (most reviews first, or oldest first) is left open.
Pick(rows) ==
    /\ rows \subseteq Claimable
    /\ Cardinality(rows) <= BatchSize
    /\ rows = Claimable \/ Cardinality(rows) = BatchSize

-----------------------------------------------------------------------------
(* The worker                                                              *)

\* main() up to the loop: ping, then requeueStalePhotos.
Start(w) ==
    /\ pc[w] = "down"
    /\ Goto(w, "loop")
    /\ requeueStalePhotos
    /\ UNCHANGED <<age, batch, current, since, media_fetches, overran, faults, upserts>>

\* Mutant of CheckBudget: claim without a look at the day's spend.
CheckNothing(w) ==
    /\ pc[w] = "loop"
    /\ Goto(w, "claim")
    /\ UNCHANGED <<rowVars, batch, current, since, media_fetches, overran, faults, upserts>>

\* getPhotoSpend is under the ceiling.  Above it the worker sleeps and reads
\* again; nothing changes then.
CheckBudget(w) ==
    /\ pc[w] = "loop"
    /\ DailyBudget > 0 => media_fetches < DailyBudget
    /\ Goto(w, "claim")
    /\ UNCHANGED <<rowVars, batch, current, since, media_fetches, overran, faults, upserts>>

\* Ten minutes since the last time: requeueStalePhotos again.
RequeueStep(w) ==
    /\ pc[w] = "claim" /\ \E h \in Hotel : Stale(h)
    /\ requeueStalePhotos
    /\ UNCHANGED <<age, pc, batch, current, since, media_fetches, overran, faults, upserts>>

\* claimPhotoBatch returns rows.
Claim(w, rows) ==
    /\ pc[w] = "claim" /\ rows # {} /\ Pick(rows)
    /\ photos_status' = [h \in Hotel |-> IF h \in rows THEN "in_progress" ELSE photos_status[h]]
    /\ age' = [h \in Hotel |-> IF h \in rows THEN 0 ELSE age[h]]
    /\ batch' = [batch EXCEPT ![w] = rows]
    /\ since' = [since EXCEPT ![w] = 0]
    /\ Goto(w, "batch")
    /\ UNCHANGED <<current, media_fetches, overran, faults, upserts>>

\* It returns none, or throws: the worker waits and starts over.
ClaimNothing(w) ==
    /\ pc[w] = "claim"
    /\ (Claimable = {} /\ UNCHANGED faults) \/ Fault
    /\ Goto(w, "loop")
    /\ UNCHANGED <<rowVars, batch, current, since, media_fetches, overran, upserts>>

\* The next row of the batch: resolveHotelPhotos begins its paid fetches.
NextHotel(w, h) ==
    /\ pc[w] = "batch" /\ h \in batch[w]
    /\ batch' = [batch EXCEPT ![w] = @ \ {h}]
    /\ current' = [current EXCEPT ![w] = h]
    /\ Goto(w, "record")
    /\ UNCHANGED <<rowVars, since, media_fetches, overran, faults, upserts>>

\* It has returned (next: "write") or thrown ("catch"), and recordPhotoSpend
\* adds what Google billed; n is 0 too when that write fails, for its error
\* is swallowed.
RecordSpend(w, n, next) ==
    /\ pc[w] = "record"
    /\ media_fetches' = media_fetches + n
    /\ Goto(w, next)
    /\ UNCHANGED <<rowVars, batch, current, since, overran, faults, upserts>>

\* The row is finished with, and so is the batch when it was the last.
Done(w) ==
    /\ current' = [current EXCEPT ![w] = None]
    /\ Goto(w, IF batch[w] = {} THEN "loop" ELSE "batch")
    /\ since' = [since EXCEPT ![w] = IF batch[w] = {} THEN 0 ELSE @]

\* savePhotos or markPhotosNone, WHERE id = $1 and nothing else.
Save(w, status) ==
    /\ pc[w] = "write"
    /\ Stamp(current[w], status)
    /\ Done(w)
    /\ UNCHANGED <<batch, media_fetches, overran, faults, upserts>>

\* That write fails, and the catch block is next.
SaveFails(w) ==
    /\ pc[w] = "write" /\ Fault
    /\ Goto(w, "catch")
    /\ UNCHANGED <<rowVars, batch, current, since, media_fetches, overran, upserts>>

\* markPhotosError.
MarkError(w) ==
    /\ pc[w] = "catch"
    /\ Stamp(current[w], "error")
    /\ Done(w)
    /\ UNCHANGED <<batch, media_fetches, overran, faults, upserts>>

\* A failure of it is swallowed, and the row stays as it was.
MarkErrorFails(w) ==
    /\ pc[w] = "catch" /\ Fault
    /\ Done(w)
    /\ UNCHANGED <<rowVars, batch, media_fetches, overran, upserts>>

\* The process is killed, or stops between two rows of its batch.
Crash(w) ==
    /\ pc[w] # "down" /\ Fault
    /\ Goto(w, "down")
    /\ batch' = [batch EXCEPT ![w] = {}]
    /\ current' = [current EXCEPT ![w] = None]
    /\ since' = [since EXCEPT ![w] = 0]
    /\ UNCHANGED <<rowVars, media_fetches, overran, upserts>>

-----------------------------------------------------------------------------
(* The surroundings                                                        *)

\* upsertHotel brings photo refs for a row the resolver had given up on.
Upsert(h) ==
    /\ photos_status[h] \in {"none", "error"} /\ upserts < UpsertBound
    /\ photos_status' = [photos_status EXCEPT ![h] = "pending"]
    /\ upserts' = upserts + 1
    /\ UNCHANGED <<age, pc, batch, current, since, media_fetches, overran, faults>>

\* A worker's claims that it has not settled yet.
Holding(w) == batch[w] \cup ({current[w]} \ {None})

Older(n, bound) == IF n < bound THEN n + 1 ELSE n

Tick ==
    /\ age' = [h \in Hotel |-> Older(age[h], RefreshAfter)]
    /\ since' = [w \in Worker |-> IF Holding(w) = {} THEN 0 ELSE Older(since[w], StaleAfter)]
    /\ overran' = (overran \/ \E w \in Worker : since'[w] = StaleAfter)
    /\ UNCHANGED <<photos_status, pc, batch, current, media_fetches, faults, upserts>>

\* UTC midnight: photo_spend has no row for the new day yet.
Midnight ==
    /\ media_fetches > 0 /\ media_fetches' = 0
    /\ UNCHANGED <<rowVars, pc, batch, current, since, overran, faults, upserts>>

WorkerStep(w) ==
    \/ Start(w) \/ CheckBudget(w) \/ RequeueStep(w) \/ ClaimNothing(w)
    \/ \E rows \in SUBSET Hotel : Claim(w, rows)
    \/ \E h \in Hotel : NextHotel(w, h)
    \/ \E n \in 0..MaxPerHotel, next \in {"write", "catch"} : RecordSpend(w, n, next)
    \/ \E status \in {"done", "none"} : Save(w, status)
    \/ SaveFails(w) \/ MarkError(w) \/ MarkErrorFails(w)

PhotoNext ==
    \/ \E w \in Worker : WorkerStep(w) \/ Crash(w)
    \/ \E h \in Hotel : Upsert(h)
    \/ Tick \/ Midnight

PhotoSpec == PhotoInit /\ [][PhotoNext]_photoVars

\* systemd restarts a worker, time passes, and a worker's calls return; the
\* ten minutes between two requeues do pass.
FairPhotoSpec ==
    /\ PhotoSpec
    /\ WF_photoVars(Tick) /\ WF_photoVars(Midnight)
    /\ \A w \in Worker : WF_photoVars(WorkerStep(w)) /\ SF_photoVars(RequeueStep(w))

-----------------------------------------------------------------------------
(* Properties                                                              *)

\* As long as no batch has outlived the half hour after which its claims look
\* crashed, no hotel is held, and paid for, by two workers, whatever crashes,
\* failed writes, requeues and crawls happen (claimPhotoBatch,
\* requeueStalePhotos, upsertHotel).
ClaimsExclusive ==
    ~overran => \A v, w \in Worker : v # w => Holding(v) \cap Holding(w) = {}

\* The daily ceiling is read before a batch is claimed and spent during it: a
\* day's spend may exceed it by what one batch of each worker costs, no more
\* (photos-worker.mjs main, recordPhotoSpend).
DayOvershoot ==
    DailyBudget > 0 => media_fetches < DailyBudget + Cardinality(Worker) * BatchSize * MaxPerHotel

\* A hotel waiting for photos, or claimed by a worker that died, is settled in
\* the end: kill and restart resume, budget pauses end, swallowed errors are
\* repaired by the periodic requeue (requeueStalePhotos).
PhotosSettle ==
    \A h \in Hotel :
        photos_status[h] \in {"pending", "in_progress"} ~> photos_status[h] \in Settled
=============================================================================
