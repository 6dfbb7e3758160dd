---------------------------- MODULE BrowserWorker ----------------------------
(***************************************************************************)
(* The browser worker's run loop (ScraperBackgroundWorker._run_loop) over  *)
(* the shared queue: claim a ZIP, scrape Maps, make the batch durable in   *)
(* the local outbox, reclaim the ZIP, write the hotels, acknowledge; with  *)
(* pause, resume, stop, process crash, lost replies, the inventory guard   *)
(* and calls that outlive the loop that made them.                         *)
(*                                                                         *)
(* Cloud SQL calls run in a thread (asyncio.to_thread).  One step is one   *)
(* such call with what the loop does before its next await; a call that    *)
(* raises a database exception leaves the loop at its head with the same   *)
(* batch (_database_retry).  Cancelling the loop abandons the await, not   *)
(* the thread: the abandoned call may still run, or never.                 *)
(***************************************************************************)
EXTENDS ZipQueue

CONSTANTS
    Results,     \* which outcomes of a scrape this instance has
    Interrupts,  \* which interruptions of a run this instance has
    LossAllowed  \* may the hotel inventory shrink behind the worker's back?

AllResults == { "success",  \* valid records
                "oversize", \* valid, but more new hotels than ZIP_MAX_NEW_HOTELS
                "invalid",  \* records, none of them valid
                "empty",    \* Maps says there are no hotels
                "failed",   \* selector or transport failure
                "blocked" } \* CAPTCHA

AllInterrupts == {"pause", "stop", "crash", "lock lost", "internal error"}

VARIABLES
    worker,    \* per machine, the run loop's state, see WorkerState
    lock,      \* who holds the advisory lock, or Null
    loss,      \* the inventory is below the watermark retained for it
    recorded   \* history: <<batch, outcome>> that Cloud SQL has recorded

queueVars == vars
workerVars == <<worker, lock, loss, recorded>>
bwVars == <<vars, workerVars>>

Entry == Zip \X (Token \cup {Null})

\* _PendingBatch.  stage: failure_recorded, quarantine and quarantine_marked.
PendingBatch ==
    [ zip : Zip, result : AllResults \cup {Null}, entry : Entry \cup {Null},
      stage : {"new", "counted", "quarantine", "marked"} ]

PC == { "off",       \* no run
        "head",      \* top of the loop
        "scrape",    \* Maps is open for the claimed ZIP
        "process",   \* handling the held batch
        "reclaim",   \* flushing an outbox batch: claim its ZIP
        "guard",     \*   validated; inventory check before the write
        "commit",    \*   the result transaction
        "recheck",   \*   inventory check after the commit
        "ack",       \*   mark_delivered
        "condemn",   \*   replay rejected: mark the ZIP quarantined
        "discard",   \*   and the outbox batch
        "exit" }     \* the loop's finally

\* A Cloud SQL call whose loop was cancelled while it ran in its thread: a
\* claim, the reclaim of an outbox batch, or an owned write of a ZIP status.
OrphanCall ==
    [ call : {"claim", "reclaim", "write"}, zip : Zip \cup {Null},
      status : PlacesStatus \cup {Null}, entry : Entry \cup {Null} ]

ASSUME BrowserWorkerAssumption ==
    /\ Results \subseteq AllResults
    /\ Interrupts \subseteq AllInterrupts
    /\ LossAllowed \in BOOLEAN
    /\ Null \notin Entry \cup PendingBatch \cup OrphanCall

WorkerState ==
    [ pc : PC,
      batch   : PendingBatch \cup {Null},   \* the held batch
      entry   : Entry \cup {Null},          \* the outbox batch being flushed
      paused  : BOOLEAN,
      blocked : BOOLEAN,                    \* _inventory_blocked
      zip_failures : [Zip -> 0 .. 2],
      orphan  : OrphanCall \cup {Null} ]

NewProcess ==
    [ pc |-> "off", batch |-> Null, entry |-> Null, paused |-> FALSE,
      blocked |-> FALSE, zip_failures |-> [z \in Zip |-> 0], orphan |-> Null ]

BWTypeOK ==
    /\ TypeOK
    /\ worker \in [Browser -> WorkerState]
    /\ lock \in Browser \cup {Null}
    /\ loss \in BOOLEAN
    /\ recorded \in [Browser -> SUBSET (Entry \X {"delivered", "quarantined"})]

BWInit ==
    /\ Init
    /\ worker = [b \in Browser |-> NewProcess]
    /\ lock = Null
    /\ loss = FALSE
    /\ recorded = [b \in Browser |-> {}]

-----------------------------------------------------------------------------
At(b, pc) == worker[b].pc = pc
Running(b) == worker[b].pc \notin {"off", "exit"}

\* The while loop's `if self._is_paused` is read at its head only.
Ready(b) == At(b, "head") /\ ~worker[b].paused
Idle(b) == Ready(b) /\ worker[b].batch = Null
Processing(b) ==
    /\ worker[b].batch # Null
    /\ At(b, "process") \/ Ready(b)

Step(b, pc) == worker' = [worker EXCEPT ![b].pc = pc]
\* A database or outbox exception: back to the head, the batch is kept.
Retry(b) == worker' = [worker EXCEPT ![b].pc = "head", ![b].entry = Null]
\* `pending = None`
Finished(b) ==
    worker' = [worker EXCEPT ![b].pc = "head", ![b].entry = Null, ![b].batch = Null]
\* _pause_for_inventory_loss
LossPause(b) ==
    worker' = [worker EXCEPT ![b].pc = "head", ![b].entry = Null,
                             ![b].paused = TRUE, ![b].blocked = TRUE]
\* except ZipQuarantined
Quarantine(b) ==
    worker' = [worker EXCEPT ![b].pc = "condemn",
                             ![b].batch = IF @ = Null THEN Null
                                          ELSE [@ EXCEPT !.stage = "quarantine"]]

Recorded(b, e, outcome) ==
    recorded' = [recorded EXCEPT ![b] = IF e = Null THEN @ ELSE @ \cup {<<e, outcome>>}]

-----------------------------------------------------------------------------
(* Operator controls and process failures                                  *)

\* start: refused while the inventory is short of its history, and while
\* another session holds the advisory lock.  _zip_claims is not reset.
Start(b) ==
    /\ At(b, "off") /\ lock = Null /\ ~loss
    /\ lock' = b
    /\ worker' = [worker EXCEPT ![b].pc = "head", ![b].paused = FALSE,
                                ![b].blocked = FALSE]
    /\ UNCHANGED <<vars, loss, recorded>>

Pause(b) ==
    /\ "pause" \in Interrupts
    /\ Running(b) /\ ~worker[b].paused
    /\ worker' = [worker EXCEPT ![b].paused = TRUE]
    /\ UNCHANGED <<vars, lock, loss, recorded>>

\* Mutant of Resume: a healthy count is enough to go on after a loss.
ResumeUnreviewed(b) ==
    /\ Running(b) /\ worker[b].paused
    /\ ~loss
    /\ worker' = [worker EXCEPT ![b].paused = FALSE]
    /\ UNCHANGED <<vars, lock, loss, recorded>>

\* start on a paused worker
Resume(b) ==
    /\ Running(b) /\ worker[b].paused
    /\ ~loss /\ ~worker[b].blocked
    /\ worker' = [worker EXCEPT ![b].paused = FALSE]
    /\ UNCHANGED <<vars, lock, loss, recorded>>

ResumeRefused(b) ==
    /\ Running(b) /\ worker[b].paused /\ loss
    /\ worker' = [worker EXCEPT ![b].blocked = TRUE]
    /\ UNCHANGED <<vars, lock, loss, recorded>>

Call(call, zip, status, entry) ==
    [call |-> call, zip |-> zip, status |-> status, entry |-> entry]

\* The Cloud SQL call the loop may be waiting for.
CallsInFlight(b) ==
    LET w == worker[b] IN
    CASE Idle(b) /\ outbox_claims[b] = {} -> {Call("claim", Null, Null, Null)}
      [] At(b, "reclaim") -> {Call("reclaim", Null, Null, w.entry)}
      [] At(b, "commit")  -> {Call("write", w.entry[1], "done", w.entry)}
      [] At(b, "condemn") ->
            {Call("write", IF w.entry = Null THEN w.batch.zip ELSE w.entry[1],
                  "quarantined", w.entry)}
      [] Processing(b) /\ w.batch.result = "empty" ->
            {Call("write", w.batch.zip, "done", Null)}
      [] Processing(b) /\ w.batch.result = "failed" /\ w.batch.stage = "counted" ->
            {Call("write", w.batch.zip, "error", Null)}
      [] OTHER -> {}

\* stop cancels the loop's task at whatever it awaits.
Stop(b) ==
    /\ "stop" \in Interrupts
    /\ Running(b)
    /\ \E orphan \in {worker[b].orphan} \cup CallsInFlight(b) :
          worker' = [worker EXCEPT ![b].pc = "exit", ![b].batch = Null,
                                   ![b].entry = Null, ![b].paused = FALSE,
                                   ![b].orphan = orphan]
    /\ UNCHANGED <<vars, lock, loss, recorded>>

\* The loop's finally: release the claims (or log that recovery will), then
\* the lock.
Exit(b) ==
    /\ At(b, "exit")
    /\ ReleaseZipClaims(b) \/ (FALSE \in Replies /\ UNCHANGED vars)
    /\ Step(b, "off")
    /\ lock' = IF lock = b THEN Null ELSE lock
    /\ UNCHANGED <<loss, recorded>>

Crash(b) ==
    /\ "crash" \in Interrupts
    /\ BrowserDown(b)
    /\ worker' = [worker EXCEPT ![b] = NewProcess]
    /\ lock' = IF lock = b THEN Null ELSE lock
    /\ UNCHANGED <<loss, recorded>>

\* The connection that holds the advisory lock drops; nobody looks at it.
LoseLock(b) ==
    /\ "lock lost" \in Interrupts
    /\ lock = b
    /\ lock' = Null
    /\ UNCHANGED <<vars, worker, loss, recorded>>

\* The abandoned thread's transaction happens after all.
RunOrphan(b) ==
    LET o == worker[b].orphan IN
    /\ o # Null
    /\ \/ /\ o.call = "claim"
          /\ \E z \in Zip, t \in Token, reply \in Replies : ClaimNextZip(b, z, t, reply)
          /\ UNCHANGED recorded
       \/ /\ o.call = "reclaim"
          /\ \E t \in Token, reply \in Replies : ClaimOutboxZip(b, o.entry, t, reply)
          /\ UNCHANGED recorded
       \/ /\ o.call = "write"
          /\ \E reply \in Replies : SetZipState(b, o.zip, o.status, reply)
          /\ Recorded(b, IF o.entry \in outbox_claims[b] THEN o.entry ELSE Null,
                      IF o.status = "done" THEN "delivered" ELSE "quarantined")
    /\ worker' = [worker EXCEPT ![b].orphan = Null]
    /\ UNCHANGED <<lock, loss>>

\* Or it raised, or had ended before the cancellation.
DropOrphan(b) ==
    /\ worker[b].orphan # Null
    /\ worker' = [worker EXCEPT ![b].orphan = Null]
    /\ UNCHANGED <<vars, lock, loss, recorded>>

-----------------------------------------------------------------------------
(* The loop: take work                                                     *)

\* _lease_heartbeat_loop
Heartbeat(b) ==
    /\ Running(b)
    /\ HeartbeatClaims(b)
    /\ UNCHANGED workerVars

\* _flush_one_outbox_batch: durable batches come before any new ZIP.
TakeOutboxBatch(b) ==
    /\ Idle(b)
    /\ \E e \in outbox_claims[b] :
          worker' = [worker EXCEPT ![b].pc = "reclaim", ![b].entry = e]
    /\ UNCHANGED <<vars, lock, loss, recorded>>

\* Mutant of ClaimNext: new ZIPs are scraped while durable batches wait.
ClaimAhead(b) ==
    /\ Idle(b)
    /\ \E z \in Zip, t \in Token, reply \in Replies :
          /\ ClaimNextZip(b, z, t, reply)
          /\ worker' = IF reply
                       THEN [worker EXCEPT ![b].pc = "scrape",
                                ![b].batch = [zip |-> z, result |-> Null,
                                              entry |-> Null, stage |-> "new"]]
                       ELSE worker
    /\ UNCHANGED <<lock, loss, recorded>>

\* _next_zip_sync
ClaimNext(b) ==
    /\ Idle(b) /\ outbox_claims[b] = {}
    /\ \E z \in Zip, t \in Token, reply \in Replies :
          /\ ClaimNextZip(b, z, t, reply)
          /\ worker' = IF reply
                       THEN [worker EXCEPT ![b].pc = "scrape",
                                ![b].batch = [zip |-> z, result |-> Null,
                                              entry |-> Null, stage |-> "new"]]
                       ELSE worker
    /\ UNCHANGED <<lock, loss, recorded>>

\* _scrape_maps
ScrapeMaps(b) ==
    /\ At(b, "scrape")
    /\ \E r \in Results :
          worker' = [worker EXCEPT ![b].pc = "process", ![b].batch.result = r]
    /\ UNCHANGED <<vars, lock, loss, recorded>>

-----------------------------------------------------------------------------
(* The loop: process the held batch                                        *)

\* _handle_success up to the flush: make the batch durable, once.
PersistBatch(b) ==
    LET p == worker[b].batch
        e == <<p.zip, zip_claims[b][p.zip]>> IN
    /\ Processing(b) /\ p.stage = "new" /\ p.result \in {"success", "oversize"}
    /\ \/ /\ p.entry = Null
          /\ EnqueueOutboxBatch(b, p.zip)
          /\ worker' = [worker EXCEPT ![b].pc = "reclaim", ![b].entry = e,
                                      ![b].batch.entry = e]
       \/ /\ p.entry # Null
          /\ worker' = [worker EXCEPT ![b].pc = "reclaim", ![b].entry = p.entry]
          /\ UNCHANGED vars
    /\ UNCHANGED <<lock, loss, recorded>>

\* Every record invalid, or an explicit empty for a ZIP that has hotels.
RejectBatch(b) ==
    /\ Processing(b) /\ worker[b].batch.stage = "new"
    /\ worker[b].batch.result \in {"invalid", "empty"}
    /\ Quarantine(b)
    /\ UNCHANGED <<vars, lock, loss, recorded>>

\* _handle_explicit_empty without historical hotels
FinishEmpty(b) ==
    LET p == worker[b].batch IN
    /\ Processing(b) /\ p.stage = "new" /\ p.result = "empty"
    /\ \E reply \in Replies :
          /\ SetZipState(b, p.zip, "done", reply)
          /\ IF reply
             THEN worker' = [worker EXCEPT ![b].pc = "head", ![b].batch = Null,
                                           ![b].zip_failures[p.zip] = 0]
             ELSE Retry(b)
    /\ UNCHANGED <<lock, loss, recorded>>

\* _handle_scrape_failure: count the failure once per batch.
CountFailure(b) ==
    LET p == worker[b].batch IN
    /\ Processing(b) /\ p.stage = "new" /\ p.result \in {"failed", "blocked"}
    /\ worker' = [worker EXCEPT ![b].pc = "process", ![b].batch.stage = "counted",
                                ![b].zip_failures[p.zip] = IF @ < 2 THEN @ + 1 ELSE @]
    /\ UNCHANGED <<vars, lock, loss, recorded>>

Parks(b) ==
    LET p == worker[b].batch IN
    p.result # "blocked" /\ worker[b].zip_failures[p.zip] >= 2

ParkFailure(b) ==
    LET p == worker[b].batch IN
    /\ Processing(b) /\ p.stage = "counted" /\ Parks(b)
    /\ \E reply \in Replies :
          /\ SetZipState(b, p.zip, "error", reply)
          /\ IF reply
             THEN worker' = [worker EXCEPT ![b].pc = "head", ![b].batch = Null,
                                           ![b].zip_failures[p.zip] = 0]
             ELSE Retry(b)
    /\ UNCHANGED <<lock, loss, recorded>>

\* A first failure or a CAPTCHA: back off, drop the batch, keep the claim.
DropFailure(b) ==
    /\ Processing(b) /\ worker[b].batch.stage = "counted" /\ ~Parks(b)
    /\ Finished(b)
    /\ UNCHANGED <<vars, lock, loss, recorded>>

\* `except Exception` around the batch: an error that is neither the database's
\* nor the outbox's turns the held batch into a transport failure.  What it
\* already put in the outbox stays there.
ProcessingError(b) ==
    /\ "internal error" \in Interrupts
    /\ worker[b].batch # Null
    /\ worker[b].pc \in {"process", "reclaim", "commit", "ack"}
    /\ worker[b].batch.stage = "new"
    /\ worker[b].batch.result \notin {"failed", "blocked"}
    /\ worker' = [worker EXCEPT ![b].pc = "process", ![b].entry = Null,
                                ![b].batch.result = "failed"]
    /\ UNCHANGED <<vars, lock, loss, recorded>>

\* pending.quarantine is set: _quarantine again, from where it failed.
RetryQuarantine(b) ==
    LET p == worker[b].batch IN
    /\ Processing(b) /\ p.stage \in {"quarantine", "marked"}
    /\ worker' = [worker EXCEPT ![b].entry = p.entry,
                     ![b].pc = IF p.stage = "marked" THEN "discard" ELSE "condemn"]
    /\ UNCHANGED <<vars, lock, loss, recorded>>

-----------------------------------------------------------------------------
(* The loop: flush an outbox batch, held or replayed                       *)

Reclaim(b) ==
    /\ At(b, "reclaim")
    /\ \E t \in Token, reply \in Replies :
          /\ ClaimOutboxZip(b, worker[b].entry, t, reply)
          /\ IF reply THEN Step(b, "guard") ELSE Retry(b)
    /\ UNCHANGED <<lock, loss, recorded>>

\* _assert_inventory_safe("before_result_save")
GuardBefore(b) ==
    /\ At(b, "guard")
    /\ IF loss THEN LossPause(b) ELSE Step(b, "commit")
    /\ UNCHANGED <<vars, lock, loss, recorded>>

\* The transaction of _save_results.  The guard's read was another session's.
CommitResults(b) ==
    LET w == worker[b] IN
    /\ At(b, "commit")
    /\ w.batch # Null => w.batch.result # "oversize"
    /\ \E reply \in Replies :
          /\ SetZipState(b, w.entry[1], "done", reply)
          /\ IF reply THEN Step(b, "recheck") ELSE Retry(b)
    /\ Recorded(b, w.entry, "delivered")
    /\ UNCHANGED <<lock, loss>>

\* It would create too many hotels, or a replay no longer validates.
RejectResults(b) ==
    LET w == worker[b] IN
    /\ At(b, "commit") /\ Owned(b, w.entry[1])
    /\ "oversize" \in Results
    /\ w.batch # Null => w.batch.result = "oversize"
    /\ Quarantine(b)
    /\ UNCHANGED <<vars, lock, loss, recorded>>

\* _assert_inventory_safe("after_result_commit")
GuardAfter(b) ==
    /\ At(b, "recheck")
    /\ IF loss THEN LossPause(b) ELSE Step(b, "ack")
    /\ UNCHANGED <<vars, lock, loss, recorded>>

\* The batch leaves the outbox for good.
Settled(b, e) ==
    /\ SettleOutboxBatch(b, e)
    /\ recorded' = [recorded EXCEPT ![b] = @ \ ({e} \X {"delivered", "quarantined"})]

\* mark_delivered; a batch the loop held also clears its failure count.
Acknowledge(b) ==
    LET w == worker[b]
        z == w.entry[1] IN
    /\ At(b, "ack")
    /\ Settled(b, w.entry)
    /\ worker' = [worker EXCEPT ![b].pc = "head", ![b].entry = Null, ![b].batch = Null,
                     ![b].zip_failures[z] = IF w.batch = Null THEN @ ELSE 0]
    /\ UNCHANGED <<lock, loss>>

\* _mark_zip_quarantined
CondemnZip(b) ==
    LET w == worker[b]
        z == IF w.entry = Null THEN w.batch.zip ELSE w.entry[1] IN
    /\ At(b, "condemn")
    /\ \E reply \in Replies :
          /\ SetZipState(b, z, "quarantined", reply)
          /\ IF ~reply THEN Retry(b)
             ELSE IF w.entry = Null
             THEN worker' = [worker EXCEPT ![b].pc = "head", ![b].batch = Null,
                                           ![b].zip_failures[z] = 0]
             ELSE worker' = [worker EXCEPT ![b].pc = "discard",
                                ![b].batch = IF @ = Null THEN Null
                                             ELSE [@ EXCEPT !.stage = "marked"]]
    /\ Recorded(b, w.entry, "quarantined")
    /\ UNCHANGED <<lock, loss>>

\* mark_quarantined
DiscardBatch(b) ==
    LET w == worker[b]
        z == w.entry[1] IN
    /\ At(b, "discard")
    /\ Settled(b, w.entry)
    /\ worker' = [worker EXCEPT ![b].pc = "head", ![b].entry = Null, ![b].batch = Null,
                     ![b].zip_failures[z] = IF w.batch = Null THEN @ ELSE 0]
    /\ UNCHANGED <<lock, loss>>

\* The ZIP of outbox batch e is in progress under a claim that is not e's.  A
\* batch without a claim_token has none.
OthersClaim(e) ==
    /\ InProgress(zips[e[1]])
    /\ e[2] = Null \/ zips[e[1]].last_error # e[2]

\* A call raised before it changed anything: the ZIP is somebody else's, the
\* lease is lost, or the connection or the local file failed.
CallFails(b) ==
    LET w == worker[b]
        refused ==
            \/ At(b, "reclaim") /\ OthersClaim(w.entry)
            \/ At(b, "commit") /\ ~Owned(b, w.entry[1])
            \/ At(b, "condemn") /\ ~Owned(b, IF w.entry = Null THEN w.batch.zip
                                             ELSE w.entry[1])
            \/ /\ At(b, "process")
               /\ w.batch.result = "empty" \/ (w.batch.stage = "counted" /\ Parks(b))
               /\ ~Owned(b, w.batch.zip)
    IN
    /\ w.pc \in {"process", "reclaim", "guard", "commit", "recheck", "ack",
                 "condemn", "discard"}
    /\ refused \/ FALSE \in Replies
    /\ Retry(b)
    /\ UNCHANGED <<vars, lock, loss, recorded>>

-----------------------------------------------------------------------------
(* Surroundings                                                            *)

InventoryShrinks ==
    /\ LossAllowed /\ ~loss
    /\ loss' = TRUE
    /\ UNCHANGED <<vars, worker, lock, recorded>>

\* Restored, or accepted by an operator's inventory checkpoint.
InventoryReviewed ==
    /\ loss
    /\ loss' = FALSE
    /\ UNCHANGED <<vars, worker, lock, recorded>>

\* Time is counted in fractions of the thirty-minute lease; every statement
\* has a timeout far below that, so an abandoned call ends within a tick.
TimePasses ==
    /\ \A b \in Browser : worker[b].orphan = Null
    /\ Tick
    /\ UNCHANGED workerVars

Control(b) ==
    \/ Start(b) \/ Pause(b) \/ Resume(b) \/ ResumeRefused(b) \/ Stop(b) \/ Exit(b)
    \/ Crash(b) \/ LoseLock(b) \/ RunOrphan(b) \/ DropOrphan(b)
    \/ ProcessingError(b)

Loop(b) ==
    \/ TakeOutboxBatch(b) \/ ClaimNext(b) \/ ScrapeMaps(b)
    \/ PersistBatch(b) \/ RejectBatch(b) \/ FinishEmpty(b) \/ CountFailure(b)
    \/ ParkFailure(b) \/ DropFailure(b) \/ RetryQuarantine(b)
    \/ Reclaim(b) \/ GuardBefore(b) \/ CommitResults(b) \/ RejectResults(b)
    \/ GuardAfter(b) \/ Acknowledge(b) \/ CondemnZip(b) \/ DiscardBatch(b)
    \/ CallFails(b)

BWNext ==
    \/ \E b \in Browser : Control(b) \/ Loop(b) \/ Heartbeat(b)
    \/ (TableStep \/ \E v \in Vm : VmStep(v)) /\ UNCHANGED workerVars
    \/ TimePasses
    \/ InventoryShrinks \/ InventoryReviewed

BWSpec == BWInit /\ [][BWNext]_bwVars

-----------------------------------------------------------------------------
(* Properties                                                              *)

\* The run loop keeps the outbox's promise: whatever is interrupted, lost or
\* repeated, a durable batch is settled only after Cloud SQL holds its
\* outcome, is never dropped, and no new batch is made while one waits.
Delivery == INSTANCE BatchDelivery
                WITH Machine <- Browser, Batch <- Entry,
                     queue <- outbox_claims, recorded <- recorded
KeepsDelivery == Delivery!Spec

\* "A data-loss pause is intentionally sticky": a run whose inventory guard
\* saw a shortfall does not take up work again, whatever an operator clicks.
LossPauseSticky ==
    \A b \in Browser : worker[b].blocked /\ At(b, "head") => worker[b].paused

\* The loop, its heartbeat task and its shutdown keep running, an operator
\* starts a stopped worker and resumes a paused one, and time passes.
BWFairness ==
    /\ WF_bwVars(TimePasses)
    /\ \A b \in Browser :
          /\ WF_bwVars(Loop(b)) /\ WF_bwVars(Heartbeat(b)) /\ WF_bwVars(Exit(b))
          /\ WF_bwVars(Start(b)) /\ WF_bwVars(Resume(b))
          /\ WF_bwVars(DropOrphan(b))

FairBWSpec == BWSpec /\ BWFairness

\* From some point on nobody pauses or stops this worker and it stays alive.
Undisturbed(b) == <>[][~Pause(b) /\ ~Stop(b) /\ ~Crash(b)]_bwVars

\* A batch that reached the disk is delivered or set aside in the end.
DurableBatchSettled ==
    \A b \in Browser : Undisturbed(b) =>
        \A e \in Entry : e \in outbox_claims[b] ~> e \notin outbox_claims[b]

=============================================================================
