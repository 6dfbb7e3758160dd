------------------------ MODULE BrowserWorkerProofs ------------------------
(***************************************************************************)
(* Proofs about the run loop of BrowserWorker, for any ZIPs, machines,     *)
(* crawlers, markers, outcomes and interruptions: it implements ZipQueue,  *)
(* whose theorems therefore hold of it, and it keeps the promise of        *)
(* BatchDelivery.  What is inductive is what the loop holds at each of its *)
(* steps (LoopShape).                                                      *)
(***************************************************************************)
EXTENDS BrowserWorker, ZipQueueProofs

WorkerType == worker \in [Browser -> WorkerState]

\* An outbox batch in hand is on disk; a held batch is on disk or the disk is empty.
OnDisk(b) ==
    /\ worker[b].entry # Null => worker[b].entry \in outbox_claims[b]
    /\ worker[b].batch # Null /\ worker[b].batch.entry # Null =>
          worker[b].batch.entry \in outbox_claims[b]
    /\ worker[b].batch # Null /\ worker[b].batch.entry = Null => outbox_claims[b] = {}

\* What the loop has in hand at each of its steps.
InHand(b) ==
    /\ worker[b].pc \in {"reclaim", "guard", "commit", "recheck", "ack", "discard"} =>
          worker[b].entry # Null
    /\ worker[b].pc = "condemn" => worker[b].entry # Null \/ worker[b].batch # Null
    /\ worker[b].pc \in {"scrape", "process"} => worker[b].batch # Null
    /\ worker[b].pc \in {"off", "exit", "head", "scrape", "process"} => worker[b].entry = Null
    /\ worker[b].batch # Null /\ worker[b].entry # Null =>
          worker[b].batch.entry = worker[b].entry

\* What Cloud SQL holds by then.
Written(b) ==
    /\ worker[b].pc \in {"recheck", "ack"} => <<worker[b].entry, "delivered">> \in recorded[b]
    /\ worker[b].pc = "discard" => <<worker[b].entry, "quarantined">> \in recorded[b]
    /\ worker[b].batch # Null /\ worker[b].batch.stage = "marked" =>
          /\ worker[b].batch.entry # Null
          /\ <<worker[b].batch.entry, "quarantined">> \in recorded[b]

\* A run that saw a shortfall is paused.
Sticky(b) ==
    worker[b].blocked /\ worker[b].pc \notin {"off", "exit"} => worker[b].paused

OrphanShape(b) ==
    worker[b].orphan # Null /\ worker[b].orphan.call = "write" =>
        worker[b].orphan.zip \in Zip /\ worker[b].orphan.status \in {"done", "error", "quarantined"}

LoopShape(b) == OnDisk(b) /\ InHand(b) /\ Written(b) /\ Sticky(b) /\ OrphanShape(b)

BWInv == BWTypeOK /\ \A b \in Browser : LoopShape(b)

-----------------------------------------------------------------------------
(* Types                                                                   *)

LEMMA NullIsNone ==
    /\ \A e \in Entry : e # Null /\ e[1] \in Zip
    /\ \A p \in PendingBatch : p # Null
    /\ \A o \in OrphanCall : o # Null
  BY BrowserWorkerAssumption DEF Entry

LEMMA EntryPair == \A z \in Zip, t \in Token \cup {Null} : <<z, t>> \in Entry
  BY DEF Entry

LEMMA Fields ==
    ASSUME WorkerType, NEW b \in Browser
    PROVE  /\ worker[b] \in WorkerState /\ worker[b].pc \in PC
           /\ worker[b].batch \in PendingBatch \cup {Null}
           /\ worker[b].entry \in Entry \cup {Null}
           /\ worker[b].paused \in BOOLEAN /\ worker[b].blocked \in BOOLEAN
           /\ worker[b].zip_failures \in [Zip -> 0 .. 2]
           /\ worker[b].orphan \in OrphanCall \cup {Null}
  BY DEF WorkerType, WorkerState

LEMMA BatchFields ==
    ASSUME NEW p \in PendingBatch
    PROVE  /\ p.zip \in Zip /\ p.result \in AllResults \cup {Null}
           /\ p.entry \in Entry \cup {Null}
           /\ p.stage \in {"new", "counted", "quarantine", "marked"}
  BY DEF PendingBatch

\* Machine b's loop is at pc with a batch and an outbox batch in hand.
Becomes(b, pc, batch, entry, paused, blocked, orphan) ==
    /\ worker' \in [Browser -> WorkerState]
    /\ worker'[b].pc = pc /\ worker'[b].batch = batch /\ worker'[b].entry = entry
    /\ worker'[b].paused = paused /\ worker'[b].blocked = blocked
    /\ worker'[b].orphan = orphan
    /\ \A c \in Browser \ {b} : worker'[c] = worker[c]

LEMMA Update ==
    ASSUME WorkerType, NEW b \in Browser, NEW w \in WorkerState, worker' = [worker EXCEPT ![b] = w]
    PROVE  Becomes(b, w.pc, w.batch, w.entry, w.paused, w.blocked, w.orphan)
  BY DEF WorkerType, Becomes

\* The loop's ways back to its head, and on to another step.
LEMMA Moves ==
    ASSUME WorkerType, NEW b \in Browser
    PROVE  /\ \A pc \in PC : Step(b, pc) =>
                 Becomes(b, pc, worker[b].batch, worker[b].entry, worker[b].paused,
                         worker[b].blocked, worker[b].orphan)
           /\ Retry(b) =>
                 Becomes(b, "head", worker[b].batch, Null, worker[b].paused,
                         worker[b].blocked, worker[b].orphan)
           /\ Finished(b) =>
                 Becomes(b, "head", Null, Null, worker[b].paused,
                         worker[b].blocked, worker[b].orphan)
           /\ LossPause(b) =>
                 Becomes(b, "head", worker[b].batch, Null, TRUE, TRUE, worker[b].orphan)
<1> worker[b] \in WorkerState
  BY Fields
<1>1. ASSUME NEW pc \in PC, Step(b, pc)
      PROVE  Becomes(b, pc, worker[b].batch, worker[b].entry, worker[b].paused,
                     worker[b].blocked, worker[b].orphan)
  BY <1>1 DEF Step, Becomes, WorkerType, WorkerState
<1>2. ASSUME Retry(b)
      PROVE  Becomes(b, "head", worker[b].batch, Null, worker[b].paused,
                     worker[b].blocked, worker[b].orphan)
  BY <1>2 DEF Retry, Becomes, WorkerType, WorkerState, PC
<1>3. ASSUME Finished(b)
      PROVE  Becomes(b, "head", Null, Null, worker[b].paused, worker[b].blocked, worker[b].orphan)
  BY <1>3 DEF Finished, Becomes, WorkerType, WorkerState, PC
<1>4. ASSUME LossPause(b)
      PROVE  Becomes(b, "head", worker[b].batch, Null, TRUE, TRUE, worker[b].orphan)
  BY <1>4 DEF LossPause, Becomes, WorkerType, WorkerState, PC
<1>. QED
  BY <1>1, <1>2, <1>3, <1>4

\* A step that also sets the count of failures of a ZIP.
LEMMA CountMoves ==
    ASSUME WorkerType, NEW b \in Browser, NEW pc \in PC, NEW batch \in PendingBatch \cup {Null},
           NEW entry \in Entry \cup {Null}, NEW z, NEW n \in 0 .. 2,
           worker' = [worker EXCEPT ![b].pc = pc, ![b].entry = entry, ![b].batch = batch,
                                    ![b].zip_failures[z] = n]
    PROVE  Becomes(b, pc, batch, entry, worker[b].paused, worker[b].blocked, worker[b].orphan)
<1> DEFINE f == [worker[b].zip_failures EXCEPT ![z] = n]
           r == [worker[b] EXCEPT !.pc = pc, !.entry = entry, !.batch = batch, !.zip_failures = f]
<1>1. worker[b] \in WorkerState /\ f \in [Zip -> 0 .. 2]
  BY Fields
<1>2. worker' = [x \in Browser |->
                    IF x = b THEN [worker[b] EXCEPT !.pc = pc, !.entry = entry, !.batch = batch,
                                                    !.zip_failures[z] = n]
                    ELSE worker[x]]
  BY DEF WorkerType
<1>3. [worker[b] EXCEPT !.pc = pc, !.entry = entry, !.batch = batch, !.zip_failures[z] = n] = r
  BY <1>1 DEF WorkerState
<1> HIDE DEF f
<1>4. /\ r \in WorkerState /\ r.pc = pc /\ r.entry = entry /\ r.batch = batch
      /\ r.paused = worker[b].paused /\ r.blocked = worker[b].blocked
      /\ r.orphan = worker[b].orphan
  BY <1>1 DEF WorkerState
<1> HIDE DEF r
<1>5. worker' = [x \in Browser |-> IF x = b THEN r ELSE worker[x]]
  BY <1>2, <1>3
<1>6. worker'[b] = r /\ \A c \in Browser \ {b} : worker'[c] = worker[c]
  BY <1>5
<1>7. worker' \in [Browser -> WorkerState]
  BY <1>4, <1>5 DEF WorkerType
<1>. QED
  BY <1>4, <1>6, <1>7 DEF Becomes

\* The same when the outbox batch in hand stays what it is.
LEMMA CountStays ==
    ASSUME WorkerType, NEW b \in Browser, NEW pc \in PC, NEW batch \in PendingBatch \cup {Null},
           NEW z, NEW n \in 0 .. 2,
           worker' = [worker EXCEPT ![b].pc = pc, ![b].batch = batch, ![b].zip_failures[z] = n]
    PROVE  Becomes(b, pc, batch, worker[b].entry, worker[b].paused, worker[b].blocked,
                   worker[b].orphan)
<1> DEFINE f == [worker[b].zip_failures EXCEPT ![z] = n]
           r == [worker[b] EXCEPT !.pc = pc, !.batch = batch, !.zip_failures = f]
<1>1. worker[b] \in WorkerState /\ f \in [Zip -> 0 .. 2]
  BY Fields
<1>2. worker' = [x \in Browser |->
                    IF x = b THEN [worker[b] EXCEPT !.pc = pc, !.batch = batch,
                                                    !.zip_failures[z] = n]
                    ELSE worker[x]]
  BY DEF WorkerType
<1>3. [worker[b] EXCEPT !.pc = pc, !.batch = batch, !.zip_failures[z] = n] = r
  BY <1>1 DEF WorkerState
<1> HIDE DEF f
<1>4. /\ r \in WorkerState /\ r.pc = pc /\ r.entry = worker[b].entry /\ r.batch = batch
      /\ r.paused = worker[b].paused /\ r.blocked = worker[b].blocked
      /\ r.orphan = worker[b].orphan
  BY <1>1 DEF WorkerState
<1> HIDE DEF r
<1>5. worker' = [x \in Browser |-> IF x = b THEN r ELSE worker[x]]
  BY <1>2, <1>3
<1>6. worker'[b] = r /\ \A c \in Browser \ {b} : worker'[c] = worker[c]
  BY <1>5
<1>7. worker' \in [Browser -> WorkerState]
  BY <1>4, <1>5 DEF WorkerType
<1>. QED
  BY <1>4, <1>6, <1>7 DEF Becomes

\* Quarantine(b) with its two forms of the held batch.
LEMMA QuarantineMoves ==
    ASSUME WorkerType, NEW b \in Browser, Quarantine(b)
    PROVE  \E p \in PendingBatch \cup {Null} :
              /\ Becomes(b, "condemn", p, worker[b].entry, worker[b].paused,
                         worker[b].blocked, worker[b].orphan)
              /\ worker[b].batch = Null => p = Null
              /\ worker[b].batch # Null =>
                    p # Null /\ p.entry = worker[b].batch.entry /\ p.stage = "quarantine"
<1> worker[b] \in WorkerState /\ worker[b].batch \in PendingBatch \cup {Null}
  BY Fields
<1>1. CASE worker[b].batch = Null
  BY <1>1 DEF Quarantine, Becomes, WorkerType, WorkerState, PC
<1>2. CASE worker[b].batch # Null
  <2> DEFINE p == [worker[b].batch EXCEPT !.stage = "quarantine"]
  <2>1. p \in PendingBatch /\ p.entry = worker[b].batch.entry /\ p.stage = "quarantine"
    BY <1>2 DEF PendingBatch
  <2>2. worker' = [worker EXCEPT ![b].pc = "condemn", ![b].batch = p]
    BY <1>2 DEF Quarantine, WorkerType
  <2> HIDE DEF p
  <2>3. Becomes(b, "condemn", p, worker[b].entry, worker[b].paused,
                worker[b].blocked, worker[b].orphan)
    BY <2>1, <2>2 DEF Becomes, WorkerType, WorkerState, PC
  <2>. QED
    BY <1>2, <2>1, <2>3, NullIsNone
<1>. QED
  BY <1>1, <1>2

-----------------------------------------------------------------------------
(* The loop's actions, as steps of the queue                               *)

LEMMA QueueStep ==
    ASSUME BWInv, [BWNext]_bwVars
    PROVE  [Next]_vars
<1>0. TypeOK /\ WorkerType
  BY DEF BWInv, BWTypeOK, WorkerType
<1>1. CASE UNCHANGED vars
  BY <1>1
<1>2. ASSUME NEW b \in Browser, BrowserStep(b) PROVE [Next]_vars
  BY <1>2 DEF Next
<1>3. ASSUME NEW b \in Browser, Control(b) PROVE [Next]_vars
  <2> LoopShape(b)
    BY DEF BWInv
  <2>1. CASE Exit(b)
    BY <1>1, <1>2, <2>1 DEF Exit, BrowserStep
  <2>2. CASE Crash(b)
    BY <1>2, <2>2 DEF Crash, BrowserStep
  <2>3. CASE RunOrphan(b)
    <3>1. CASE \E z \in Zip, t \in Token, reply \in Replies : ClaimNextZip(b, z, t, reply)
      BY <1>2, <3>1 DEF BrowserStep
    <3>2. CASE \E t \in Token, reply \in Replies :
                  ClaimOutboxZip(b, worker[b].orphan.entry, t, reply)
      BY <1>2, <3>2 DEF BrowserStep, ClaimOutboxZip
    <3>3. CASE /\ worker[b].orphan.call = "write"
               /\ \E reply \in Replies :
                     SetZipState(b, worker[b].orphan.zip, worker[b].orphan.status, reply)
      <4>1. worker[b].orphan.zip \in Zip /\ worker[b].orphan.status \in {"done", "error", "quarantined"}
        BY <2>3, <3>3 DEF RunOrphan, LoopShape, OrphanShape
      <4>. QED
        BY <1>2, <3>3, <4>1 DEF BrowserStep
    <3>. QED
      BY <2>3, <3>1, <3>2, <3>3 DEF RunOrphan
  <2>. QED
    BY <1>1, <1>3, <2>1, <2>2, <2>3
    DEF Control, Start, Pause, Resume, ResumeRefused, Stop, LoseLock, DropOrphan, ProcessingError
<1>4. ASSUME NEW b \in Browser, Loop(b) PROVE [Next]_vars
  <2> LoopShape(b)
    BY DEF BWInv
  <2>0. /\ worker[b].batch \in PendingBatch \cup {Null} /\ worker[b].entry \in Entry \cup {Null}
        /\ worker[b].batch # Null => worker[b].batch.zip \in Zip
        /\ worker[b].entry # Null => worker[b].entry[1] \in Zip
    BY <1>0, Fields, BatchFields, NullIsNone
  <2>1. CASE ClaimNext(b)
    BY <1>2, <2>1 DEF ClaimNext, BrowserStep
  <2>2. CASE PersistBatch(b)
    <3>1. worker[b].batch.zip \in Zip
      BY <2>0, <2>2 DEF PersistBatch, Processing
    <3>. QED
      BY <1>1, <1>2, <2>2, <3>1 DEF PersistBatch, BrowserStep
  <2>3. CASE FinishEmpty(b) \/ ParkFailure(b)
    <3>1. worker[b].batch.zip \in Zip
      BY <2>0, <2>3 DEF FinishEmpty, ParkFailure, Processing
    <3>. QED
      BY <1>2, <2>3, <3>1 DEF FinishEmpty, ParkFailure, BrowserStep
  <2>4. CASE Reclaim(b)
    BY <1>2, <2>4 DEF Reclaim, ClaimOutboxZip, BrowserStep
  <2>5. CASE CommitResults(b)
    <3>1. worker[b].entry[1] \in Zip
      BY <2>0, <2>5 DEF CommitResults, At, LoopShape, InHand
    <3>. QED
      BY <1>2, <2>5, <3>1 DEF CommitResults, BrowserStep
  <2>6. CASE Acknowledge(b) \/ DiscardBatch(b)
    BY <1>2, <2>6 DEF Acknowledge, DiscardBatch, Settled, SettleOutboxBatch, BrowserStep
  <2>7. CASE CondemnZip(b)
    <3>1. (IF worker[b].entry = Null THEN worker[b].batch.zip ELSE worker[b].entry[1]) \in Zip
      BY <2>0, <2>7 DEF CondemnZip, At, LoopShape, InHand
    <3>. QED
      BY <1>2, <2>7, <3>1 DEF CondemnZip, BrowserStep
  <2>. QED
    BY <1>1, <1>4, <2>1, <2>2, <2>3, <2>4, <2>5, <2>6, <2>7
    DEF Loop, TakeOutboxBatch, ScrapeMaps, RejectBatch, CountFailure, DropFailure, RetryQuarantine,
        GuardBefore, RejectResults, GuardAfter, CallFails
<1>5. ASSUME NEW b \in Browser, Heartbeat(b) PROVE [Next]_vars
  BY <1>2, <1>5 DEF Heartbeat, BrowserStep
<1>6. CASE TableStep \/ (\E v \in Vm : VmStep(v)) \/ Tick
  BY <1>6 DEF Next
<1>. QED
  BY <1>1, <1>3, <1>4, <1>5, <1>6
  DEF BWNext, bwVars, TimePasses, InventoryShrinks, InventoryReviewed

-----------------------------------------------------------------------------
(* What the loop has in hand                                               *)

\* Nothing of what LoopShape(c) speaks of changes.
Untouched(c) ==
    worker'[c] = worker[c] /\ outbox_claims'[c] = outbox_claims[c] /\ recorded'[c] = recorded[c]

LEMMA UntouchedShape ==
    ASSUME NEW c \in Browser, LoopShape(c), Untouched(c)
    PROVE  LoopShape(c)'
  BY DEF Untouched, LoopShape, OnDisk, InHand, Written, Sticky, OrphanShape

RecordedType == recorded \in [Browser -> SUBSET (Entry \X {"delivered", "quarantined"})]

\* What a step of machine b's loop has to show.
LocalStep(b) ==
    /\ WorkerType' /\ RecordedType' /\ LoopShape(b)'
    /\ \A c \in Browser \ {b} : Untouched(c)

\* What LoopShape asks of a loop at pc with a batch and an outbox batch in hand,
\* when `disk` is its outbox and `done` what Cloud SQL has recorded of it.
FitsOn(disk, done, pc, batch, entry, paused, blocked, orphan) ==
    /\ entry # Null => entry \in disk
    /\ batch # Null /\ batch.entry # Null => batch.entry \in disk
    /\ batch # Null /\ batch.entry = Null => disk = {}
    /\ pc \in {"reclaim", "guard", "commit", "recheck", "ack", "discard"} => entry # Null
    /\ pc = "condemn" => entry # Null \/ batch # Null
    /\ pc \in {"scrape", "process"} => batch # Null
    /\ pc \in {"off", "exit", "head", "scrape", "process"} => entry = Null
    /\ batch # Null /\ entry # Null => batch.entry = entry
    /\ pc \in {"recheck", "ack"} => <<entry, "delivered">> \in done
    /\ pc = "discard" => <<entry, "quarantined">> \in done
    /\ batch # Null /\ batch.stage = "marked" =>
          batch.entry # Null /\ <<batch.entry, "quarantined">> \in done
    /\ blocked /\ pc \notin {"off", "exit"} => paused
    /\ orphan # Null /\ orphan.call = "write" =>
          orphan.zip \in Zip /\ orphan.status \in {"done", "error", "quarantined"}

Fits(b, pc, batch, entry, paused, blocked, orphan) ==
    FitsOn(outbox_claims[b], recorded[b], pc, batch, entry, paused, blocked, orphan)

LEMMA ShapeFits ==
    ASSUME NEW b \in Browser, LoopShape(b)
    PROVE  Fits(b, worker[b].pc, worker[b].batch, worker[b].entry, worker[b].paused,
                worker[b].blocked, worker[b].orphan)
  BY DEF Fits, FitsOn, LoopShape, OnDisk, InHand, Written, Sticky, OrphanShape

\* A step is sound when what the loop then has in hand fits disk and record.
LEMMA StepShape ==
    ASSUME NEW b \in Browser, RecordedType',
           \A c \in Browser \ {b} : outbox_claims'[c] = outbox_claims[c] /\ recorded'[c] = recorded[c],
           NEW pc, NEW batch, NEW entry, NEW paused, NEW blocked, NEW orphan,
           Becomes(b, pc, batch, entry, paused, blocked, orphan),
           FitsOn(outbox_claims'[b], recorded'[b], pc, batch, entry, paused, blocked, orphan)
    PROVE  LocalStep(b)
<1>1. OnDisk(b)'
  BY DEF Becomes, OnDisk, FitsOn
<1>2. InHand(b)'
  BY DEF Becomes, InHand, FitsOn
<1>3. Written(b)'
  BY DEF Becomes, Written, FitsOn
<1>4. Sticky(b)' /\ OrphanShape(b)'
  BY DEF Becomes, Sticky, OrphanShape, FitsOn
<1>5. WorkerType' /\ RecordedType' /\ \A c \in Browser \ {b} : Untouched(c)
  BY DEF Becomes, WorkerType, Untouched
<1>. QED
  BY <1>1, <1>2, <1>3, <1>4, <1>5 DEF LoopShape, LocalStep

\* One that leaves disk and record alone.
LEMMA MoveShape ==
    ASSUME NEW b \in Browser, RecordedType, UNCHANGED <<outbox_claims, recorded>>,
           NEW pc, NEW batch, NEW entry, NEW paused, NEW blocked, NEW orphan,
           Becomes(b, pc, batch, entry, paused, blocked, orphan),
           Fits(b, pc, batch, entry, paused, blocked, orphan)
    PROVE  LocalStep(b)
<1>1. /\ RecordedType'
      /\ \A c \in Browser \ {b} : outbox_claims'[c] = outbox_claims[c] /\ recorded'[c] = recorded[c]
      /\ outbox_claims'[b] = outbox_claims[b] /\ recorded'[b] = recorded[b]
  BY DEF RecordedType
<1>2. FitsOn(outbox_claims'[b], recorded'[b], pc, batch, entry, paused, blocked, orphan)
  BY <1>1 DEF Fits
<1>. QED
  BY <1>1, <1>2, StepShape

\* A call in flight that writes a status writes one of a ZIP.
LEMMA CallsShape ==
    ASSUME BWInv, NEW b \in Browser, NEW o \in CallsInFlight(b)
    PROVE  /\ o \in OrphanCall
           /\ o.call = "write" => o.zip \in Zip /\ o.status \in {"done", "error", "quarantined"}
<1>0. /\ LoopShape(b)
      /\ worker[b].batch \in PendingBatch \cup {Null} /\ worker[b].entry \in Entry \cup {Null}
      /\ worker[b].batch # Null => worker[b].batch.zip \in Zip
      /\ worker[b].entry # Null => worker[b].entry[1] \in Zip
  BY Fields, BatchFields, NullIsNone DEF BWInv, BWTypeOK, WorkerType
<1>1. \A call \in {"claim", "reclaim", "write"}, zip \in Zip \cup {Null},
         status \in PlacesStatus \cup {Null}, entry \in Entry \cup {Null} :
            /\ Call(call, zip, status, entry) \in OrphanCall
            /\ Call(call, zip, status, entry).call = call
            /\ Call(call, zip, status, entry).zip = zip
            /\ Call(call, zip, status, entry).status = status
  BY DEF Call, OrphanCall
<1>2. {"done", "error", "quarantined"} \subseteq PlacesStatus
  BY DEF PlacesStatus
<1>3. At(b, "commit") => worker[b].entry[1] \in Zip
  BY <1>0 DEF At, LoopShape, InHand
<1>4. At(b, "condemn") =>
         (IF worker[b].entry = Null THEN worker[b].batch.zip ELSE worker[b].entry[1]) \in Zip
  BY <1>0 DEF At, LoopShape, InHand
<1>5. Processing(b) => worker[b].batch.zip \in Zip
  BY <1>0 DEF Processing
<1>6. \/ o = Call("claim", Null, Null, Null)
      \/ o = Call("reclaim", Null, Null, worker[b].entry)
      \/ At(b, "commit") /\ o = Call("write", worker[b].entry[1], "done", worker[b].entry)
      \/ /\ At(b, "condemn")
         /\ o = Call("write", IF worker[b].entry = Null THEN worker[b].batch.zip
                              ELSE worker[b].entry[1], "quarantined", worker[b].entry)
      \/ Processing(b) /\ o = Call("write", worker[b].batch.zip, "done", Null)
      \/ Processing(b) /\ o = Call("write", worker[b].batch.zip, "error", Null)
  BY DEF CallsInFlight
<1> HIDE DEF Call
<1>7. CASE o = Call("claim", Null, Null, Null)
  BY <1>1, <1>7
<1>8. CASE o = Call("reclaim", Null, Null, worker[b].entry)
  BY <1>0, <1>1, <1>8
<1>9. CASE At(b, "commit") /\ o = Call("write", worker[b].entry[1], "done", worker[b].entry)
  BY <1>0, <1>1, <1>2, <1>3, <1>9
<1>10. CASE /\ At(b, "condemn")
            /\ o = Call("write", IF worker[b].entry = Null THEN worker[b].batch.zip
                                 ELSE worker[b].entry[1], "quarantined", worker[b].entry)
  BY <1>0, <1>1, <1>2, <1>4, <1>10
<1>11. CASE Processing(b) /\ o = Call("write", worker[b].batch.zip, "done", Null)
  BY <1>1, <1>2, <1>5, <1>11
<1>12. CASE Processing(b) /\ o = Call("write", worker[b].batch.zip, "error", Null)
  BY <1>1, <1>2, <1>5, <1>12
<1>. QED
  BY <1>6, <1>7, <1>8, <1>9, <1>10, <1>11, <1>12

-----------------------------------------------------------------------------
(* Operator controls and failures                                          *)

LEMMA ControlShape ==
    ASSUME BWInv, NEW b \in Browser, Control(b)
    PROVE  LocalStep(b)
<1> DEFINE w == worker[b]
<1>0. TypeOK /\ WorkerType /\ RecordedType /\ LoopShape(b)
  BY DEF BWInv, BWTypeOK, WorkerType, RecordedType
<1>f. /\ w \in WorkerState /\ w.pc \in PC
      /\ w.batch \in PendingBatch \cup {Null} /\ w.entry \in Entry \cup {Null}
      /\ w.paused \in BOOLEAN /\ w.blocked \in BOOLEAN
      /\ w.zip_failures \in [Zip -> 0 .. 2] /\ w.orphan \in OrphanCall \cup {Null}
  BY <1>0, Fields
<1>i. Fits(b, w.pc, w.batch, w.entry, w.paused, w.blocked, w.orphan)
  BY <1>0, ShapeFits
<1>1. CASE Start(b)
  <2>1. Becomes(b, "head", w.batch, w.entry, FALSE, FALSE, w.orphan)
    BY <1>0, <1>f, <1>1 DEF Start, Becomes, WorkerType, WorkerState, PC
  <2>2. UNCHANGED <<outbox_claims, recorded>> /\ w.entry = Null
    BY <1>1, <1>i DEF Start, At, Fits, FitsOn, vars, browserVars
  <2>3. Fits(b, "head", w.batch, w.entry, FALSE, FALSE, w.orphan)
    BY <1>i, <2>2 DEF Fits, FitsOn
  <2>. QED
    BY <1>0, <2>1, <2>2, <2>3, MoveShape
<1>2. CASE Pause(b)
  <2>1. Becomes(b, w.pc, w.batch, w.entry, TRUE, w.blocked, w.orphan)
    BY <1>0, <1>f, <1>2 DEF Pause, Becomes, WorkerType, WorkerState
  <2>2. UNCHANGED <<outbox_claims, recorded>>
    BY <1>2 DEF Pause, vars, browserVars
  <2>3. Fits(b, w.pc, w.batch, w.entry, TRUE, w.blocked, w.orphan)
    BY <1>i DEF Fits, FitsOn
  <2>. QED
    BY <1>0, <2>1, <2>2, <2>3, MoveShape
<1>3. CASE Resume(b)
  <2>1. Becomes(b, w.pc, w.batch, w.entry, FALSE, w.blocked, w.orphan) /\ ~ w.blocked
    BY <1>0, <1>f, <1>3 DEF Resume, Becomes, WorkerType, WorkerState
  <2>2. UNCHANGED <<outbox_claims, recorded>>
    BY <1>3 DEF Resume, vars, browserVars
  <2>3. Fits(b, w.pc, w.batch, w.entry, FALSE, w.blocked, w.orphan)
    BY <1>i, <2>1 DEF Fits, FitsOn
  <2>. QED
    BY <1>0, <2>1, <2>2, <2>3, MoveShape
<1>4. CASE ResumeRefused(b)
  <2>1. Becomes(b, w.pc, w.batch, w.entry, w.paused, TRUE, w.orphan) /\ w.paused
    BY <1>0, <1>f, <1>4 DEF ResumeRefused, Becomes, WorkerType, WorkerState
  <2>2. UNCHANGED <<outbox_claims, recorded>>
    BY <1>4 DEF ResumeRefused, vars, browserVars
  <2>3. Fits(b, w.pc, w.batch, w.entry, w.paused, TRUE, w.orphan)
    BY <1>i, <2>1 DEF Fits, FitsOn
  <2>. QED
    BY <1>0, <2>1, <2>2, <2>3, MoveShape
<1>5. CASE Stop(b)
  <2>1. PICK orphan \in {w.orphan} \cup CallsInFlight(b) :
           worker' = [worker EXCEPT ![b].pc = "exit", ![b].batch = Null, ![b].entry = Null,
                                    ![b].paused = FALSE, ![b].orphan = orphan]
    BY <1>5 DEF Stop
  <2>2. /\ orphan \in OrphanCall \cup {Null}
        /\ orphan # Null /\ orphan.call = "write" =>
              orphan.zip \in Zip /\ orphan.status \in {"done", "error", "quarantined"}
    BY <1>f, <1>i, <2>1, CallsShape DEF Fits, FitsOn
  <2>3. Becomes(b, "exit", Null, Null, FALSE, w.blocked, orphan)
    BY <1>0, <1>f, <2>1, <2>2 DEF Becomes, WorkerType, WorkerState, PC
  <2>4. UNCHANGED <<outbox_claims, recorded>>
    BY <1>5 DEF Stop, vars, browserVars
  <2>5. Fits(b, "exit", Null, Null, FALSE, w.blocked, orphan)
    BY <2>2 DEF Fits, FitsOn
  <2>. QED
    BY <1>0, <2>3, <2>4, <2>5, MoveShape
<1>6. CASE Exit(b)
  <2>1. Becomes(b, "off", w.batch, w.entry, w.paused, w.blocked, w.orphan) /\ w.pc = "exit"
    BY <1>0, <1>6, Moves DEF Exit, PC, At
  <2>2. UNCHANGED <<outbox_claims, recorded>>
    BY <1>6 DEF Exit, ReleaseZipClaims, vars, browserVars
  <2>3. Fits(b, "off", w.batch, w.entry, w.paused, w.blocked, w.orphan)
    BY <1>i, <2>1 DEF Fits, FitsOn
  <2>. QED
    BY <1>0, <2>1, <2>2, <2>3, MoveShape
<1>7. CASE Crash(b)
  <2>1. NewProcess \in WorkerState
    BY DEF NewProcess, WorkerState, PC
  <2>2. worker' = [worker EXCEPT ![b] = NewProcess]
    BY <1>7 DEF Crash
  <2>3. Becomes(b, "off", Null, Null, FALSE, FALSE, Null)
    BY <1>0, <2>1, <2>2 DEF Becomes, WorkerType, NewProcess
  <2>4. UNCHANGED <<outbox_claims, recorded>>
    BY <1>7 DEF Crash, BrowserDown
  <2>5. Fits(b, "off", Null, Null, FALSE, FALSE, Null)
    BY DEF Fits, FitsOn
  <2>. QED
    BY <1>0, <2>3, <2>4, <2>5, MoveShape
<1>8. CASE LoseLock(b)
  <2>1. UNCHANGED <<worker, outbox_claims, recorded>>
    BY <1>8 DEF LoseLock, vars, browserVars
  <2>2. \A c \in Browser : Untouched(c)
    BY <2>1 DEF Untouched
  <2>. QED
    BY <1>0, <2>1, <2>2, UntouchedShape DEF LocalStep, WorkerType, RecordedType
<1>9. CASE RunOrphan(b) \/ DropOrphan(b)
  <2>1. Becomes(b, w.pc, w.batch, w.entry, w.paused, w.blocked, Null)
    BY <1>0, <1>f, <1>9 DEF RunOrphan, DropOrphan, Becomes, WorkerType, WorkerState
  <2>2. UNCHANGED outbox_claims
    BY <1>9 DEF RunOrphan, DropOrphan, ClaimNextZip, ClaimOutboxZip, SetZipState, vars, browserVars
  <2>3. /\ RecordedType' /\ recorded[b] \subseteq recorded'[b]
        /\ \A c \in Browser \ {b} : recorded'[c] = recorded[c]
    <3>1. CASE UNCHANGED recorded
      BY <1>0, <3>1 DEF RecordedType
    <3>2. CASE /\ w.orphan.entry \in outbox_claims[b]
               /\ \E outcome \in {"delivered", "quarantined"} :
                     recorded' = [recorded EXCEPT ![b] = @ \cup {<<w.orphan.entry, outcome>>}]
      <4>1. w.orphan.entry \in Entry
        BY <1>0, <3>2 DEF TypeOK, Entry
      <4>. QED
        BY <1>0, <3>2, <4>1 DEF RecordedType
    <3>3. ASSUME NEW e, NEW outcome \in {"delivered", "quarantined"},
                 e # Null => e = w.orphan.entry /\ e \in outbox_claims[b],
                 Recorded(b, e, outcome)
          PROVE  \/ UNCHANGED recorded
                 \/ /\ w.orphan.entry \in outbox_claims[b]
                    /\ recorded' = [recorded EXCEPT ![b] = @ \cup {<<w.orphan.entry, outcome>>}]
      BY <1>0, <3>3 DEF Recorded, RecordedType
    <3>4. \/ UNCHANGED recorded
          \/ /\ w.orphan.entry \in outbox_claims[b]
             /\ \E outcome \in {"delivered", "quarantined"} :
                   recorded' = [recorded EXCEPT ![b] = @ \cup {<<w.orphan.entry, outcome>>}]
      BY <1>9, <3>3 DEF RunOrphan, DropOrphan
    <3>. QED
      BY <3>1, <3>2, <3>4
  <2>4. OnDisk(b)' /\ InHand(b)'
    BY <1>0, <2>1, <2>2 DEF LoopShape, OnDisk, InHand, Becomes
  <2>5. Written(b)'
    BY <1>0, <2>1, <2>3 DEF LoopShape, Written, Becomes
  <2>6. Sticky(b)' /\ OrphanShape(b)'
    BY <1>0, <2>1 DEF LoopShape, Sticky, OrphanShape, Becomes
  <2>7. WorkerType' /\ \A c \in Browser \ {b} : Untouched(c)
    BY <2>1, <2>2, <2>3 DEF Becomes, Untouched, WorkerType
  <2>. QED
    BY <2>3, <2>4, <2>5, <2>6, <2>7 DEF LocalStep, LoopShape
<1>10. CASE ProcessingError(b)
  <2> DEFINE p == [w.batch EXCEPT !.result = "failed"]
  <2>1. w.batch \in PendingBatch /\ w.batch.stage = "new"
    BY <1>f, <1>10 DEF ProcessingError
  <2>2. p \in PendingBatch /\ p.entry = w.batch.entry /\ p.stage = "new"
    BY <2>1 DEF PendingBatch, AllResults
  <2>3. worker' = [worker EXCEPT ![b].pc = "process", ![b].entry = Null, ![b].batch = p]
    BY <1>0, <1>10 DEF ProcessingError, WorkerType
  <2> HIDE DEF p
  <2>4. Becomes(b, "process", p, Null, w.paused, w.blocked, w.orphan)
    BY <1>0, <1>f, <2>2, <2>3 DEF Becomes, WorkerType, WorkerState, PC
  <2>5. UNCHANGED <<outbox_claims, recorded>> /\ p # Null /\ w.pc \notin {"off", "exit"}
    BY <1>10, <2>2, NullIsNone DEF ProcessingError, vars, browserVars
  <2>6. w.batch # Null
    BY <2>1, NullIsNone
  <2>7. Fits(b, "process", p, Null, w.paused, w.blocked, w.orphan)
    BY <1>i, <2>2, <2>5, <2>6 DEF Fits, FitsOn
  <2>. QED
    BY <1>0, <2>4, <2>5, <2>7, MoveShape
<1>. QED
  BY <1>1, <1>2, <1>3, <1>4, <1>5, <1>6, <1>7, <1>8, <1>9, <1>10 DEF Control

-----------------------------------------------------------------------------
(* The loop                                                                *)

LEMMA LoopStepShape ==
    ASSUME BWInv, NEW b \in Browser, Loop(b)
    PROVE  LocalStep(b)
<1> DEFINE w == worker[b]
<1>0. TypeOK /\ WorkerType /\ RecordedType /\ LoopShape(b)
  BY DEF BWInv, BWTypeOK, WorkerType, RecordedType
<1>f. /\ w \in WorkerState /\ w.pc \in PC
      /\ w.batch \in PendingBatch \cup {Null} /\ w.entry \in Entry \cup {Null}
      /\ w.paused \in BOOLEAN /\ w.blocked \in BOOLEAN
      /\ w.zip_failures \in [Zip -> 0 .. 2] /\ w.orphan \in OrphanCall \cup {Null}
  BY <1>0, Fields
<1>i. Fits(b, w.pc, w.batch, w.entry, w.paused, w.blocked, w.orphan)
  BY <1>0, ShapeFits
<1>e. outbox_claims \in [Browser -> SUBSET Entry]
  BY <1>0 DEF TypeOK, Entry
<1>r. ASSUME Retry(b), UNCHANGED <<outbox_claims, recorded>>, w.pc \notin {"off", "exit"}
      PROVE  LocalStep(b)
  <2>1. Becomes(b, "head", w.batch, Null, w.paused, w.blocked, w.orphan)
    BY <1>0, <1>r, Moves
  <2>2. Fits(b, "head", w.batch, Null, w.paused, w.blocked, w.orphan)
    BY <1>i, <1>r DEF Fits, FitsOn
  <2>. QED
    BY <1>0, <1>r, <2>1, <2>2, MoveShape
<1>p. Processing(b) => /\ w.batch # Null /\ w.batch \in PendingBatch /\ w.entry = Null
                       /\ w.pc \in {"process", "head"}
  BY <1>f, <1>i DEF Processing, Ready, At, Fits, FitsOn
<1>1. CASE TakeOutboxBatch(b)
  <2>1. PICK e \in outbox_claims[b] : worker' = [worker EXCEPT ![b].pc = "reclaim", ![b].entry = e]
    BY <1>1 DEF TakeOutboxBatch
  <2>2. e \in Entry /\ e # Null
    BY <1>e, <2>1, NullIsNone
  <2>3. Becomes(b, "reclaim", w.batch, e, w.paused, w.blocked, w.orphan)
    BY <1>0, <1>f, <2>1, <2>2 DEF Becomes, WorkerType, WorkerState, PC
  <2>4. UNCHANGED <<outbox_claims, recorded>> /\ w.pc = "head" /\ w.batch = Null
    BY <1>1 DEF TakeOutboxBatch, Idle, Ready, At, vars, browserVars
  <2>5. Fits(b, "reclaim", w.batch, e, w.paused, w.blocked, w.orphan)
    BY <1>i, <2>2, <2>4 DEF Fits, FitsOn
  <2>. QED
    BY <1>0, <2>3, <2>4, <2>5, MoveShape
<1>2. CASE ClaimNext(b)
  <2>1. /\ outbox_claims[b] = {} /\ w.pc = "head" /\ w.entry = Null
        /\ UNCHANGED <<outbox_claims, recorded>>
    BY <1>2, <1>i DEF ClaimNext, ClaimNextZip, Idle, Ready, At, Fits, FitsOn
  <2>2. CASE worker' = worker
    <3>1. \A c \in Browser : Untouched(c)
      BY <2>1, <2>2 DEF Untouched
    <3>. QED
      BY <1>0, <2>1, <2>2, <3>1, UntouchedShape DEF LocalStep, WorkerType, RecordedType
  <2>3. ASSUME NEW z \in Zip,
               worker' = [worker EXCEPT ![b].pc = "scrape",
                             ![b].batch = [zip |-> z, result |-> Null,
                                           entry |-> Null, stage |-> "new"]]
        PROVE  LocalStep(b)
    <3> DEFINE p == [zip |-> z, result |-> Null, entry |-> Null, stage |-> "new"]
    <3>1. p \in PendingBatch /\ p.entry = Null /\ p.stage = "new"
      BY DEF PendingBatch
    <3>2. worker' = [worker EXCEPT ![b].pc = "scrape", ![b].batch = p]
      BY <2>3
    <3> HIDE DEF p
    <3>3. Becomes(b, "scrape", p, w.entry, w.paused, w.blocked, w.orphan)
      BY <1>0, <1>f, <3>1, <3>2 DEF Becomes, WorkerType, WorkerState, PC
    <3>4. p # Null
      BY <3>1, NullIsNone
    <3>5. Fits(b, "scrape", p, w.entry, w.paused, w.blocked, w.orphan)
      BY <1>i, <2>1, <3>1, <3>4 DEF Fits, FitsOn
    <3>. QED
      BY <1>0, <2>1, <3>3, <3>5, MoveShape
  <2>. QED
    BY <1>2, <2>2, <2>3 DEF ClaimNext
<1>3. CASE ScrapeMaps(b)
  <2>1. PICK r \in Results : worker' = [worker EXCEPT ![b].pc = "process", ![b].batch.result = r]
    BY <1>3 DEF ScrapeMaps
  <2>2. /\ w.batch \in PendingBatch /\ w.batch # Null /\ w.entry = Null /\ w.pc = "scrape"
        /\ UNCHANGED <<outbox_claims, recorded>>
    BY <1>3, <1>f, <1>i DEF ScrapeMaps, At, Fits, FitsOn, vars, browserVars
  <2> DEFINE p == [w.batch EXCEPT !.result = r]
  <2>3. p \in PendingBatch /\ p.entry = w.batch.entry /\ p.stage = w.batch.stage
    BY <2>1, <2>2, BrowserWorkerAssumption DEF PendingBatch
  <2>4. worker' = [worker EXCEPT ![b].pc = "process", ![b].batch = p]
    BY <1>0, <2>1 DEF WorkerType
  <2> HIDE DEF p
  <2>5. Becomes(b, "process", p, w.entry, w.paused, w.blocked, w.orphan)
    BY <1>0, <1>f, <2>3, <2>4 DEF Becomes, WorkerType, WorkerState, PC
  <2>6. p # Null
    BY <2>3, NullIsNone
  <2>7. Fits(b, "process", p, w.entry, w.paused, w.blocked, w.orphan)
    BY <1>i, <2>2, <2>3, <2>6 DEF Fits, FitsOn
  <2>. QED
    BY <1>0, <2>2, <2>5, <2>7, MoveShape
<1>4. CASE RejectBatch(b)
  <2>1. PICK p \in PendingBatch \cup {Null} :
           /\ Becomes(b, "condemn", p, w.entry, w.paused, w.blocked, w.orphan)
           /\ w.batch # Null => p # Null /\ p.entry = w.batch.entry /\ p.stage = "quarantine"
    BY <1>0, <1>4, QuarantineMoves DEF RejectBatch
  <2>2. Processing(b) /\ UNCHANGED <<outbox_claims, recorded>>
    BY <1>4 DEF RejectBatch, vars, browserVars
  <2>3. Fits(b, "condemn", p, w.entry, w.paused, w.blocked, w.orphan)
    BY <1>i, <1>p, <2>1, <2>2 DEF Fits, FitsOn
  <2>. QED
    BY <1>0, <2>1, <2>2, <2>3, MoveShape
<1>5. CASE FinishEmpty(b) \/ ParkFailure(b)
  <2>1. Processing(b) /\ UNCHANGED <<outbox_claims, recorded>>
    BY <1>5 DEF FinishEmpty, ParkFailure, SetZipState
  <2>2. CASE Retry(b)
    BY <1>p, <1>r, <2>1, <2>2
  <2>3. CASE worker' = [worker EXCEPT ![b].pc = "head", ![b].batch = Null,
                                      ![b].zip_failures[w.batch.zip] = 0]
    <3>0. "head" \in PC /\ 0 \in 0 .. 2
      BY DEF PC
    <3>1. Becomes(b, "head", Null, w.entry, w.paused, w.blocked, w.orphan)
      BY <1>0, <2>3, <3>0, CountStays
    <3>2. Fits(b, "head", Null, w.entry, w.paused, w.blocked, w.orphan)
      BY <1>i, <1>p, <2>1 DEF Fits, FitsOn
    <3>. QED
      BY <1>0, <2>1, <3>1, <3>2, MoveShape
  <2>. QED
    BY <1>5, <2>2, <2>3 DEF FinishEmpty, ParkFailure
<1>6. CASE CountFailure(b)
  <2> DEFINE p == [w.batch EXCEPT !.stage = "counted"]
  <2>1. Processing(b) /\ UNCHANGED <<outbox_claims, recorded>>
    BY <1>6 DEF CountFailure, vars, browserVars
  <2>2. p \in PendingBatch /\ p.entry = w.batch.entry /\ p.stage = "counted"
    BY <1>p, <2>1 DEF PendingBatch
  <2> DEFINE z == w.batch.zip
             n == IF w.zip_failures[z] < 2 THEN w.zip_failures[z] + 1 ELSE w.zip_failures[z]
  <2>3. n \in 0 .. 2
    <3>1. w.zip_failures[z] \in 0 .. 2
      BY <1>f, <1>p, <2>1, BatchFields
    <3>. QED
      BY <3>1
  <2>4. worker' = [worker EXCEPT ![b].pc = "process", ![b].batch = p, ![b].zip_failures[z] = n]
    BY <1>0, <1>6 DEF CountFailure, WorkerType
  <2> HIDE DEF p, n
  <2>5. Becomes(b, "process", p, w.entry, w.paused, w.blocked, w.orphan)
    BY <1>0, <2>2, <2>3, <2>4, CountStays DEF PC
  <2>6. p # Null
    BY <2>2, NullIsNone
  <2>7. Fits(b, "process", p, w.entry, w.paused, w.blocked, w.orphan)
    BY <1>i, <1>p, <2>1, <2>2, <2>6 DEF Fits, FitsOn
  <2>. QED
    BY <1>0, <2>1, <2>5, <2>7, MoveShape
<1>7. CASE DropFailure(b)
  <2>1. Becomes(b, "head", Null, Null, w.paused, w.blocked, w.orphan)
    BY <1>0, <1>7, Moves DEF DropFailure
  <2>2. Processing(b) /\ UNCHANGED <<outbox_claims, recorded>>
    BY <1>7 DEF DropFailure, vars, browserVars
  <2>3. Fits(b, "head", Null, Null, w.paused, w.blocked, w.orphan)
    BY <1>i, <1>p, <2>2 DEF Fits, FitsOn
  <2>. QED
    BY <1>0, <2>1, <2>2, <2>3, MoveShape
<1>8. CASE RetryQuarantine(b)
  <2> DEFINE pc == IF w.batch.stage = "marked" THEN "discard" ELSE "condemn"
  <2>1. Processing(b) /\ UNCHANGED <<outbox_claims, recorded>>
    BY <1>8 DEF RetryQuarantine, vars, browserVars
  <2>2. w.batch \in PendingBatch /\ w.batch # Null /\ w.batch.entry \in Entry \cup {Null}
    BY <1>p, <2>1, BatchFields
  <2>3. Becomes(b, pc, w.batch, w.batch.entry, w.paused, w.blocked, w.orphan)
    BY <1>0, <1>f, <1>8, <2>2 DEF RetryQuarantine, Becomes, WorkerType, WorkerState, PC
  <2>4. Fits(b, pc, w.batch, w.batch.entry, w.paused, w.blocked, w.orphan)
    BY <1>i, <1>p, <2>1 DEF Fits, FitsOn
  <2>. QED
    BY <1>0, <2>1, <2>3, <2>4, MoveShape
<1>9. CASE Reclaim(b)
  <2>1. w.pc = "reclaim" /\ UNCHANGED <<outbox_claims, recorded>>
    BY <1>9 DEF Reclaim, ClaimOutboxZip, At
  <2>2. CASE Step(b, "guard")
    <3>1. Becomes(b, "guard", w.batch, w.entry, w.paused, w.blocked, w.orphan)
      BY <1>0, <2>2, Moves DEF PC
    <3>2. Fits(b, "guard", w.batch, w.entry, w.paused, w.blocked, w.orphan)
      BY <1>i, <2>1 DEF Fits, FitsOn
    <3>. QED
      BY <1>0, <2>1, <3>1, <3>2, MoveShape
  <2>. QED
    BY <1>9, <1>r, <2>1, <2>2 DEF Reclaim
<1>10. CASE GuardBefore(b) \/ GuardAfter(b)
  <2>1. w.pc \in {"guard", "recheck"} /\ UNCHANGED <<outbox_claims, recorded>>
    BY <1>10 DEF GuardBefore, GuardAfter, At, vars, browserVars
  <2>2. CASE LossPause(b)
    <3>1. Becomes(b, "head", w.batch, Null, TRUE, TRUE, w.orphan)
      BY <1>0, <2>2, Moves
    <3>2. Fits(b, "head", w.batch, Null, TRUE, TRUE, w.orphan)
      BY <1>i DEF Fits, FitsOn
    <3>. QED
      BY <1>0, <2>1, <3>1, <3>2, MoveShape
  <2>3. CASE w.pc = "guard" /\ Step(b, "commit")
    <3>1. Becomes(b, "commit", w.batch, w.entry, w.paused, w.blocked, w.orphan)
      BY <1>0, <2>3, Moves DEF PC
    <3>2. Fits(b, "commit", w.batch, w.entry, w.paused, w.blocked, w.orphan)
      BY <1>i, <2>3 DEF Fits, FitsOn
    <3>. QED
      BY <1>0, <2>1, <3>1, <3>2, MoveShape
  <2>4. CASE w.pc = "recheck" /\ Step(b, "ack")
    <3>1. Becomes(b, "ack", w.batch, w.entry, w.paused, w.blocked, w.orphan)
      BY <1>0, <2>4, Moves DEF PC
    <3>2. Fits(b, "ack", w.batch, w.entry, w.paused, w.blocked, w.orphan)
      BY <1>i, <2>4 DEF Fits, FitsOn
    <3>. QED
      BY <1>0, <2>1, <3>1, <3>2, MoveShape
  <2>. QED
    BY <1>10, <2>2, <2>3, <2>4 DEF GuardBefore, GuardAfter, At
<1>11. CASE RejectResults(b)
  <2>1. PICK p \in PendingBatch \cup {Null} :
           /\ Becomes(b, "condemn", p, w.entry, w.paused, w.blocked, w.orphan)
           /\ w.batch = Null => p = Null
           /\ w.batch # Null => p # Null /\ p.entry = w.batch.entry /\ p.stage = "quarantine"
    BY <1>0, <1>11, QuarantineMoves DEF RejectResults
  <2>2. w.pc = "commit" /\ UNCHANGED <<outbox_claims, recorded>>
    BY <1>11 DEF RejectResults, At, vars, browserVars
  <2>3. Fits(b, "condemn", p, w.entry, w.paused, w.blocked, w.orphan)
    BY <1>i, <2>1, <2>2 DEF Fits, FitsOn
  <2>. QED
    BY <1>0, <2>1, <2>2, <2>3, MoveShape
<1>12. CASE CallFails(b)
  <2>1. w.pc \notin {"off", "exit"} /\ Retry(b) /\ UNCHANGED <<outbox_claims, recorded>>
    BY <1>12 DEF CallFails, vars, browserVars
  <2>. QED
    BY <1>r, <2>1
<1>13. CASE PersistBatch(b)
  <2>1. /\ w.batch # Null /\ w.batch \in PendingBatch /\ w.entry = Null /\ w.batch.stage = "new"
        /\ w.batch.zip \in Zip /\ w.batch.entry \in Entry \cup {Null} /\ UNCHANGED recorded
        /\ w.pc \in {"process", "head"}
    BY <1>13, <1>p, BatchFields DEF PersistBatch
  <2>2. CASE w.batch.entry # Null /\ UNCHANGED vars
                /\ worker' = [worker EXCEPT ![b].pc = "reclaim", ![b].entry = w.batch.entry]
    <3>1. Becomes(b, "reclaim", w.batch, w.batch.entry, w.paused, w.blocked, w.orphan)
      BY <1>0, <1>f, <2>1, <2>2 DEF Becomes, WorkerType, WorkerState, PC
    <3>2. Fits(b, "reclaim", w.batch, w.batch.entry, w.paused, w.blocked, w.orphan)
      BY <1>i, <2>1, <2>2 DEF Fits, FitsOn
    <3>3. UNCHANGED <<outbox_claims, recorded>>
      BY <2>1, <2>2 DEF vars, browserVars
    <3>. QED
      BY <1>0, <3>1, <3>2, <3>3, MoveShape
  <2>3. ASSUME w.batch.entry = Null, NEW e \in Entry,
               outbox_claims' = [outbox_claims EXCEPT ![b] = @ \cup {e}],
               worker' = [worker EXCEPT ![b].pc = "reclaim", ![b].entry = e, ![b].batch.entry = e]
        PROVE  LocalStep(b)
    <3> DEFINE p == [w.batch EXCEPT !.entry = e]
    <3>1. p \in PendingBatch /\ p.entry = e /\ p.stage = "new"
      BY <2>1 DEF PendingBatch
    <3>2. worker' = [worker EXCEPT ![b].pc = "reclaim", ![b].entry = e, ![b].batch = p]
      BY <1>0, <2>3 DEF WorkerType
    <3> HIDE DEF p
    <3>3. Becomes(b, "reclaim", p, e, w.paused, w.blocked, w.orphan)
      BY <1>0, <1>f, <3>1, <3>2 DEF Becomes, WorkerType, WorkerState, PC
    <3>4. p # Null /\ e # Null
      BY <3>1, NullIsNone
    <3>5. e \in outbox_claims'[b] /\ RecordedType' /\ recorded' = recorded
          /\ \A c \in Browser \ {b} : outbox_claims'[c] = outbox_claims[c]
      BY <1>0, <1>e, <2>1, <2>3 DEF RecordedType
    <3>6. FitsOn(outbox_claims'[b], recorded'[b], "reclaim", p, e, w.paused, w.blocked, w.orphan)
      BY <1>i, <2>1, <3>1, <3>4, <3>5 DEF Fits, FitsOn
    <3>. QED
      BY <3>3, <3>5, <3>6, StepShape
  <2>4. <<w.batch.zip, zip_claims[b][w.batch.zip]>> \in Entry
    BY <1>0, <2>1, EntryPair DEF TypeOK
  <2>. QED
    BY <1>13, <2>2, <2>3, <2>4 DEF PersistBatch, EnqueueOutboxBatch
<1>14. CASE CommitResults(b)
  <2>1. w.pc = "commit" /\ w.entry # Null /\ w.entry \in Entry /\ outbox_claims' = outbox_claims
    BY <1>14, <1>f, <1>i DEF CommitResults, SetZipState, At, Fits, FitsOn
  <2>2. recorded' = [recorded EXCEPT ![b] = @ \cup {<<w.entry, "delivered">>}]
    BY <1>14, <2>1 DEF CommitResults, Recorded
  <2>3. /\ RecordedType' /\ recorded'[b] = recorded[b] \cup {<<w.entry, "delivered">>}
        /\ \A c \in Browser \ {b} : recorded'[c] = recorded[c]
    BY <1>0, <2>1, <2>2 DEF RecordedType
  <2>4. CASE Step(b, "recheck")
    <3>1. Becomes(b, "recheck", w.batch, w.entry, w.paused, w.blocked, w.orphan)
      BY <1>0, <2>4, Moves DEF PC
    <3>2. FitsOn(outbox_claims'[b], recorded'[b], "recheck", w.batch, w.entry, w.paused,
                 w.blocked, w.orphan)
      BY <1>i, <2>1, <2>3 DEF Fits, FitsOn
    <3>. QED
      BY <2>1, <2>3, <3>1, <3>2, StepShape
  <2>5. CASE Retry(b)
    <3>1. Becomes(b, "head", w.batch, Null, w.paused, w.blocked, w.orphan)
      BY <1>0, <2>5, Moves
    <3>2. FitsOn(outbox_claims'[b], recorded'[b], "head", w.batch, Null, w.paused,
                 w.blocked, w.orphan)
      BY <1>i, <2>1, <2>3 DEF Fits, FitsOn
    <3>. QED
      BY <2>1, <2>3, <3>1, <3>2, StepShape
  <2>. QED
    BY <1>14, <2>4, <2>5 DEF CommitResults
<1>15. CASE Acknowledge(b) \/ DiscardBatch(b)
  <2> DEFINE z == w.entry[1]
             n == IF w.batch = Null THEN w.zip_failures[z] ELSE 0
  <2>1. /\ w.entry # Null /\ w.entry \in Entry /\ w.pc \in {"ack", "discard"} /\ z \in Zip
        /\ outbox_claims' = [outbox_claims EXCEPT ![b] = @ \ {w.entry}]
        /\ recorded' = [recorded EXCEPT ![b] = @ \ ({w.entry} \X {"delivered", "quarantined"})]
    BY <1>15, <1>f, <1>i, NullIsNone
    DEF Acknowledge, DiscardBatch, Settled, SettleOutboxBatch, At, Fits, FitsOn
  <2>2. n \in 0 .. 2
    BY <1>f, <2>1
  <2>3. worker' = [worker EXCEPT ![b].pc = "head", ![b].entry = Null, ![b].batch = Null,
                                 ![b].zip_failures[z] = n]
    BY <1>0, <1>15 DEF Acknowledge, DiscardBatch, WorkerType
  <2> HIDE DEF n, z
  <2>4. Becomes(b, "head", Null, Null, w.paused, w.blocked, w.orphan)
    BY <1>0, <2>2, <2>3, CountMoves DEF PC
  <2>5. /\ RecordedType'
        /\ \A c \in Browser \ {b} :
              outbox_claims'[c] = outbox_claims[c] /\ recorded'[c] = recorded[c]
    BY <1>0, <1>e, <2>1 DEF RecordedType
  <2>6. FitsOn(outbox_claims'[b], recorded'[b], "head", Null, Null, w.paused, w.blocked, w.orphan)
    BY <1>i, <2>1 DEF Fits, FitsOn
  <2>. QED
    BY <2>4, <2>5, <2>6, StepShape
<1>16. CASE CondemnZip(b)
  <2> DEFINE z == IF w.entry = Null THEN w.batch.zip ELSE w.entry[1]
  <2>1. /\ w.pc = "condemn" /\ outbox_claims' = outbox_claims
        /\ w.entry = Null => w.batch # Null
    BY <1>16, <1>i DEF CondemnZip, SetZipState, At, Fits, FitsOn
  <2>2. /\ RecordedType' /\ recorded[b] \subseteq recorded'[b]
        /\ w.entry # Null => <<w.entry, "quarantined">> \in recorded'[b]
        /\ \A c \in Browser \ {b} : recorded'[c] = recorded[c]
    BY <1>0, <1>f, <1>16 DEF CondemnZip, Recorded, RecordedType
  <2>3. CASE Retry(b)
    <3>1. Becomes(b, "head", w.batch, Null, w.paused, w.blocked, w.orphan)
      BY <1>0, <2>3, Moves
    <3>2. FitsOn(outbox_claims'[b], recorded'[b], "head", w.batch, Null, w.paused,
                 w.blocked, w.orphan)
      BY <1>i, <2>1, <2>2 DEF Fits, FitsOn
    <3>. QED
      BY <2>1, <2>2, <3>1, <3>2, StepShape
  <2>4. CASE worker' = [worker EXCEPT ![b].pc = "head", ![b].batch = Null,
                                      ![b].zip_failures[z] = 0] /\ w.entry = Null
    <3>0. "head" \in PC /\ 0 \in 0 .. 2
      BY DEF PC
    <3>1. Becomes(b, "head", Null, w.entry, w.paused, w.blocked, w.orphan)
      BY <1>0, <2>4, <3>0, CountStays
    <3>2. FitsOn(outbox_claims'[b], recorded'[b], "head", Null, w.entry, w.paused,
                 w.blocked, w.orphan)
      BY <1>i, <2>1, <2>2, <2>4 DEF Fits, FitsOn
    <3>. QED
      BY <2>1, <2>2, <3>1, <3>2, StepShape
  <2>5. CASE /\ w.entry # Null
             /\ worker' = [worker EXCEPT ![b].pc = "discard",
                              ![b].batch = IF @ = Null THEN Null ELSE [@ EXCEPT !.stage = "marked"]]
    <3> DEFINE p == IF w.batch = Null THEN Null ELSE [w.batch EXCEPT !.stage = "marked"]
    <3>1. /\ p \in PendingBatch \cup {Null}
          /\ w.batch = Null => p = Null
          /\ w.batch # Null => p.entry = w.batch.entry
      BY <1>f DEF PendingBatch
    <3>2. worker' = [worker EXCEPT ![b].pc = "discard", ![b].batch = p]
      BY <1>0, <2>5 DEF WorkerType
    <3> HIDE DEF p
    <3>3. Becomes(b, "discard", p, w.entry, w.paused, w.blocked, w.orphan)
      BY <1>0, <1>f, <3>1, <3>2 DEF Becomes, WorkerType, WorkerState, PC
    <3>4. FitsOn(outbox_claims'[b], recorded'[b], "discard", p, w.entry, w.paused,
                 w.blocked, w.orphan)
      BY <1>i, <2>1, <2>2, <2>5, <3>1 DEF Fits, FitsOn
    <3>. QED
      BY <2>1, <2>2, <3>3, <3>4, StepShape
  <2>. QED
    BY <1>16, <2>3, <2>4, <2>5 DEF CondemnZip
<1>. QED
  BY <1>1, <1>2, <1>3, <1>4, <1>5, <1>6, <1>7, <1>8, <1>9, <1>10, <1>11, <1>12, <1>13, <1>14,
     <1>15, <1>16
  DEF Loop

-----------------------------------------------------------------------------
(* The whole system                                                        *)

LEMMA InitInv == BWInit => BWInv
<1> SUFFICES ASSUME BWInit
             PROVE  BWInv
  OBVIOUS
<1>1. NewProcess \in WorkerState
  BY DEF NewProcess, WorkerState, PC
<1>2. TypeOK /\ outbox_claims = [b \in Browser |-> {}]
  BY InitTypes DEF BWInit, Init
<1>3. BWTypeOK
  BY <1>1, <1>2 DEF BWInit, BWTypeOK
<1>4. ASSUME NEW b \in Browser PROVE LoopShape(b)
  BY <1>2
  DEF BWInit, NewProcess, LoopShape, OnDisk, InHand, Written, Sticky, OrphanShape
<1>. QED
  BY <1>3, <1>4 DEF BWInv

\* The advisory lock and the inventory keep their types.
LEMMA SurroundingTypes ==
    ASSUME BWInv, [BWNext]_bwVars
    PROVE  lock' \in Browser \cup {Null} /\ loss' \in BOOLEAN
<1>0. lock \in Browser \cup {Null} /\ loss \in BOOLEAN
  BY DEF BWInv, BWTypeOK
<1>1. ASSUME NEW b \in Browser, Control(b)
      PROVE  lock' \in {lock, b, Null} /\ loss' = loss
  BY <1>1 DEF Control, Start, Pause, Resume, ResumeRefused, Stop, Exit, Crash, LoseLock,
              RunOrphan, DropOrphan, ProcessingError
<1>2. ASSUME NEW b \in Browser, Loop(b) \/ Heartbeat(b)
      PROVE  UNCHANGED <<lock, loss>>
  BY <1>2
  DEF Loop, Heartbeat, workerVars, TakeOutboxBatch, ClaimNext, ScrapeMaps, PersistBatch,
      RejectBatch, FinishEmpty, CountFailure, ParkFailure, DropFailure, RetryQuarantine, Reclaim,
      GuardBefore, CommitResults, RejectResults, GuardAfter, Acknowledge, CondemnZip,
      DiscardBatch, CallFails
<1>3. ASSUME UNCHANGED workerVars \/ InventoryShrinks \/ InventoryReviewed \/ UNCHANGED bwVars
      PROVE  lock' = lock /\ loss' \in BOOLEAN
  BY <1>0, <1>3 DEF workerVars, bwVars, InventoryShrinks, InventoryReviewed
<1>. QED
  BY <1>0, <1>1, <1>2, <1>3 DEF BWNext, TimePasses

\* What happens outside the loops touches none of them.
LEMMA OutsideUntouched ==
    ASSUME \/ \E b \in Browser : Heartbeat(b)
           \/ (TableStep \/ \E v \in Vm : VmStep(v)) /\ UNCHANGED workerVars
           \/ TimePasses
           \/ InventoryShrinks \/ InventoryReviewed
           \/ UNCHANGED bwVars
    PROVE  UNCHANGED <<worker, outbox_claims, recorded>> /\ \A c \in Browser : Untouched(c)
<1>1. ASSUME TableStep \/ (\E v \in Vm : VmStep(v)) \/ Tick \/ \E b \in Browser : HeartbeatClaims(b)
      PROVE  UNCHANGED outbox_claims
  BY <1>1
  DEF TableStep, RetryFailedZips, TouchZip, RefreshDue, Tick, HeartbeatClaims, browserVars, VmStep,
      VmStart, VmClaim, VmMarkDone, VmMarkError, VmMarkErrorFailed, VmDown
<1>2. UNCHANGED <<worker, outbox_claims, recorded>>
  BY <1>1
  DEF Heartbeat, TimePasses, InventoryShrinks, InventoryReviewed, workerVars, bwVars, vars,
      browserVars
<1>. QED
  BY <1>2 DEF Untouched

LEMMA StepInv == BWInv /\ [BWNext]_bwVars => BWInv'
<1> SUFFICES ASSUME BWInv, [BWNext]_bwVars
             PROVE  BWInv'
  OBVIOUS
<1>0. WorkerType /\ RecordedType /\ \A c \in Browser : LoopShape(c)
  BY DEF BWInv, BWTypeOK, WorkerType, RecordedType
<1>1. TypeOK'
  BY QueueStep, StepTypes DEF BWInv, BWTypeOK
<1>2. lock' \in Browser \cup {Null} /\ loss' \in BOOLEAN
  BY SurroundingTypes
<1>3. WorkerType' /\ RecordedType' /\ \A c \in Browser : LoopShape(c)'
  <2>1. CASE \E b \in Browser : Control(b) \/ Loop(b)
    <3>1. PICK b \in Browser : LocalStep(b)
      BY <2>1, ControlShape, LoopStepShape
    <3>2. \A c \in Browser \ {b} : LoopShape(c)'
      BY <1>0, <3>1, UntouchedShape DEF LocalStep
    <3>. QED
      BY <3>1, <3>2 DEF LocalStep
  <2>2. CASE \/ \E b \in Browser : Heartbeat(b)
             \/ (TableStep \/ \E v \in Vm : VmStep(v)) /\ UNCHANGED workerVars
             \/ TimePasses
             \/ InventoryShrinks \/ InventoryReviewed
             \/ UNCHANGED bwVars
    <3>1. UNCHANGED <<worker, recorded>> /\ \A c \in Browser : Untouched(c)
      BY <2>2, OutsideUntouched
    <3>2. \A c \in Browser : LoopShape(c)'
      BY <1>0, <3>1, UntouchedShape
    <3>. QED
      BY <1>0, <3>1, <3>2 DEF WorkerType, RecordedType
  <2>. QED
    BY <2>1, <2>2 DEF BWNext
<1>. QED
  BY <1>1, <1>2, <1>3 DEF BWInv, BWTypeOK, WorkerType, RecordedType

THEOREM LoopInvariant == BWSpec => []BWInv
  BY InitInv, StepInv, PTL DEF BWSpec

\* The run loop's variables keep their types.
THEOREM LoopTypeCorrect == BWSpec => []BWTypeOK
<1>1. BWInv => BWTypeOK
  BY DEF BWInv
<1>. QED
  BY <1>1, LoopInvariant, PTL

\* _pause_for_inventory_loss: a run that saw a shortfall stands paused at the
\* head of its loop, however stop, start, resume and the guard interleave.
THEOREM PauseIsSticky == BWSpec => []LossPauseSticky
<1>1. BWInv => LossPauseSticky
  BY DEF BWInv, LoopShape, Sticky, LossPauseSticky, At
<1>. QED
  BY <1>1, LoopInvariant, PTL

-----------------------------------------------------------------------------
(* The loop implements the queue                                           *)

\* With pauses, crashes, lost replies and abandoned threads, what the loop
\* does to the shared table is what ZipQueue allows.
THEOREM LoopIsQueueUser == BWSpec => Spec
<1>1. BWInit => Init
  BY DEF BWInit
<1>2. BWInv /\ [BWNext]_bwVars => [Next]_vars
  BY QueueStep
<1>. QED
  BY <1>1, <1>2, LoopInvariant, PTL DEF BWSpec, Spec

\* So the lease's guarantees hold of the workers as they run.
THEOREM LoopKeepsLease == BWSpec => []LeaseExclusive /\ []LeaseMeansHolder /\ LiveLeaseKept
  BY LoopIsQueueUser, LeaseIsExclusive, LeaseNamesHolder, LiveLeaseIsKept, PTL

-----------------------------------------------------------------------------
(* The loop delivers what it made durable                                  *)

\* An abandoned call that still writes may record the outcome of a batch that
\* is on disk.
LEMMA OrphanDelivery ==
    ASSUME BWInv, NEW b \in Browser, RunOrphan(b)
    PROVE  [Delivery!Next]_<<outbox_claims, recorded>>
<1>1. UNCHANGED outbox_claims
  BY DEF RunOrphan, ClaimNextZip, ClaimOutboxZip, SetZipState
<1>2. \A e \in outbox_claims[b] : e \in Entry
  BY DEF BWInv, BWTypeOK, TypeOK, Entry
<1>3. RecordedType
  BY DEF BWInv, BWTypeOK, RecordedType
<1>4. ASSUME NEW e, NEW outcome \in {"delivered", "quarantined"},
             e # Null => e \in outbox_claims[b], Recorded(b, e, outcome)
      PROVE  [Delivery!Next]_<<outbox_claims, recorded>>
  <2>1. CASE e = Null
    BY <1>1, <1>3, <1>4, <2>1 DEF Recorded, RecordedType
  <2>2. CASE e # Null
    <3>1. Delivery!Record(b, e, outcome)
      BY <1>1, <1>4, <2>2 DEF Recorded, Delivery!Record
    <3>. QED
      BY <1>2, <1>4, <2>2, <3>1 DEF Delivery!Next, Delivery!Outcome
  <2>. QED
    BY <2>1, <2>2
<1>. QED
  BY <1>1, <1>4 DEF RunOrphan

LEMMA ControlDelivery ==
    ASSUME BWInv, NEW b \in Browser, Control(b)
    PROVE  [Delivery!Next]_<<outbox_claims, recorded>>
<1>1. CASE RunOrphan(b)
  BY <1>1, OrphanDelivery
<1>2. CASE ~RunOrphan(b)
  BY <1>2
  DEF Control, Start, Pause, Resume, ResumeRefused, Stop, Exit, Crash, LoseLock, DropOrphan,
      ProcessingError, ReleaseZipClaims, BrowserDown, vars, browserVars
<1>. QED
  BY <1>1, <1>2

LEMMA LoopDelivery ==
    ASSUME BWInv, NEW b \in Browser, Loop(b)
    PROVE  [Delivery!Next]_<<outbox_claims, recorded>>
<1> DEFINE w == worker[b]
<1>0. WorkerType /\ RecordedType /\ LoopShape(b) /\ outbox_claims \in [Browser -> SUBSET Entry]
  BY DEF BWInv, BWTypeOK, WorkerType, RecordedType, TypeOK, Entry
<1>i. Fits(b, w.pc, w.batch, w.entry, w.paused, w.blocked, w.orphan)
  BY <1>0, ShapeFits
<1>1. CASE PersistBatch(b)
  <2> DEFINE e == <<w.batch.zip, zip_claims[b][w.batch.zip]>>
  <2>1. CASE UNCHANGED <<outbox_claims, recorded>>
    BY <2>1
  <2>2. CASE w.batch.entry = Null /\ EnqueueOutboxBatch(b, w.batch.zip) /\ UNCHANGED recorded
    <3>1. w.batch # Null /\ w.batch.zip \in Zip
      BY <1>0, <1>1, Fields, BatchFields DEF PersistBatch, Processing
    <3>2. e \in Entry
      BY <3>1, EntryPair DEF BWInv, BWTypeOK, TypeOK
    <3>3. outbox_claims[b] = {}
      BY <1>i, <2>2, <3>1 DEF Fits, FitsOn
    <3>4. outbox_claims' = [outbox_claims EXCEPT ![b] = {e}]
      BY <1>0, <2>2, <3>3 DEF EnqueueOutboxBatch
    <3>5. Delivery!Persist(b, e)
      BY <2>2, <3>3, <3>4 DEF Delivery!Persist
    <3>. QED
      BY <3>2, <3>5 DEF Delivery!Next
  <2>. QED
    BY <1>1, <2>1, <2>2 DEF PersistBatch, vars, browserVars
<1>2. CASE CommitResults(b)
  <2>1. /\ w.entry # Null /\ w.entry \in outbox_claims[b] /\ w.entry \in Entry
        /\ UNCHANGED outbox_claims
    BY <1>0, <1>2, <1>i DEF CommitResults, SetZipState, At, Fits, FitsOn
  <2>2. Delivery!Record(b, w.entry, "delivered")
    BY <1>2, <2>1 DEF CommitResults, Recorded, Delivery!Record
  <2>. QED
    BY <2>1, <2>2 DEF Delivery!Next, Delivery!Outcome
<1>3. CASE CondemnZip(b)
  <2>1. UNCHANGED outbox_claims /\ Recorded(b, w.entry, "quarantined")
    BY <1>3 DEF CondemnZip, SetZipState
  <2>2. CASE w.entry = Null
    BY <1>0, <2>1, <2>2 DEF Recorded, RecordedType
  <2>3. CASE w.entry # Null
    <3>1. w.entry \in outbox_claims[b] /\ w.entry \in Entry
      BY <1>0, <1>i, <2>3 DEF Fits, FitsOn
    <3>2. Delivery!Record(b, w.entry, "quarantined")
      BY <2>1, <2>3, <3>1 DEF Recorded, Delivery!Record
    <3>. QED
      BY <3>1, <3>2 DEF Delivery!Next, Delivery!Outcome
  <2>. QED
    BY <2>2, <2>3
<1>4. CASE Acknowledge(b) \/ DiscardBatch(b)
  <2>1. /\ w.entry # Null /\ w.entry \in outbox_claims[b] /\ w.entry \in Entry
        /\ \E outcome \in {"delivered", "quarantined"} : <<w.entry, outcome>> \in recorded[b]
    BY <1>0, <1>4, <1>i DEF Acknowledge, DiscardBatch, At, Fits, FitsOn
  <2>2. PICK outcome \in {"delivered", "quarantined"} : Delivery!Settle(b, w.entry, outcome)
    BY <1>4, <2>1
    DEF Acknowledge, DiscardBatch, Settled, SettleOutboxBatch, Delivery!Settle, Delivery!Outcome
  <2>. QED
    BY <2>1, <2>2 DEF Delivery!Next, Delivery!Outcome
<1>5. CASE ~(PersistBatch(b) \/ CommitResults(b) \/ CondemnZip(b)
             \/ Acknowledge(b) \/ DiscardBatch(b))
  <2>1. UNCHANGED <<outbox_claims, recorded>>
    BY <1>5
    DEF Loop, TakeOutboxBatch, ClaimNext, ClaimNextZip, ScrapeMaps, RejectBatch, FinishEmpty,
        SetZipState, CountFailure, ParkFailure, DropFailure, RetryQuarantine, Reclaim,
        ClaimOutboxZip, GuardBefore, RejectResults, GuardAfter, CallFails, vars, browserVars
  <2>. QED
    BY <2>1
<1>. QED
  BY <1>1, <1>2, <1>3, <1>4, <1>5

\* However a run is paused, stopped, killed, repeated or answered late, a batch
\* that reached the disk is settled once Cloud SQL holds its outcome and never
\* dropped, and no new one is made while it waits.
THEOREM LoopDelivers == BWSpec => KeepsDelivery
<1>1. BWInit => Delivery!Init
  BY DEF BWInit, Init, Delivery!Init
<1>2. BWInv /\ [BWNext]_bwVars => [Delivery!Next]_(Delivery!vars)
  <2> SUFFICES ASSUME BWInv, [BWNext]_bwVars
               PROVE  [Delivery!Next]_<<outbox_claims, recorded>>
    BY DEF Delivery!vars
  <2>1. CASE \E b \in Browser : Control(b) \/ Loop(b)
    BY <2>1, ControlDelivery, LoopDelivery
  <2>2. CASE \/ \E b \in Browser : Heartbeat(b)
             \/ (TableStep \/ \E v \in Vm : VmStep(v)) /\ UNCHANGED workerVars
             \/ TimePasses
             \/ InventoryShrinks \/ InventoryReviewed
             \/ UNCHANGED bwVars
    <3>1. UNCHANGED <<outbox_claims, recorded>>
      BY <2>2, OutsideUntouched
    <3>. QED
      BY <3>1
  <2>. QED
    BY <2>1, <2>2 DEF BWNext
<1>. QED
  BY <1>1, <1>2, LoopInvariant, PTL DEF BWSpec, KeepsDelivery, Delivery!Spec

=============================================================================
