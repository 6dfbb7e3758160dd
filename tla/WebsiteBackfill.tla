--------------------------- MODULE WebsiteBackfill ---------------------------
(***************************************************************************)
(* The historical pass of the browser worker's website enrichment: a       *)
(* keyset scan of the hotel inventory that admits jobs into the local      *)
(* SQLite queue (website_queue.py), collectors that fetch the websites,    *)
(* and the run loop that applies the evidence (worker.py); with the        *)
(* operator's start and pause buttons, and with threads of a stopped run   *)
(* that are still at work when the next one begins.                        *)
(*                                                                         *)
(* Every step is one SQLite transaction or one remote read or write.       *)
(* Times are abstracted: a job's next_attempt is the bit `due`, and the    *)
(* age at which a completed pass is repeated is left open.                 *)
(***************************************************************************)
EXTENDS Naturals, FiniteSets

CONSTANTS
    MaxHotel,     \* bound on the hotel ids 1 .. MaxHotel
    MaxSeen,      \* bound on the observations of a hotel (its last_seen)
    Unusable,     \* hotels with neither a website nor a Maps identity
    Hostless,     \* hotels whose website text has no host name ("www.inn.com")
    BatchSize,    \* WEBSITE_BACKFILL_BATCH_SIZE
    MaxPending,   \* WEBSITE_BACKFILL_MAX_PENDING
    MaxAttempts,  \* WEBSITE_MAX_ATTEMPTS
    Collectors,   \* collector_limit()
    Delays,       \* may a job be put off before it is first fetched?
    AutoStart,    \* WEBSITE_AUTONOMOUS and WEBSITE_BACKFILL_AUTO_START
    Interruptions, \* how a run of the worker ends: "stop", "crash"
    MaxRuns       \* bound on the passes that are started

Hotel == 1 .. MaxHotel
Seen  == 0 .. MaxSeen
RunId == 1 .. MaxRuns

ASSUME WebsiteBackfillAssumption ==
    /\ {MaxHotel, BatchSize, MaxPending, MaxAttempts, Collectors, MaxRuns}
          \subseteq Nat \ {0}
    /\ MaxSeen \in Nat
    /\ Unusable \subseteq Hotel /\ Hostless \subseteq Hotel
    /\ {Delays, AutoStart} \subseteq BOOLEAN
    /\ Interruptions \subseteq {"stop", "crash"}

VARIABLES
    run,         \* the row of website_backfill_runs
    jobs,        \* website_jobs, of the passes
    scan,        \* _scan_website_backfill, this run's and a stopped run's
    fetching,    \* the collectors of this run (_website_fetches)
    late,        \* save_result calls of a stopped run, still in their thread
    applying,    \* evidence committed to the hotel row, job not finished yet
    up,          \* is the run loop running?
    abandoned,   \* history: a stopped run has left a thread at work
    maxId,       \* the largest hotel id in the inventory
    seen,        \* the observation a hotel row holds
    incomplete,  \* hotels with a blank field
    steady       \* history: those nothing but their own job of the pass filled

runVars == <<run, jobs>>
workVars  == <<fetching, late, applying, up, abandoned>>
hotelVars == <<maxId, seen, incomplete, steady>>
backfillVars == <<runVars, scan, workVars, hotelVars>>

RunState == {"not_started", "running", "paused", "draining", "paused_draining"}
Queued   == {"pending", "retry", "fetched"}

\* "finished" stands for applied and skipped; an unverified result is skipped
\* too, since the worker decides alone (WEBSITE_AUTONOMOUS).
JobState == Queued \cup {"none", "finished"}

\* enqueue hashes the pass, the hotel and the observation into the job's id.
JobId == [ run : RunId, hotel : Hotel, seen : Seen ]

JobRecord ==
    [ state : JobState, attempts : 0 .. MaxAttempts, due : BOOLEAN ]

\* A collector's copy of its job: which one, and the attempts it had.
Fetch == [ job : JobId, attempts : 0 .. MaxAttempts - 1 ]

Scanner == {"task", "orphan"}
Scan ==
    [ phase : {"idle", "start", "read", "enqueue", "checkpoint"},
      run : 0 .. MaxRuns, ceiling : 0 .. MaxHotel, at : 0 .. MaxHotel,
      rows : SUBSET (Hotel \X Seen), slots : 0 .. MaxPending,
      exhausted : BOOLEAN ]

IdleScan ==
    [ phase |-> "idle", run |-> 0, ceiling |-> 0, at |-> 0, rows |-> {},
      slots |-> 0, exhausted |-> FALSE ]

NoJob == [state |-> "none", attempts |-> 0, due |-> TRUE]

\* Every variable holds a value of its kind.
BackfillTypeOK ==
    /\ run \in [ id : 0 .. MaxRuns, state : RunState, cursor : 0 .. MaxHotel,
                 ceiling : 0 .. MaxHotel ]
    /\ jobs \in [JobId -> JobRecord]
    /\ scan \in [Scanner -> Scan]
    /\ fetching \subseteq Fetch /\ late \subseteq Fetch
    /\ applying \subseteq JobId
    /\ up \in BOOLEAN /\ abandoned \in BOOLEAN
    /\ maxId \in 0 .. MaxHotel
    /\ seen \in [Hotel -> Seen]
    /\ incomplete \subseteq Hotel /\ steady \subseteq Hotel

BackfillInit ==
    /\ run = [id |-> 0, state |-> "not_started", cursor |-> 0, ceiling |-> 0]
    /\ jobs = [j \in JobId |-> NoJob]
    /\ scan = [s \in Scanner |-> IdleScan]
    /\ fetching = {} /\ late = {} /\ applying = {}
    /\ up = FALSE /\ abandoned = FALSE
    /\ maxId \in {MaxHotel - 1, MaxHotel}
    /\ seen = [h \in Hotel |-> 0]
    /\ incomplete = 1 .. maxId
    /\ steady = {}

-----------------------------------------------------------------------------
(* The pass                                                                *)

\* Mutant of Active: fetched evidence that waits for the run loop is not counted.
ActiveUnfetched(r) == {j \in JobId : j.run = r /\ jobs[j].state \in {"pending", "retry"}}

Active(r) == {j \in JobId : j.run = r /\ jobs[j].state \in Queued}
Paused == run.state \in {"paused", "paused_draining"}

\* backfill_status: a draining pass without queued jobs reads as completed.
BackfillStatus ==
    IF run.state = "draining" /\ Active(run.id) = {} THEN "completed" ELSE run.state

ResumeRun ==
    /\ run' = [run EXCEPT !.state = IF @ = "paused" THEN "running" ELSE "draining"]
    /\ UNCHANGED steady

NewPass(ceiling) ==
    /\ run.id < MaxRuns
    /\ run' = [id |-> run.id + 1, state |-> "running", cursor |-> 0,
               ceiling |-> ceiling]
    /\ steady' = incomplete \cap 1 .. ceiling

\* Mutant of start_backfill: a paused pass whose scan has ended starts over.
StartOver(ceiling) ==
    \/ BackfillStatus \in {"running", "draining"} /\ UNCHANGED <<run, steady>>
    \/ BackfillStatus = "paused" /\ ResumeRun
    \/ BackfillStatus \in {"not_started", "completed", "paused_draining"} /\ NewPass(ceiling)

\* start_backfill: nothing for a running pass, resumes a paused one, replaces
\* a completed one.
start_backfill(ceiling) ==
    \/ BackfillStatus \in {"running", "draining"} /\ UNCHANGED <<run, steady>>
    \/ Paused /\ ResumeRun
    \/ BackfillStatus \in {"not_started", "completed"} /\ NewPass(ceiling)

\* The dashboard's "Start / resume backfill"
StartBackfill ==
    /\ start_backfill(maxId)
    /\ UNCHANGED <<jobs, scan, workVars, maxId, seen, incomplete>>

\* The dashboard's "Pause backfill"
PauseBackfill ==
    /\ run.state \in {"running", "draining"}
    /\ run' = [run EXCEPT !.state = IF @ = "running" THEN "paused"
                                    ELSE "paused_draining"]
    /\ UNCHANGED <<jobs, scan, workVars, hotelVars>>

-----------------------------------------------------------------------------
(* _scan_website_backfill, in the thread of the run's fetch task; the thread *)
(* outlives a stop of the run ("orphan").                                  *)

\* Mutant of FreeSlots: the cap without the jobs that are queued already.
WholeCap(r) == MaxPending

FreeSlots(r) ==
    LET active == Cardinality(Active(r)) IN
    IF active < MaxPending THEN MaxPending - active ELSE 0

\* What the scan goes on with once it has seen the pass as r.
Admit(r) ==
    IF r.state = "running" /\ FreeSlots(r.id) > 0
    THEN [IdleScan EXCEPT !.phase = "read", !.run = r.id, !.at = r.cursor,
                          !.ceiling = r.ceiling, !.slots = FreeSlots(r.id)]
    ELSE IdleScan

\* backfill_status, and whether the pass is to be started automatically
ScanBegin ==
    /\ up /\ scan["task"].phase = "idle"
    /\ \/ /\ AutoStart /\ BackfillStatus \in {"not_started", "completed"}
          /\ scan' = [scan EXCEPT !["task"] = [IdleScan EXCEPT !.phase = "start"]]
       \/ /\ BackfillStatus = "running"
          /\ scan' = [scan EXCEPT !["task"] = Admit(run)]
    /\ UNCHANGED <<runVars, workVars, hotelVars>>

\* SELECT max(id), then start_backfill, whatever the pass has become meanwhile
ScanStart(s) ==
    /\ scan[s].phase = "start"
    /\ start_backfill(maxId)
    /\ scan' = [scan EXCEPT ![s] = Admit(run')]
    /\ UNCHANGED <<jobs, workVars, maxId, seen, incomplete>>

\* WHERE id > cursor AND id <= ceiling AND a field is blank ORDER BY id LIMIT n
ScanRead(s) ==
    LET found == {h \in incomplete : scan[s].at < h /\ h <= scan[s].ceiling}
        batch == {h \in found : Cardinality({g \in found : g < h}) < BatchSize}
    IN
    /\ scan[s].phase = "read"
    /\ scan' = [scan EXCEPT ![s] =
          IF batch = {}
          THEN [@ EXCEPT !.phase = "checkpoint", !.at = scan[s].ceiling, !.exhausted = TRUE]
          ELSE [@ EXCEPT !.phase = "enqueue", !.rows = {<<h, seen[h]>> : h \in batch}]]
    /\ UNCHANGED <<runVars, workVars, hotelVars>>

\* enqueue: INSERT OR IGNORE; a restricted website starts with a delay.
enqueue(j) ==
    \E due \in {TRUE, ~Delays} :
        jobs' = IF jobs[j].state = "none"
                THEN [jobs EXCEPT ![j] = [NoJob EXCEPT !.state = "pending", !.due = due]]
                ELSE jobs

\* Mutant of ScanEnqueue: a scan that runs out of slots goes to its batch's end.
ScanEnqueueAhead(s, h) ==
    /\ scan[s].phase = "enqueue" /\ \A row \in scan[s].rows : h <= row[1]
    /\ \E row \in scan[s].rows :
          /\ row[1] = h /\ enqueue([run |-> scan[s].run, hotel |-> h, seen |-> row[2]])
    /\ \E last \in scan[s].rows :
          /\ \A row \in scan[s].rows : row[1] <= last[1]
          /\ scan' = [scan EXCEPT ![s].phase = "checkpoint", ![s].rows = {}, ![s].at = last[1]]
    /\ UNCHANGED <<run, workVars, hotelVars>>

\* The next row: a hotel with nothing to fetch takes no slot.
ScanEnqueue(s, h) ==
    /\ scan[s].phase = "enqueue"
    /\ \E o \in Seen :
          /\ <<h, o>> \in scan[s].rows
          /\ \A row \in scan[s].rows : h <= row[1]
          /\ LET rest  == scan[s].rows \ {<<h, o>>}
                 slots == IF h \in Unusable THEN scan[s].slots ELSE scan[s].slots - 1
                 done  == rest = {} \/ slots = 0
             IN
             /\ IF h \in Unusable THEN UNCHANGED jobs
                ELSE enqueue([run |-> scan[s].run, hotel |-> h, seen |-> o])
             /\ scan' = [scan EXCEPT ![s] =
                   [@ EXCEPT !.phase = IF done THEN "checkpoint" ELSE "enqueue",
                             !.rows = IF done THEN {} ELSE rest,
                             !.slots = slots, !.at = h]]
    /\ UNCHANGED <<run, workVars, hotelVars>>

\* Mutant of checkpoint_backfill: without "AND run_id=?".
CheckpointAnyPass(r, cursor, exhausted) ==
    run' = [run EXCEPT
              !.cursor = cursor,
              !.state = CASE exhausted /\ @ = "running" -> "draining"
                          [] exhausted /\ @ = "paused"  -> "paused_draining"
                          [] OTHER -> @]

checkpoint_backfill(r, cursor, exhausted) ==
    IF run.id = r
    THEN run' = [run EXCEPT
              !.cursor = cursor,
              !.state = CASE exhausted /\ @ = "running" -> "draining"
                          [] exhausted /\ @ = "paused"  -> "paused_draining"
                          [] OTHER -> @]
    ELSE UNCHANGED run

ScanCheckpoint(s) ==
    /\ scan[s].phase = "checkpoint"
    /\ checkpoint_backfill(scan[s].run, scan[s].at, scan[s].exhausted)
    /\ scan' = [scan EXCEPT ![s] = IdleScan]
    /\ UNCHANGED <<jobs, workVars, hotelVars>>

\* Any of its calls raises: the next scan begins at the stored cursor.
ScanFails(s) ==
    /\ scan[s].phase # "idle"
    /\ scan' = [scan EXCEPT ![s] = IdleScan]
    /\ UNCHANGED <<runVars, workVars, hotelVars>>

-----------------------------------------------------------------------------
(* The collectors                                                          *)

\* next_job's conditions, but for the state
Eligible(j) == jobs[j].due /\ ~(j.run = run.id /\ Paused)

\* Mutant of Launch: next_job without network_only offers fetched evidence too.
LaunchFetched(j) ==
    /\ up /\ Eligible(j)
    /\ jobs[j].state \in Queued
    /\ j.hotel \notin Hostless
    /\ \A f \in fetching : f.job # j
    /\ Cardinality(fetching) < Collectors
    /\ fetching' = fetching \cup {[job |-> j, attempts |-> jobs[j].attempts]}
    /\ UNCHANGED <<runVars, scan, late, applying, up, abandoned, hotelVars>>

\* next_job(network_only), then a task of its own
Launch(j) ==
    /\ up /\ Eligible(j)
    /\ jobs[j].state \in {"pending", "retry"}
    /\ j.hotel \notin Hostless
    /\ \A f \in fetching : f.job # j
    /\ Cardinality(fetching) < Collectors
    /\ fetching' = fetching \cup {[job |-> j, attempts |-> jobs[j].attempts]}
    /\ UNCHANGED <<runVars, scan, late, applying, up, abandoned, hotelVars>>

\* Maps discovery over its daily cap
Defer(j) ==
    /\ Delays /\ up /\ Eligible(j)
    /\ jobs[j].state \in {"pending", "retry"}
    /\ jobs' = [jobs EXCEPT ![j].due = FALSE]
    /\ UNCHANGED <<run, scan, workVars, hotelVars>>

\* next_attempt comes
BackoffElapses(j) ==
    /\ jobs[j].state \in Queued /\ ~jobs[j].due
    /\ jobs' = [jobs EXCEPT ![j].due = TRUE]
    /\ UNCHANGED <<run, scan, workVars, hotelVars>>

\* Mutant of AttemptsAfter: an attempt that is not counted.
Uncounted(f) == f.attempts

AttemptsAfter(f) == f.attempts + 1

\* save_result, on whatever the job has become since f copied it
save_result(f) ==
    \/ /\ AttemptsAfter(f) < MaxAttempts
       /\ jobs' = [jobs EXCEPT ![f.job] =
             [state |-> "retry", attempts |-> AttemptsAfter(f), due |-> FALSE]]
    \/ jobs' = [jobs EXCEPT ![f.job] =
             [state |-> "fetched", attempts |-> AttemptsAfter(f), due |-> TRUE]]

SaveResult(j) ==
    /\ \E f \in fetching : f.job = j /\ save_result(f) /\ fetching' = fetching \ {f}
    /\ UNCHANGED <<run, scan, late, applying, up, abandoned, hotelVars>>

\* Its write raises; the job is as it was.
CollectorFails(f) ==
    /\ fetching' = fetching \ {f}
    /\ UNCHANGED <<runVars, scan, late, applying, up, abandoned, hotelVars>>

\* The thread of a collector that was cancelled in save_result
LateSave(f) ==
    /\ late' = late \ {f}
    /\ save_result(f) \/ UNCHANGED jobs
    /\ UNCHANGED <<run, scan, fetching, applying, up, abandoned, hotelVars>>

-----------------------------------------------------------------------------
(* Applying the evidence, in the run loop, and the end of a run            *)

\* Fetched evidence reaches the hotel row, or is held, stale or unmatched.
Apply(j) ==
    /\ up /\ applying = {}
    /\ jobs[j].state = "fetched" /\ Eligible(j)
    /\ applying' = {j}
    /\ \/ UNCHANGED <<incomplete, steady>>
       \/ /\ incomplete' = incomplete \ {j.hotel}
          /\ steady' = IF j.run = run.id THEN steady ELSE steady \ {j.hotel}
    /\ UNCHANGED <<runVars, scan, fetching, late, up, abandoned, maxId, seen>>

Finish ==
    /\ \E j \in applying : jobs' = [jobs EXCEPT ![j].state = "finished"]
    /\ applying' = {}
    /\ UNCHANGED <<run, scan, fetching, late, up, abandoned, hotelVars>>

StartWorker ==
    /\ ~up /\ up' = TRUE
    /\ UNCHANGED <<runVars, scan, fetching, late, applying, abandoned, hotelVars>>

\* stop() cancels the tasks; a call that is in a thread goes on in it.
\* Bounds: one orphaned scan, and no more late writes than collectors.
StopWorker ==
    /\ "stop" \in Interruptions /\ up /\ up' = FALSE
    /\ \/ scan["task"].phase = "idle" /\ UNCHANGED scan
       \/ /\ scan["task"].phase # "idle" /\ scan["orphan"].phase = "idle"
          /\ scan' = [task |-> IdleScan, orphan |-> scan["task"]]
    /\ \E saving \in SUBSET fetching :
          /\ Cardinality(late \cup saving) <= Collectors
          /\ late' = late \cup saving
          /\ abandoned' = (abandoned \/ saving # {} \/ scan["task"].phase # "idle")
    /\ fetching' = {} /\ applying' = {}
    /\ UNCHANGED <<runVars, hotelVars>>

\* The process dies.
CrashWorker ==
    /\ "crash" \in Interruptions /\ up /\ up' = FALSE
    /\ scan' = [s \in Scanner |-> IdleScan]
    /\ fetching' = {} /\ late' = {} /\ applying' = {}
    /\ UNCHANGED <<runVars, abandoned, hotelVars>>

-----------------------------------------------------------------------------
(* Other writers of the inventory                                          *)

\* Maps or the VM fills the blanks of a hotel.
FilledElsewhere(h) ==
    /\ h \in incomplete
    /\ incomplete' = incomplete \ {h} /\ steady' = steady \ {h}
    /\ UNCHANGED <<runVars, scan, workVars, maxId, seen>>

\* Maps comes across a hotel again: its last_seen moves.
Observe(h) ==
    /\ h <= maxId /\ seen[h] < MaxSeen
    /\ seen' = [seen EXCEPT ![h] = @ + 1]
    /\ UNCHANGED <<runVars, scan, workVars, maxId, incomplete, steady>>

NewHotel ==
    /\ maxId < MaxHotel
    /\ maxId' = maxId + 1
    /\ incomplete' = incomplete \cup {maxId + 1}
    /\ UNCHANGED <<runVars, scan, workVars, seen, steady>>

-----------------------------------------------------------------------------
ScanWorks(s) ==
    \/ ScanStart(s) \/ ScanRead(s) \/ ScanCheckpoint(s)
    \/ \E h \in Hotel : ScanEnqueue(s, h)

\* What raises in the fetch loop; an error of a collector pauses the worker.
Fault ==
    \/ \E s \in Scanner : ScanFails(s)
    \/ \E f \in fetching : CollectorFails(f)

BackfillNext ==
    \/ StartBackfill \/ PauseBackfill
    \/ ScanBegin \/ \E s \in Scanner : ScanWorks(s)
    \/ \E j \in JobId : Launch(j) \/ Defer(j) \/ BackoffElapses(j) \/ SaveResult(j) \/ Apply(j)
    \/ Fault
    \/ \E f \in late : LateSave(f)
    \/ Finish \/ StartWorker \/ StopWorker \/ CrashWorker
    \/ \E h \in Hotel : FilledElsewhere(h) \/ Observe(h)
    \/ NewHotel

BackfillSpec == BackfillInit /\ [][BackfillNext]_backfillVars

\* The fetch loop scans every 15 seconds and fills free collectors every
\* quarter of a second; a job put off by the daily Maps cap has its turn in the
\* end.
BackfillFairness ==
    /\ WF_backfillVars(ScanBegin)
    /\ \A s \in Scanner : WF_backfillVars(ScanWorks(s))
    /\ \A j \in JobId : WF_backfillVars(BackoffElapses(j))
    /\ SF_backfillVars(\E j \in JobId : Launch(j))
    /\ WF_backfillVars(\E j \in JobId : SaveResult(j))
    /\ WF_backfillVars(\E j \in JobId : Apply(j))
    /\ WF_backfillVars(Finish)

FairBackfillSpec == BackfillSpec /\ BackfillFairness

-----------------------------------------------------------------------------
(* Properties                                                              *)

JobsOf(r, h) == {j \in JobId : j.run = r /\ j.hotel = h /\ jobs[j].state # "none"}

\* worker.py, "Enqueue first, checkpoint second": behind the cursor of the
\* pass no hotel is missing that had a blank from the start of the pass on
\* and something to fetch; whatever fails, stops, or runs beside its successor.
ScanCovers ==
    \A h \in steady \ Unusable :
        h <= run.cursor => JobsOf(run.id, h) # {}

\* backfill_status: a pass that reads as completed has dealt with every such
\* hotel of its snapshot.
PassComplete ==
    BackfillStatus = "completed" =>
        \A h \in steady \ Unusable :
            \E j \in JobsOf(run.id, h) : jobs[j].state = "finished"

\* start_backfill, "retain the original snapshot": until it is completed a pass
\* is neither replaced nor given a later ceiling, by a start, a resume, a
\* pause, an automatic start or a scan of an earlier pass.
SnapshotKept ==
    [][ run.id # 0 /\ BackfillStatus # "completed"
        => run'.id = run.id /\ run'.ceiling = run.ceiling ]_backfillVars

\* "The historical admission cap is per backfill run": until a run is stopped
\* with a scan or a save in a thread, no pass has more than MaxPending queued
\* jobs, however often a scan fails or crashes behind its stored cursor.
AdmissionCap == ~abandoned => \A r \in RunId : Cardinality(Active(r)) <= MaxPending

\* Until a stop leaves a thread at work, jobs only go forward: a website that is
\* finished is not fetched again, evidence that waits for the run loop is not
\* fetched over, and no attempt is forgotten, though save_result, defer and
\* finish write by id whatever the job has become (website_queue.py).
JobsAdvance ==
    [][ ~abandoned => \A j \in JobId :
          /\ jobs[j].state = "finished" => jobs'[j] = jobs[j]
          /\ jobs[j].state = "fetched" => jobs'[j].state \in {"fetched", "finished"}
          /\ jobs[j].attempts <= jobs'[j].attempts ]_backfillVars

\* A pass that is not paused for good is completed, once the worker stays up
\* and its reads and writes succeed.
PassCompletes ==
    <>[]up /\ <>[]~Paused /\ <>[][~Fault]_backfillVars =>
        \A r \in RunId : run.id = r ~> (run.id # r \/ BackfillStatus = "completed")

\* docs/PRODUCTION_WRITE_SAFETY.md: "A user-paused pass is never automatically
\* resumed", that is, by a scan.
UserPauseKept ==
    [][ Paused /\ (\E s \in Scanner : ScanStart(s)) => Paused' ]_backfillVars

=============================================================================
