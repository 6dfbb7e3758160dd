----------------------- MODULE WebsiteBackfillProofs -----------------------
(***************************************************************************)
(* Proofs about the historical pass of WebsiteBackfill, for any inventory, *)
(* batch size, caps and number of passes.  That the scan leaves no hotel   *)
(* out rests on what each scan in flight, of this run or of a stopped one, *)
(* has covered so far (ScanFine), and on a hotel of the pass that lost its *)
(* blank having lost it through a job of the pass (StillBlank).            *)
(***************************************************************************)
EXTENDS WebsiteBackfill, FiniteSetTheorems, WellFoundedInduction, TLAPS

\* The pass has a job for hotel h.
Admitted(h) == JobsOf(run.id, h) # {}

\* A job that is still to be fetched has an attempt left.
AttemptsLeft ==
    \A j \in JobId : jobs[j].state \in {"pending", "retry"} => jobs[j].attempts < MaxAttempts

\* What a scan in flight has covered of the pass it belongs to.
ScanFine(s) ==
    scan[s].phase \in {"read", "enqueue", "checkpoint"} =>
        /\ 0 < scan[s].run /\ scan[s].run <= run.id
        /\ scan[s].phase # "checkpoint" => 0 < scan[s].slots /\ ~ scan[s].exhausted
        /\ scan[s].run = run.id =>
              /\ scan[s].ceiling = run.ceiling
              /\ scan[s].exhausted => scan[s].at = scan[s].ceiling
              /\ scan[s].phase # "enqueue" =>
                    \A h \in steady \ Unusable : h <= scan[s].at => Admitted(h)
              /\ scan[s].phase = "enqueue" =>
                    \A h \in steady \ Unusable, row \in scan[s].rows :
                        h <= row[1] => Admitted(h) \/ \E o \in Seen : <<h, o>> \in scan[s].rows

\* The pass and its snapshot of the hotels.
PassShape ==
    /\ run.id = 0 <=> run.state = "not_started"
    /\ \A h \in steady : h <= run.ceiling

StillBlank == \A h \in steady \ incomplete : Admitted(h)

\* Once the scan of the pass has ended, its jobs cover the snapshot.
Drained ==
    run.state \in {"draining", "paused_draining"} =>
        \A h \in steady \ Unusable : Admitted(h)

BackfillInv ==
    /\ BackfillTypeOK /\ AttemptsLeft /\ PassShape /\ StillBlank /\ Drained /\ ScanCovers
    /\ \A s \in Scanner : ScanFine(s)

-----------------------------------------------------------------------------
(* Constants and helpers                                                   *)

LEMMA Bounds ==
    /\ MaxHotel \in Nat /\ BatchSize \in Nat /\ MaxPending \in Nat /\ MaxAttempts \in Nat
    /\ Collectors \in Nat /\ MaxRuns \in Nat /\ MaxSeen \in Nat
    /\ 0 < MaxHotel /\ 0 < BatchSize /\ 0 < MaxPending /\ 0 < MaxAttempts /\ 0 < MaxRuns
    /\ Hotel \subseteq Nat /\ RunId \subseteq Nat /\ Seen \subseteq Nat
    /\ IsFiniteSet(Hotel)
<1>1. MaxHotel \in Nat /\ BatchSize \in Nat /\ MaxPending \in Nat /\ MaxAttempts \in Nat
      /\ Collectors \in Nat /\ MaxRuns \in Nat /\ MaxSeen \in Nat
      /\ 0 < MaxHotel /\ 0 < BatchSize /\ 0 < MaxPending /\ 0 < MaxAttempts /\ 0 < MaxRuns
  BY WebsiteBackfillAssumption
<1>2. IsFiniteSet(Hotel)
  BY <1>1, FS_Interval DEF Hotel
<1>. QED
  BY <1>1, <1>2 DEF Hotel, RunId, Seen

LEMMA LeastHotel ==
    ASSUME NEW T \in SUBSET Hotel, T # {}
    PROVE  \E h \in T : \A g \in T : h <= g
<1> DEFINE R == OpToRel(<, Nat)
<1>1. IsWellFoundedOn(R, Nat)
  BY NatLessThanWellFounded
<1>2. \A x, y \in Nat : y < x => <<y, x>> \in R
  BY DEF OpToRel
<1>3. T \subseteq Nat
  BY Bounds
<1> HIDE DEF R
<1>4. PICK h \in T : \A g \in T : ~ (<<g, h>> \in R)
  BY <1>1, <1>3, WFMin
<1>5. \A g \in T : ~ (g < h)
  BY <1>2, <1>3, <1>4
<1>. QED
  BY <1>3, <1>5

LEMMA JobsFinite == IsFiniteSet(JobId)
<1> DEFINE Triple == RunId \X (Hotel \X Seen)
           f == [j \in JobId |-> <<j.run, <<j.hotel, j.seen>>>>]
<1>1. IsFiniteSet(Hotel) /\ IsFiniteSet(Seen) /\ IsFiniteSet(RunId)
  BY Bounds, FS_Interval DEF Hotel, Seen, RunId
<1>2. IsFiniteSet(Triple)
  <2>1. IsFiniteSet(Hotel \X Seen)
    BY <1>1, FS_Product
  <2>. QED
    BY <1>1, <2>1, FS_Product
<1>3. f \in [JobId -> Triple]
  BY DEF JobId
<1>4. \A i, j \in JobId : f[i] = f[j] => i = j
  BY DEF JobId
<1>5. f \in Injection(JobId, Triple)
  BY <1>3, <1>4 DEF Injection, IsInjective
<1> HIDE DEF f, Triple
<1>. QED
  BY <1>2, <1>5, FS_Injection

LEMMA SlotsInRange == \A r : FreeSlots(r) \in 0 .. MaxPending
<1> SUFFICES ASSUME NEW r PROVE FreeSlots(r) \in 0 .. MaxPending
  OBVIOUS
<1>1. Active(r) \subseteq JobId
  BY DEF Active
<1>2. Cardinality(Active(r)) \in Nat
  BY <1>1, JobsFinite, FS_Subset, FS_CardinalityType
<1>. QED
  BY <1>2, Bounds DEF FreeSlots

\* What a job queue that forgets nothing keeps admitted.
LEMMA AdmittedStays ==
    ASSUME run'.id = run.id,
           \A j \in JobId : jobs[j].state # "none" => jobs'[j].state # "none"
    PROVE  \A h : Admitted(h) => Admitted(h)'
<1> SUFFICES ASSUME NEW h, Admitted(h) PROVE Admitted(h)'
  OBVIOUS
<1>1. PICK j \in JobId : j.run = run.id /\ j.hotel = h /\ jobs[j].state # "none"
  BY DEF Admitted, JobsOf
<1>2. j.run = run'.id /\ jobs'[j].state # "none"
  BY <1>1
<1>3. j \in JobsOf(run.id, h)'
  BY <1>1, <1>2 DEF JobsOf
<1>. QED
  BY <1>3 DEF Admitted

LEMMA IdleScanType ==
    /\ IdleScan \in Scan /\ IdleScan.phase = "idle" /\ IdleScan.run = 0
    /\ [IdleScan EXCEPT !.phase = "start"] \in Scan
    /\ [IdleScan EXCEPT !.phase = "start"].phase = "start"
<1>1. 0 \in 0 .. MaxRuns /\ 0 \in 0 .. MaxHotel /\ 0 \in 0 .. MaxPending
      /\ {} \in SUBSET (Hotel \X Seen)
  BY Bounds
<1>2. IdleScan \in Scan /\ IdleScan.phase = "idle" /\ IdleScan.run = 0
  BY <1>1 DEF Scan, IdleScan
<1>. QED
  BY <1>2 DEF Scan

LEMMA NoJobType ==
    /\ NoJob \in JobRecord /\ NoJob.state = "none" /\ NoJob.attempts = 0
    /\ \A due \in BOOLEAN :
          /\ [NoJob EXCEPT !.state = "pending", !.due = due] \in JobRecord
          /\ [NoJob EXCEPT !.state = "pending", !.due = due].state = "pending"
          /\ [NoJob EXCEPT !.state = "pending", !.due = due].attempts = 0
<1>1. NoJob \in JobRecord /\ NoJob.state = "none" /\ NoJob.attempts = 0
  BY Bounds DEF NoJob, JobRecord, JobState
<1>2. "pending" \in JobState
  BY DEF JobState, Queued
<1>. QED
  BY <1>1, <1>2 DEF JobRecord

\* What Admit makes of a pass.
LEMMA AdmitType ==
    ASSUME NEW r \in [ id : 0 .. MaxRuns, state : RunState, cursor : 0 .. MaxHotel,
                       ceiling : 0 .. MaxHotel ]
    PROVE  /\ Admit(r) \in Scan
           /\ \/ Admit(r).phase = "idle"
              \/ /\ Admit(r).phase = "read" /\ ~ Admit(r).exhausted
                 /\ Admit(r).run = r.id /\ Admit(r).at = r.cursor
                 /\ Admit(r).ceiling = r.ceiling /\ 0 < Admit(r).slots
                 /\ r.state = "running"
<1>1. FreeSlots(r.id) \in 0 .. MaxPending
  BY SlotsInRange
<1>2. CASE r.state = "running" /\ FreeSlots(r.id) > 0
  <2>1. Admit(r) = [phase |-> "read", run |-> r.id, ceiling |-> r.ceiling, at |-> r.cursor,
                    rows |-> {}, slots |-> FreeSlots(r.id), exhausted |-> FALSE]
    BY <1>2 DEF Admit, IdleScan
  <2>. QED
    BY <1>1, <1>2, <2>1 DEF Scan
<1>3. CASE ~ (r.state = "running" /\ FreeSlots(r.id) > 0)
  BY <1>3, IdleScanType DEF Admit
<1>. QED
  BY <1>2, <1>3

\* start_backfill, in words: nothing, a resumed pass, or a new one.
LEMMA StartForms ==
    ASSUME BackfillTypeOK, PassShape, NEW ceiling \in 0 .. MaxHotel, start_backfill(ceiling)
    PROVE  \/ run' = run /\ steady' = steady
           \/ /\ Paused /\ run' = [run EXCEPT !.state = IF @ = "paused" THEN "running" ELSE "draining"]
              /\ steady' = steady
           \/ /\ run.id = 0 \/ BackfillStatus = "completed"
              /\ run.id < MaxRuns
              /\ run' = [id |-> run.id + 1, state |-> "running", cursor |-> 0, ceiling |-> ceiling]
              /\ steady' = incomplete \cap 1 .. ceiling
<1>1. BackfillStatus = "not_started" => run.id = 0
  BY DEF BackfillStatus, PassShape
<1>. QED
  BY <1>1 DEF start_backfill, ResumeRun, NewPass

LEMMA StartType ==
    ASSUME BackfillTypeOK, PassShape, NEW ceiling \in 0 .. MaxHotel, start_backfill(ceiling)
    PROVE  /\ run' \in [ id : 0 .. MaxRuns, state : RunState, cursor : 0 .. MaxHotel,
                         ceiling : 0 .. MaxHotel ]
           /\ steady' \subseteq Hotel
<1>1. run \in [ id : 0 .. MaxRuns, state : RunState, cursor : 0 .. MaxHotel,
                ceiling : 0 .. MaxHotel ]
      /\ steady \subseteq Hotel /\ incomplete \subseteq Hotel
  BY DEF BackfillTypeOK
<1>2. CASE run' = run /\ steady' = steady
  BY <1>1, <1>2
<1>3. CASE /\ run' = [run EXCEPT !.state = IF @ = "paused" THEN "running" ELSE "draining"]
           /\ steady' = steady
  BY <1>1, <1>3 DEF RunState
<1>4. CASE /\ run.id < MaxRuns
           /\ run' = [id |-> run.id + 1, state |-> "running", cursor |-> 0, ceiling |-> ceiling]
           /\ steady' = incomplete \cap 1 .. ceiling
  BY <1>1, <1>4, Bounds DEF RunState
<1>. QED
  BY <1>2, <1>3, <1>4, StartForms

-----------------------------------------------------------------------------
(* Types                                                                   *)

LEMMA BackfillInitInv == BackfillInit => BackfillInv
<1> SUFFICES ASSUME BackfillInit PROVE BackfillInv
  OBVIOUS
<1>1. NoJob \in JobRecord
  BY NoJobType
<1>2. maxId \in 0 .. MaxHotel /\ incomplete \subseteq Hotel
  BY Bounds DEF BackfillInit, Hotel
<1>3. run \in [ id : 0 .. MaxRuns, state : RunState, cursor : 0 .. MaxHotel,
                ceiling : 0 .. MaxHotel ]
  BY Bounds DEF BackfillInit, RunState
<1>4. jobs \in [JobId -> JobRecord] /\ scan \in [Scanner -> Scan] /\ seen \in [Hotel -> Seen]
  BY <1>1, IdleScanType, Bounds DEF BackfillInit, Seen
<1>5. BackfillTypeOK
  BY <1>2, <1>3, <1>4 DEF BackfillInit, BackfillTypeOK
<1>6. AttemptsLeft /\ PassShape /\ StillBlank /\ Drained /\ ScanCovers
  BY DEF BackfillInit, AttemptsLeft, PassShape, StillBlank, Drained, ScanCovers, NoJob
<1>7. \A s \in Scanner : ScanFine(s)
  BY IdleScanType DEF BackfillInit, ScanFine
<1>. QED
  BY <1>5, <1>6, <1>7 DEF BackfillInv

\* The parts of the type invariant that a step of a kind disturbs.
RunType   == run \in [ id : 0 .. MaxRuns, state : RunState, cursor : 0 .. MaxHotel,
                       ceiling : 0 .. MaxHotel ]
ScanType  == scan \in [Scanner -> Scan]
JobsType  == jobs \in [JobId -> JobRecord]
WorkType  == fetching \subseteq Fetch /\ late \subseteq Fetch /\ applying \subseteq JobId /\ up \in BOOLEAN
             /\ abandoned \in BOOLEAN
HotelType == maxId \in 0 .. MaxHotel /\ seen \in [Hotel -> Seen] /\ incomplete \subseteq Hotel
             /\ steady \subseteq Hotel

LEMMA TypeParts == BackfillTypeOK <=> RunType /\ ScanType /\ JobsType /\ WorkType /\ HotelType
  BY DEF BackfillTypeOK, RunType, ScanType, JobsType, WorkType, HotelType

\* save_result on any job, with the attempts that a collector copied.
LEMMA SaveResultType ==
    ASSUME JobsType, AttemptsLeft, NEW f \in Fetch, save_result(f)
    PROVE  JobsType' /\ AttemptsLeft' /\ \A j \in JobId : jobs[j].state # "none" => jobs'[j].state # "none"
<1>1. f.job \in JobId /\ f.attempts \in 0 .. MaxAttempts - 1
  BY DEF Fetch
<1>2. AttemptsAfter(f) \in 0 .. MaxAttempts
  BY <1>1, Bounds DEF AttemptsAfter
<1>3. CASE /\ AttemptsAfter(f) < MaxAttempts
           /\ jobs' = [jobs EXCEPT ![f.job] =
                         [state |-> "retry", attempts |-> AttemptsAfter(f), due |-> FALSE]]
  <2>1. [state |-> "retry", attempts |-> AttemptsAfter(f), due |-> FALSE] \in JobRecord
    BY <1>2 DEF JobRecord, JobState, Queued
  <2>. QED
    BY <1>1, <1>3, <2>1 DEF JobsType, AttemptsLeft
<1>4. CASE jobs' = [jobs EXCEPT ![f.job] =
                      [state |-> "fetched", attempts |-> AttemptsAfter(f), due |-> TRUE]]
  <2>1. [state |-> "fetched", attempts |-> AttemptsAfter(f), due |-> TRUE] \in JobRecord
    BY <1>2 DEF JobRecord, JobState, Queued
  <2>. QED
    BY <1>1, <1>4, <2>1 DEF JobsType, AttemptsLeft
<1>. QED
  BY <1>3, <1>4 DEF save_result

\* Every step but those of the scan either leaves the jobs alone or changes
\* one, and forgets none.
LEMMA JobsStep ==
    ASSUME BackfillInv, [BackfillNext]_backfillVars
    PROVE  /\ JobsType' /\ AttemptsLeft'
           /\ \A j \in JobId : jobs[j].state # "none" => jobs'[j].state # "none"
<1>1. JobsType /\ AttemptsLeft /\ WorkType /\ ScanType
  BY TypeParts DEF BackfillInv
<1>2. CASE UNCHANGED jobs
  BY <1>1, <1>2 DEF JobsType, AttemptsLeft
<1>3. ASSUME NEW s \in Scanner, NEW h \in Hotel, ScanEnqueue(s, h)
      PROVE  /\ JobsType' /\ AttemptsLeft'
             /\ \A j \in JobId : jobs[j].state # "none" => jobs'[j].state # "none"
  <2>1. PICK o \in Seen :
           \/ UNCHANGED jobs
           \/ enqueue([run |-> scan[s].run, hotel |-> h, seen |-> o])
    BY <1>3 DEF ScanEnqueue
  <2>2. CASE UNCHANGED jobs
    BY <1>2, <2>2
  <2>3. CASE enqueue([run |-> scan[s].run, hotel |-> h, seen |-> o])
    <3>1. [run |-> scan[s].run, hotel |-> h, seen |-> o] \in JobId
      <4>1. scan[s].phase = "enqueue" /\ ScanFine(s) /\ scan[s] \in Scan
        BY <1>1, <1>3 DEF ScanEnqueue, BackfillInv, ScanType
      <4>2. scan[s].run \in 0 .. MaxRuns /\ 0 < scan[s].run
        BY <4>1 DEF ScanFine, Scan
      <4>. QED
        BY <4>2, Bounds DEF JobId, RunId
    <3>2. PICK due \in BOOLEAN :
             jobs' = IF jobs[[run |-> scan[s].run, hotel |-> h, seen |-> o]].state = "none"
                     THEN [jobs EXCEPT ![[run |-> scan[s].run, hotel |-> h, seen |-> o]] =
                              [NoJob EXCEPT !.state = "pending", !.due = due]]
                     ELSE jobs
      BY <2>3, WebsiteBackfillAssumption DEF enqueue
    <3>3. /\ [NoJob EXCEPT !.state = "pending", !.due = due] \in JobRecord
          /\ [NoJob EXCEPT !.state = "pending", !.due = due].attempts = 0
          /\ [NoJob EXCEPT !.state = "pending", !.due = due].state = "pending"
      BY NoJobType
    <3>. QED
      BY <1>1, <3>1, <3>2, <3>3, Bounds DEF JobsType, AttemptsLeft
  <2>. QED
    BY <2>1, <2>2, <2>3
<1>4. ASSUME NEW j \in JobId, Defer(j) \/ BackoffElapses(j)
      PROVE  /\ JobsType' /\ AttemptsLeft'
             /\ \A i \in JobId : jobs[i].state # "none" => jobs'[i].state # "none"
  <2>1. PICK due \in BOOLEAN : jobs' = [jobs EXCEPT ![j].due = due]
    BY <1>4 DEF Defer, BackoffElapses
  <2>2. \A i \in JobId : /\ jobs'[i] \in JobRecord /\ jobs'[i].state = jobs[i].state
                         /\ jobs'[i].attempts = jobs[i].attempts
    BY <1>1, <2>1 DEF JobsType, JobRecord
  <2>3. jobs' \in [JobId -> JobRecord]
    BY <1>1, <2>1, <2>2 DEF JobsType
  <2>. QED
    BY <1>1, <2>2, <2>3 DEF JobsType, AttemptsLeft
<1>5. ASSUME NEW f \in Fetch, save_result(f)
      PROVE  /\ JobsType' /\ AttemptsLeft'
             /\ \A j \in JobId : jobs[j].state # "none" => jobs'[j].state # "none"
  BY <1>1, <1>5, SaveResultType
<1>6. CASE Finish
  <2>1. PICK j \in applying : jobs' = [jobs EXCEPT ![j].state = "finished"]
    BY <1>6 DEF Finish
  <2>2. \A i \in JobId : /\ jobs'[i] \in JobRecord
                         /\ jobs'[i].state = jobs[i].state \/ jobs'[i].state = "finished"
                         /\ jobs'[i].attempts = jobs[i].attempts
    BY <1>1, <2>1 DEF JobsType, JobRecord, JobState, WorkType
  <2>3. jobs' \in [JobId -> JobRecord]
    BY <1>1, <2>1, <2>2 DEF JobsType
  <2>. QED
    BY <1>1, <2>2, <2>3 DEF JobsType, AttemptsLeft
<1>7. CASE \E j \in JobId : SaveResult(j)
  BY <1>1, <1>5, <1>7 DEF SaveResult, WorkType
<1>8. ASSUME NEW f \in late, LateSave(f)
      PROVE  /\ JobsType' /\ AttemptsLeft'
             /\ \A j \in JobId : jobs[j].state # "none" => jobs'[j].state # "none"
  BY <1>1, <1>2, <1>5, <1>8 DEF LateSave, WorkType
<1>. QED
  BY <1>2, <1>3, <1>4, <1>6, <1>7, <1>8
  DEF BackfillNext, backfillVars, runVars, StartBackfill, PauseBackfill, ScanBegin, ScanWorks,
      ScanStart, ScanRead, ScanCheckpoint, Fault, ScanFails, CollectorFails, Launch, Apply,
      StartWorker, StopWorker, CrashWorker, FilledElsewhere, Observe, NewHotel

\* One scanner moves on, by one of its own steps.
LEMMA ScanMoves ==
    ASSUME ScanType, NEW s \in Scanner, NEW c \in Scan, scan' = [scan EXCEPT ![s] = c]
    PROVE  ScanType' /\ scan'[s] = c /\ \A t \in Scanner \ {s} : scan'[t] = scan[t]
  BY DEF ScanType

LEMMA ReadMoves ==
    ASSUME BackfillInv, NEW s \in Scanner, ScanRead(s)
    PROVE  \E c \in Scan, batch \in SUBSET Hotel :
              /\ scan' = [scan EXCEPT ![s] = c]
              /\ c.run = scan[s].run /\ c.ceiling = scan[s].ceiling /\ c.slots = scan[s].slots
              /\ batch \subseteq {h \in incomplete : scan[s].at < h /\ h <= scan[s].ceiling}
              /\ \A h \in incomplete, g \in batch :
                    scan[s].at < h /\ h <= g => h \in batch
              /\ \/ /\ c.phase = "checkpoint" /\ c.at = scan[s].ceiling /\ c.exhausted
                    /\ \A h \in incomplete : ~ (scan[s].at < h /\ h <= scan[s].ceiling)
                 \/ /\ c.phase = "enqueue" /\ ~ c.exhausted
                    /\ c.rows = {<<h, seen[h]>> : h \in batch}
<1> DEFINE found == {h \in incomplete : scan[s].at < h /\ h <= scan[s].ceiling}
           batch == {h \in found : Cardinality({g \in found : g < h}) < BatchSize}
           read  == [scan[s] EXCEPT !.phase = "checkpoint", !.at = scan[s].ceiling, !.exhausted = TRUE]
           taken == [scan[s] EXCEPT !.phase = "enqueue", !.rows = {<<h, seen[h]>> : h \in batch}]
<1>1. /\ scan[s] \in Scan /\ incomplete \subseteq Hotel /\ seen \in [Hotel -> Seen]
      /\ scan[s].phase = "read" /\ ~ scan[s].exhausted
  BY TypeParts DEF BackfillInv, ScanType, HotelType, ScanRead, ScanFine
<1>2. scan[s].at \in Nat /\ scan[s].ceiling \in Nat /\ scan[s].ceiling \in 0 .. MaxHotel
  BY <1>1, Bounds DEF Scan
<1>3. found \subseteq Hotel /\ IsFiniteSet(found)
  BY <1>1, Bounds, FS_Subset
<1>4. \A h \in found : Cardinality({g \in found : g < h}) \in Nat
  <2> SUFFICES ASSUME NEW h \in found PROVE Cardinality({g \in found : g < h}) \in Nat
    OBVIOUS
  <2>1. IsFiniteSet({g \in found : g < h})
    <3>1. {g \in found : g < h} \subseteq found
      OBVIOUS
    <3> HIDE DEF found
    <3>. QED
      BY <1>3, <3>1, FS_Subset
  <2>. QED
    BY <2>1, FS_CardinalityType
<1>5. ASSUME NEW h \in incomplete, NEW g \in batch, scan[s].at < h, h <= g
      PROVE  h \in batch
  <2>1. h \in Nat /\ g \in Nat /\ g \in found /\ g <= scan[s].ceiling
    BY <1>1, <1>5, Bounds
  <2>2. h \in found
    BY <1>2, <1>5, <2>1
  <2>3. {k \in found : k < h} \subseteq {k \in found : k < g}
    <3> SUFFICES ASSUME NEW k \in found, k < h PROVE k < g
      OBVIOUS
    <3>1. k \in Nat
      BY <1>3, Bounds
    <3>. QED
      BY <1>5, <2>1, <3>1
  <2>4. IsFiniteSet({k \in found : k < g})
    <3>1. {k \in found : k < g} \subseteq found
      OBVIOUS
    <3> HIDE DEF found
    <3>. QED
      BY <1>3, <3>1, FS_Subset
  <2>5. Cardinality({k \in found : k < h}) <= Cardinality({k \in found : k < g})
    BY <2>3, <2>4, FS_Subset
  <2>6. Cardinality({k \in found : k < g}) < BatchSize
    OBVIOUS
  <2>7. /\ Cardinality({k \in found : k < h}) \in Nat
        /\ Cardinality({k \in found : k < g}) \in Nat
    BY <1>4, <2>1, <2>2
  <2>8. Cardinality({k \in found : k < h}) < BatchSize
    BY <2>5, <2>6, <2>7, Bounds
  <2>. QED
    BY <2>2, <2>8
<1>6. batch = {} => found = {}
  <2> SUFFICES ASSUME found # {} PROVE batch # {}
    OBVIOUS
  <2>1. PICK h \in found : \A g \in found : h <= g
    <3> HIDE DEF found
    <3>. QED
      BY <1>3, LeastHotel
  <2>2. {g \in found : g < h} = {}
    <3>1. found \subseteq Nat
      BY <1>3, Bounds
    <3> HIDE DEF found
    <3>2. \A g \in found : ~ (g < h)
      BY <2>1, <3>1
    <3>. QED
      BY <3>2
  <2>3. Cardinality({g \in found : g < h}) = 0
    BY <2>2, FS_EmptySet
  <2>4. h \in batch
    BY <2>3, Bounds
  <2>. QED
    BY <2>4
<1>7. read \in Scan /\ taken \in Scan
  <2>1. {<<h, seen[h]>> : h \in batch} \subseteq Hotel \X Seen
    <3>1. batch \subseteq Hotel
      BY <1>3
    <3> HIDE DEF batch
    <3>. QED
      BY <1>1, <3>1
  <2>. QED
    BY <1>1, <1>2, <2>1 DEF Scan
<1>8. scan' = [scan EXCEPT ![s] = IF batch = {} THEN read ELSE taken]
  BY DEF ScanRead
<1>9. /\ read.run = scan[s].run /\ read.ceiling = scan[s].ceiling /\ read.slots = scan[s].slots
      /\ read.phase = "checkpoint" /\ read.at = scan[s].ceiling /\ read.exhausted
      /\ taken.run = scan[s].run /\ taken.ceiling = scan[s].ceiling /\ taken.slots = scan[s].slots
      /\ taken.phase = "enqueue" /\ ~ taken.exhausted
      /\ taken.rows = {<<h, seen[h]>> : h \in batch}
  BY <1>1 DEF Scan
<1>10. batch \in SUBSET Hotel /\ batch \subseteq found
  BY <1>3
<1>11. found = {} => \A h \in incomplete : ~ (scan[s].at < h /\ h <= scan[s].ceiling)
  OBVIOUS
<1> HIDE DEF read, taken, batch
<1>12. CASE batch = {}
  <2>1. scan' = [scan EXCEPT ![s] = read]
    BY <1>8, <1>12
  <2>. QED
    BY <1>5, <1>6, <1>7, <1>9, <1>10, <1>11, <1>12, <2>1
<1>13. CASE batch # {}
  <2>1. scan' = [scan EXCEPT ![s] = taken]
    BY <1>8, <1>13
  <2>. QED
    BY <1>5, <1>7, <1>9, <1>10, <1>13, <2>1
<1>. QED
  BY <1>12, <1>13

LEMMA EnqueueMoves ==
    ASSUME BackfillInv, NEW s \in Scanner, NEW h \in Hotel, ScanEnqueue(s, h)
    PROVE  \E c \in Scan, o \in Seen :
              /\ scan' = [scan EXCEPT ![s] = c]
              /\ scan[s].phase = "enqueue" /\ <<h, o>> \in scan[s].rows
              /\ \A row \in scan[s].rows : h <= row[1]
              /\ c.run = scan[s].run /\ c.ceiling = scan[s].ceiling /\ ~ c.exhausted /\ c.at = h
              /\ \/ c.phase = "checkpoint"
                 \/ c.phase = "enqueue" /\ c.rows = scan[s].rows \ {<<h, o>>} /\ 0 < c.slots
              /\ h \in Unusable \/ jobs'[[run |-> scan[s].run, hotel |-> h, seen |-> o]].state # "none"
<1>1. scan[s] \in Scan /\ ScanFine(s) /\ JobsType /\ scan[s].phase = "enqueue"
  BY TypeParts DEF BackfillInv, ScanType, ScanEnqueue
<1>2. PICK o \in Seen :
         /\ <<h, o>> \in scan[s].rows
         /\ \A row \in scan[s].rows : h <= row[1]
         /\ LET rest  == scan[s].rows \ {<<h, o>>}
                slots == IF h \in Unusable THEN scan[s].slots ELSE scan[s].slots - 1
                done  == rest = {} \/ slots = 0
            IN
            /\ IF h \in Unusable THEN UNCHANGED jobs
               ELSE enqueue([run |-> scan[s].run, hotel |-> h, seen |-> o])
            /\ scan' = [scan EXCEPT ![s] =
                  [@ EXCEPT !.phase = IF done THEN "checkpoint" ELSE "enqueue",
                            !.rows = IF done THEN {} ELSE rest,
                            !.slots = slots, !.at = h]]
  BY DEF ScanEnqueue
<1> DEFINE rest  == scan[s].rows \ {<<h, o>>}
           slots == IF h \in Unusable THEN scan[s].slots ELSE scan[s].slots - 1
           done  == rest = {} \/ slots = 0
           c     == [scan[s] EXCEPT !.phase = IF done THEN "checkpoint" ELSE "enqueue",
                                    !.rows = IF done THEN {} ELSE rest,
                                    !.slots = slots, !.at = h]
<1>3. scan' = [scan EXCEPT ![s] = c]
  BY <1>1, <1>2
<1>4. slots \in 0 .. MaxPending
  BY <1>1, Bounds DEF Scan, ScanFine
<1>5. rest \subseteq Hotel \X Seen /\ h \in 0 .. MaxHotel
  BY <1>1, Bounds DEF Scan, Hotel
<1>6. scan[s].run \in 0 .. MaxRuns /\ 0 < scan[s].run /\ ~ scan[s].exhausted
  BY <1>1 DEF Scan, ScanFine
<1> HIDE DEF rest, slots
<1>7. c \in Scan
  BY <1>1, <1>4, <1>5 DEF Scan
<1>8. /\ c.run = scan[s].run /\ c.ceiling = scan[s].ceiling /\ c.exhausted = scan[s].exhausted
      /\ c.at = h
      /\ \/ c.phase = "checkpoint"
         \/ c.phase = "enqueue" /\ c.rows = rest /\ slots # 0 /\ c.slots = slots
  BY <1>1 DEF Scan
<1>9. h \in Unusable \/ jobs'[[run |-> scan[s].run, hotel |-> h, seen |-> o]].state # "none"
  <2>1. [run |-> scan[s].run, hotel |-> h, seen |-> o] \in JobId
    BY <1>6, Bounds DEF JobId, RunId
  <2>2. CASE h \notin Unusable
    <3>1. PICK due \in BOOLEAN :
             jobs' = IF jobs[[run |-> scan[s].run, hotel |-> h, seen |-> o]].state = "none"
                     THEN [jobs EXCEPT ![[run |-> scan[s].run, hotel |-> h, seen |-> o]] =
                              [NoJob EXCEPT !.state = "pending", !.due = due]]
                     ELSE jobs
      BY <1>2, <2>2, WebsiteBackfillAssumption DEF enqueue
    <3>. QED
      BY <1>1, <2>1, <3>1, NoJobType DEF JobsType
  <2>. QED
    BY <2>2
<1>10. c.slots = slots => (slots # 0 => 0 < c.slots)
  BY <1>4, Bounds
<1> HIDE DEF c
<1>. QED
  BY <1>1, <1>2, <1>3, <1>6, <1>7, <1>8, <1>9, <1>10 DEF rest

LEMMA ScanTypes ==
    ASSUME BackfillInv, [BackfillNext]_backfillVars
    PROVE  ScanType'
<1>1. ScanType /\ RunType /\ HotelType
  BY TypeParts DEF BackfillInv
<1>2. CASE UNCHANGED scan
  BY <1>1, <1>2 DEF ScanType
<1>3. CASE ScanBegin
  <2>1. PICK c \in Scan : scan' = [scan EXCEPT !["task"] = c]
    BY <1>1, <1>3, IdleScanType, AdmitType DEF ScanBegin, RunType
  <2>. QED
    BY <1>1, <2>1, ScanMoves DEF Scanner
<1>4. ASSUME NEW s \in Scanner, ScanStart(s) PROVE ScanType'
  <2>1. RunType'
    BY <1>1, <1>4, StartType DEF ScanStart, RunType, HotelType, BackfillInv
  <2>2. Admit(run') \in Scan
    BY <2>1, AdmitType DEF RunType
  <2>3. scan' = [scan EXCEPT ![s] = Admit(run')]
    BY <1>4 DEF ScanStart
  <2>. QED
    BY <1>1, <2>2, <2>3, ScanMoves
<1>5. ASSUME NEW s \in Scanner, ScanRead(s) PROVE ScanType'
  BY <1>1, <1>5, ReadMoves, ScanMoves
<1>6. ASSUME NEW s \in Scanner, NEW h \in Hotel, ScanEnqueue(s, h) PROVE ScanType'
  <2>1. PICK c \in Scan : scan' = [scan EXCEPT ![s] = c]
    BY <1>6, EnqueueMoves
  <2>. QED
    BY <1>1, <2>1, ScanMoves
<1>7. ASSUME NEW s \in Scanner, ScanCheckpoint(s) \/ ScanFails(s) PROVE ScanType'
  BY <1>1, <1>7, IdleScanType, ScanMoves DEF ScanCheckpoint, ScanFails
<1>8. CASE StopWorker
  BY <1>1, <1>2, <1>8, IdleScanType DEF StopWorker, ScanType, Scanner
<1>9. CASE CrashWorker
  BY <1>9, IdleScanType DEF CrashWorker, ScanType
<1>. QED
  BY <1>2, <1>3, <1>4, <1>5, <1>6, <1>7, <1>8, <1>9
  DEF BackfillNext, backfillVars, StartBackfill, PauseBackfill, ScanWorks, Defer, BackoffElapses,
      SaveResult, LateSave, Finish, Fault, CollectorFails, Launch, Apply,
      StartWorker, FilledElsewhere, Observe, NewHotel

LEMMA RunTypes ==
    ASSUME BackfillInv, [BackfillNext]_backfillVars
    PROVE  RunType' /\ HotelType'
<1>1. ScanType /\ RunType /\ HotelType
  BY TypeParts DEF BackfillInv
<1>2. CASE UNCHANGED <<run, hotelVars>>
  BY <1>1, <1>2 DEF RunType, HotelType, hotelVars
<1>3. ASSUME start_backfill(maxId), UNCHANGED <<maxId, seen, incomplete>>
      PROVE  RunType' /\ HotelType'
  <2>1. run' \in [ id : 0 .. MaxRuns, state : RunState, cursor : 0 .. MaxHotel,
                   ceiling : 0 .. MaxHotel ] /\ steady' \subseteq Hotel
    BY <1>1, <1>3, StartType DEF HotelType, BackfillInv
  <2>. QED
    BY <1>1, <1>3, <2>1 DEF RunType, HotelType
<1>4. CASE PauseBackfill
  <2>1. RunType'
    BY <1>1, <1>4 DEF PauseBackfill, RunType, RunState
  <2>. QED
    BY <1>1, <1>4, <2>1 DEF PauseBackfill, HotelType, hotelVars
<1>5. ASSUME NEW s \in Scanner, ScanCheckpoint(s) PROVE RunType' /\ HotelType'
  <2>1. scan[s].at \in 0 .. MaxHotel
    BY <1>1 DEF ScanType, Scan
  <2>2. PICK state \in RunState : run' = run \/ run' = [run EXCEPT !.cursor = scan[s].at, !.state = state]
    <3>1. run.state \in RunState
      BY <1>1 DEF RunType
    <3>2. CASE run.id # scan[s].run
      BY <1>5, <3>1, <3>2 DEF ScanCheckpoint, checkpoint_backfill
    <3>3. CASE run.id = scan[s].run
      <4> DEFINE state == CASE scan[s].exhausted /\ run.state = "running" -> "draining"
                            [] scan[s].exhausted /\ run.state = "paused"  -> "paused_draining"
                            [] OTHER -> run.state
      <4>1. state \in RunState
        BY <3>1 DEF RunState
      <4>2. run' = [run EXCEPT !.cursor = scan[s].at, !.state = state]
        BY <1>5, <3>3 DEF ScanCheckpoint, checkpoint_backfill
      <4> HIDE DEF state
      <4>. QED
        BY <4>1, <4>2
    <3>. QED
      BY <3>2, <3>3
  <2>3. RunType'
    BY <1>1, <2>1, <2>2 DEF RunType
  <2>. QED
    BY <1>1, <1>5, <2>3 DEF ScanCheckpoint, HotelType, hotelVars
<1>6. ASSUME NEW j \in JobId, Apply(j) PROVE RunType' /\ HotelType'
  BY <1>1, <1>6 DEF Apply, RunType, HotelType, runVars
<1>7. ASSUME NEW h \in Hotel, FilledElsewhere(h) \/ Observe(h) PROVE RunType' /\ HotelType'
  <2>1. CASE FilledElsewhere(h)
    BY <1>1, <2>1 DEF FilledElsewhere, RunType, HotelType, runVars
  <2>2. CASE Observe(h)
    <3>1. seen[h] + 1 \in Seen
      BY <1>1, <2>2, Bounds DEF Observe, HotelType, Seen
    <3>. QED
      BY <1>1, <2>2, <3>1 DEF Observe, RunType, HotelType, runVars
  <2>. QED
    BY <1>7, <2>1, <2>2
<1>8. CASE NewHotel
  BY <1>1, <1>8, Bounds DEF NewHotel, RunType, HotelType, Hotel, runVars
<1>. QED
  BY <1>2, <1>3, <1>4, <1>5, <1>6, <1>7, <1>8
  DEF BackfillNext, backfillVars, runVars, StartBackfill, ScanBegin, ScanWorks, ScanStart, ScanRead,
      ScanEnqueue, Defer, BackoffElapses, SaveResult, LateSave, Finish, Fault, ScanFails,
      CollectorFails, Launch, StartWorker, StopWorker, CrashWorker

LEMMA WorkTypes ==
    ASSUME BackfillInv, [BackfillNext]_backfillVars
    PROVE  WorkType'
<1>1. WorkType /\ JobsType /\ AttemptsLeft
  BY TypeParts DEF BackfillInv
<1>2. CASE UNCHANGED workVars
  BY <1>1, <1>2 DEF WorkType, workVars
<1>3. ASSUME NEW j \in JobId, Launch(j) PROVE WorkType'
  <2>1. jobs[j].attempts \in 0 .. MaxAttempts - 1
    BY <1>1, <1>3, Bounds DEF Launch, JobsType, JobRecord, AttemptsLeft
  <2>2. [job |-> j, attempts |-> jobs[j].attempts] \in Fetch
    BY <2>1 DEF Fetch
  <2>. QED
    BY <1>1, <1>3, <2>2 DEF Launch, WorkType
<1>4. ASSUME NEW j \in JobId, SaveResult(j) \/ Apply(j) PROVE WorkType'
  BY <1>1, <1>4 DEF SaveResult, Apply, WorkType
<1>5. ASSUME NEW f \in Fetch, CollectorFails(f) \/ LateSave(f) PROVE WorkType'
  BY <1>1, <1>5 DEF CollectorFails, LateSave, WorkType
<1>6. CASE Finish \/ StartWorker \/ StopWorker \/ CrashWorker
  BY <1>1, <1>6 DEF Finish, StartWorker, StopWorker, CrashWorker, WorkType
<1>7. late \subseteq Fetch /\ fetching \subseteq Fetch
  BY <1>1 DEF WorkType
<1>. QED
  BY <1>2, <1>3, <1>4, <1>5, <1>6, <1>7
  DEF BackfillNext, backfillVars, workVars, StartBackfill, PauseBackfill, ScanBegin, ScanWorks,
      ScanStart, ScanRead, ScanEnqueue, ScanCheckpoint, Defer, BackoffElapses, Fault, ScanFails,
      FilledElsewhere, Observe, NewHotel

LEMMA BackfillTypes ==
    ASSUME BackfillInv, [BackfillNext]_backfillVars
    PROVE  BackfillTypeOK'
<1>1. RunType' /\ ScanType' /\ JobsType' /\ WorkType' /\ HotelType'
  BY RunTypes, ScanTypes, JobsStep, WorkTypes
<1>. QED
  BY <1>1 DEF BackfillTypeOK, RunType, ScanType, JobsType, WorkType, HotelType

-----------------------------------------------------------------------------
(* The pass                                                                *)

Draining == {"draining", "paused_draining"}

\* The same pass goes on, and its cursor moves by a checkpoint only.
SamePass ==
    /\ run'.id = run.id /\ run'.ceiling = run.ceiling /\ steady' \subseteq steady
    /\ run'.state = "not_started" <=> run.state = "not_started"
    /\ \/ run'.cursor = run.cursor /\ (run'.state \in Draining => run.state \in Draining)
       \/ \E s \in Scanner :
             /\ scan[s].phase = "checkpoint" /\ scan[s].run = run.id /\ run'.cursor = scan[s].at
             /\ run'.state \in Draining => run.state \in Draining \/ scan[s].exhausted

NextPass ==
    /\ run.id = 0 \/ BackfillStatus = "completed"
    /\ \E ceiling \in 0 .. MaxHotel :
          /\ run' = [id |-> run.id + 1, state |-> "running", cursor |-> 0, ceiling |-> ceiling]
          /\ steady' = incomplete \cap 1 .. ceiling
    /\ UNCHANGED <<incomplete, jobs>>

LEMMA PassForms ==
    ASSUME BackfillInv, [BackfillNext]_backfillVars
    PROVE  SamePass \/ NextPass
<1>1. RunType /\ HotelType /\ ScanType /\ PassShape
  BY TypeParts DEF BackfillInv
<1>2. CASE UNCHANGED <<run, steady>>
  BY <1>2 DEF SamePass
<1>3. ASSUME start_backfill(maxId), UNCHANGED <<incomplete, jobs>>
      PROVE  SamePass \/ NextPass
  <2>1. maxId \in 0 .. MaxHotel
    BY <1>1 DEF HotelType
  <2>2. CASE run' = run /\ steady' = steady
    BY <1>2, <2>2
  <2>3. CASE /\ Paused /\ run' = [run EXCEPT !.state = IF @ = "paused" THEN "running" ELSE "draining"]
             /\ steady' = steady
    BY <1>1, <2>3 DEF SamePass, Paused, RunType, Draining
  <2>4. CASE /\ run.id = 0 \/ BackfillStatus = "completed"
             /\ run' = [id |-> run.id + 1, state |-> "running", cursor |-> 0, ceiling |-> maxId]
             /\ steady' = incomplete \cap 1 .. maxId
    BY <1>3, <2>1, <2>4 DEF NextPass
  <2>. QED
    BY <1>3, <2>1, <2>2, <2>3, <2>4, StartForms DEF BackfillInv
<1>4. CASE PauseBackfill
  BY <1>1, <1>4 DEF PauseBackfill, SamePass, RunType, Draining, hotelVars
<1>5. ASSUME NEW s \in Scanner, ScanCheckpoint(s) PROVE SamePass
  <2>1. CASE run.id # scan[s].run
    BY <1>5, <2>1 DEF ScanCheckpoint, checkpoint_backfill, SamePass, hotelVars
  <2>2. CASE run.id = scan[s].run
    <3> DEFINE state == CASE scan[s].exhausted /\ run.state = "running" -> "draining"
                          [] scan[s].exhausted /\ run.state = "paused"  -> "paused_draining"
                          [] OTHER -> run.state
    <3>1. run' = [run EXCEPT !.cursor = scan[s].at, !.state = state]
      BY <1>5, <2>2 DEF ScanCheckpoint, checkpoint_backfill
    <3>2. /\ state = "not_started" <=> run.state = "not_started"
          /\ state \in Draining => run.state \in Draining \/ scan[s].exhausted
      BY DEF Draining
    <3> HIDE DEF state
    <3>3. /\ run'.id = run.id /\ run'.ceiling = run.ceiling
          /\ run'.cursor = scan[s].at /\ run'.state = state
      BY <1>1, <3>1 DEF RunType
    <3>4. steady' = steady /\ scan[s].phase = "checkpoint"
      BY <1>5 DEF ScanCheckpoint, hotelVars
    <3>. QED
      BY <2>2, <3>2, <3>3, <3>4 DEF SamePass
  <2>. QED
    BY <2>1, <2>2
<1>6. ASSUME UNCHANGED run, steady' \subseteq steady PROVE SamePass
  BY <1>6 DEF SamePass
<1>. QED
  BY <1>2, <1>3, <1>4, <1>5, <1>6
  DEF BackfillNext, backfillVars, runVars, hotelVars, StartBackfill, ScanBegin, ScanWorks, ScanStart,
      ScanRead, ScanEnqueue, Defer, BackoffElapses, SaveResult, LateSave, Finish, Fault, ScanFails,
      CollectorFails, Launch, Apply, StartWorker, StopWorker, CrashWorker, FilledElsewhere, Observe,
      NewHotel

\* What was admitted to a pass stays admitted while the pass lasts.
LEMMA PassKeepsJobs ==
    ASSUME BackfillInv, [BackfillNext]_backfillVars, run'.id = run.id
    PROVE  \A h : Admitted(h) => Admitted(h)'
  BY JobsStep, AdmittedStays

LEMMA ShapeStep ==
    ASSUME BackfillInv, [BackfillNext]_backfillVars
    PROVE  PassShape'
<1>1. RunType /\ HotelType /\ PassShape
  BY TypeParts DEF BackfillInv
<1>2. CASE SamePass
  BY <1>1, <1>2 DEF SamePass, PassShape
<1>3. CASE NextPass
  <2>1. run.id + 1 # 0 /\ \A h \in incomplete : h \in Nat
    BY <1>1, Bounds DEF RunType, HotelType
  <2>. QED
    BY <1>3, <2>1 DEF NextPass, PassShape
<1>. QED
  BY <1>2, <1>3, PassForms

LEMMA CoverStep ==
    ASSUME BackfillInv, [BackfillNext]_backfillVars
    PROVE  ScanCovers'
<1>1. ScanCovers = \A h \in steady \ Unusable : h <= run.cursor => Admitted(h)
  BY DEF ScanCovers, Admitted
<1>2. ScanCovers' = \A h \in steady' \ Unusable : h <= run'.cursor => Admitted(h)'
  BY DEF ScanCovers, Admitted
<1>3. ScanCovers /\ HotelType
  BY TypeParts DEF BackfillInv
<1>4. CASE SamePass
  <2>1. \A h : Admitted(h) => Admitted(h)'
    BY <1>4, PassKeepsJobs DEF SamePass
  <2>2. CASE run'.cursor = run.cursor
    BY <1>1, <1>2, <1>3, <1>4, <2>1, <2>2 DEF SamePass
  <2>3. ASSUME NEW s \in Scanner,
               scan[s].phase = "checkpoint", scan[s].run = run.id, run'.cursor = scan[s].at
        PROVE  ScanCovers'
    <3>1. ScanFine(s)
      BY DEF BackfillInv
    <3>2. \A h \in steady \ Unusable : h <= scan[s].at => Admitted(h)
      BY <2>3, <3>1 DEF ScanFine
    <3>. QED
      BY <1>2, <1>4, <2>1, <2>3, <3>2 DEF SamePass
  <2>. QED
    BY <1>4, <2>2, <2>3 DEF SamePass
<1>5. CASE NextPass
  <2>1. run'.cursor = 0 /\ \A h \in steady' : h \in Nat /\ 1 <= h
    BY <1>3, <1>5, Bounds DEF NextPass, HotelType
  <2>. QED
    BY <1>2, <2>1
<1>. QED
  BY <1>4, <1>5, PassForms

LEMMA BlankStep ==
    ASSUME BackfillInv, [BackfillNext]_backfillVars
    PROVE  StillBlank'
<1>1. StillBlank /\ HotelType
  BY TypeParts DEF BackfillInv
<1>2. CASE NextPass
  BY <1>2 DEF NextPass, StillBlank
<1>3. CASE SamePass
  <2>1. \A h : Admitted(h) => Admitted(h)'
    BY <1>3, PassKeepsJobs DEF SamePass
  <2>2. CASE incomplete \subseteq incomplete'
    BY <1>1, <1>3, <2>1, <2>2 DEF SamePass, StillBlank
  <2>3. ASSUME NEW j \in JobId, Apply(j) PROVE StillBlank'
    <3>1. CASE UNCHANGED incomplete
      BY <2>2, <3>1
    <3>2. CASE incomplete' = incomplete \ {j.hotel} /\ j.run # run.id /\ steady' = steady \ {j.hotel}
      BY <1>1, <2>1, <3>2 DEF StillBlank
    <3>3. CASE incomplete' = incomplete \ {j.hotel} /\ j.run = run.id /\ steady' = steady
      <4>1. Admitted(j.hotel)
        BY <2>3, <3>3 DEF Apply, Admitted, JobsOf
      <4>. QED
        BY <1>1, <2>1, <3>3, <4>1 DEF StillBlank
    <3>. QED
      BY <2>3, <3>1, <3>2, <3>3 DEF Apply
  <2>4. ASSUME NEW h \in Hotel, FilledElsewhere(h) PROVE StillBlank'
    BY <1>1, <2>1, <2>4 DEF FilledElsewhere, StillBlank
  <2>. QED
    BY <2>2, <2>3, <2>4
    DEF BackfillNext, backfillVars, runVars, hotelVars, StartBackfill, PauseBackfill, ScanBegin,
        ScanWorks, ScanStart, ScanRead, ScanEnqueue, ScanCheckpoint, Defer, BackoffElapses, SaveResult,
        LateSave, Finish, Fault, ScanFails, CollectorFails, Launch, StartWorker, StopWorker,
        CrashWorker, Observe, NewHotel
<1>. QED
  BY <1>2, <1>3, PassForms

LEMMA DrainStep ==
    ASSUME BackfillInv, [BackfillNext]_backfillVars
    PROVE  Drained'
<1>1. Drained /\ PassShape
  BY DEF BackfillInv
<1>2. CASE NextPass
  BY <1>2 DEF NextPass, Drained
<1>3. CASE SamePass
  <2>1. \A h : Admitted(h) => Admitted(h)'
    BY <1>3, PassKeepsJobs DEF SamePass
  <2>2. CASE run'.state \in Draining => run.state \in Draining
    BY <1>1, <1>3, <2>1, <2>2 DEF SamePass, Drained, Draining
  <2>3. ASSUME NEW s \in Scanner,
               scan[s].phase = "checkpoint", scan[s].run = run.id, scan[s].exhausted
        PROVE  Drained'
    <3>1. ScanFine(s)
      BY DEF BackfillInv
    <3>2. \A h \in steady \ Unusable : Admitted(h)
      BY <1>1, <2>3, <3>1 DEF ScanFine, PassShape
    <3>. QED
      BY <1>3, <2>1, <3>2 DEF SamePass, Drained
  <2>. QED
    BY <1>3, <2>2, <2>3 DEF SamePass
<1>. QED
  BY <1>2, <1>3, PassForms

-----------------------------------------------------------------------------
(* The scans                                                               *)

\* A scan that a step leaves alone, or hands to the orphan, stays fine.
LEMMA FineStays ==
    ASSUME BackfillInv, [BackfillNext]_backfillVars,
           NEW s \in Scanner, NEW t \in Scanner, scan'[s] = scan[t]
    PROVE  ScanFine(s)'
<1>1. ScanFine(t) /\ RunType /\ scan[t] \in Scan
  BY TypeParts DEF BackfillInv, ScanType
<1>2. CASE SamePass
  <2>1. \A h : Admitted(h) => Admitted(h)'
    BY <1>2, PassKeepsJobs DEF SamePass
  <2>. QED
    BY <1>1, <1>2, <2>1 DEF SamePass, ScanFine
<1>3. CASE NextPass
  <2>1. run'.id = run.id + 1 /\ run.id \in Nat /\ scan[t].run \in Nat
    BY <1>1, <1>3, Bounds DEF NextPass, RunType, Scan
  <2>2. scan[t].run <= run.id => scan[t].run <= run'.id /\ scan[t].run # run'.id
    BY <2>1
  <2>. QED
    BY <1>1, <2>2 DEF ScanFine
<1>. QED
  BY <1>2, <1>3, PassForms

LEMMA RestFine ==
    ASSUME NEW s \in Scanner, scan'[s].phase \notin {"read", "enqueue", "checkpoint"}
    PROVE  ScanFine(s)'
  BY DEF ScanFine

LEMMA ScansStep ==
    ASSUME BackfillInv, [BackfillNext]_backfillVars
    PROVE  \A s \in Scanner : ScanFine(s)'
<1> SUFFICES ASSUME NEW s \in Scanner PROVE ScanFine(s)'
  OBVIOUS
<1>1. ScanType /\ RunType /\ HotelType /\ ScanCovers /\ PassShape /\ StillBlank /\ ScanFine(s)
  BY TypeParts DEF BackfillInv
<1>2. RunType' /\ PassShape' /\ ScanCovers'
  BY RunTypes, ShapeStep, CoverStep
<1>3. CASE scan'[s] = scan[s]
  BY <1>3, FineStays
<1>4. ASSUME scan'[s] = Admit(run') PROVE ScanFine(s)'
  <2>1. \/ Admit(run').phase = "idle"
        \/ /\ Admit(run').phase = "read" /\ ~ Admit(run').exhausted
           /\ Admit(run').run = run'.id /\ Admit(run').at = run'.cursor
           /\ Admit(run').ceiling = run'.ceiling /\ 0 < Admit(run').slots
           /\ run'.state = "running"
    BY <1>2, AdmitType DEF RunType
  <2>2. CASE Admit(run').phase = "idle"
    BY <1>4, <2>2, RestFine
  <2>3. CASE /\ Admit(run').phase = "read" /\ ~ Admit(run').exhausted
             /\ Admit(run').run = run'.id /\ Admit(run').at = run'.cursor
             /\ Admit(run').ceiling = run'.ceiling /\ 0 < Admit(run').slots
             /\ run'.state = "running"
    <3>1. 0 < run'.id /\ run'.id <= run'.id
      BY <1>2, <2>3, Bounds DEF RunType, PassShape
    <3>2. \A h \in steady' \ Unusable : h <= run'.cursor => Admitted(h)'
      BY <1>2 DEF ScanCovers, Admitted
    <3>. QED
      BY <1>4, <2>3, <3>1, <3>2 DEF ScanFine
  <2>. QED
    BY <2>1, <2>2, <2>3
<1>5. CASE ScanBegin
  <2>1. CASE s # "task"
    BY <1>1, <1>3, <1>5, <2>1 DEF ScanBegin, ScanType
  <2>2. CASE s = "task" /\ scan' = [scan EXCEPT !["task"] = [IdleScan EXCEPT !.phase = "start"]]
    BY <1>1, <2>2, IdleScanType, RestFine DEF ScanType
  <2>3. CASE s = "task" /\ scan' = [scan EXCEPT !["task"] = Admit(run)]
    <3>1. Admit(run') = Admit(run)
      BY <1>5 DEF ScanBegin, runVars, Admit, FreeSlots, Active
    <3>. QED
      BY <1>1, <1>4, <2>3, <3>1 DEF ScanType
  <2>. QED
    BY <1>5, <2>1, <2>2, <2>3 DEF ScanBegin
<1>6. ASSUME NEW t \in Scanner, ScanStart(t) PROVE ScanFine(s)'
  <2>1. scan' = [scan EXCEPT ![t] = Admit(run')]
    BY <1>6 DEF ScanStart
  <2>. QED
    BY <1>1, <1>3, <1>4, <2>1 DEF ScanType
<1>7. ASSUME NEW t \in Scanner, ScanRead(t) PROVE ScanFine(s)'
  <2>1. PICK c \in Scan, batch \in SUBSET Hotel :
              /\ scan' = [scan EXCEPT ![t] = c]
              /\ c.run = scan[t].run /\ c.ceiling = scan[t].ceiling /\ c.slots = scan[t].slots
              /\ batch \subseteq {h \in incomplete : scan[t].at < h /\ h <= scan[t].ceiling}
              /\ \A h \in incomplete, g \in batch :
                    scan[t].at < h /\ h <= g => h \in batch
              /\ \/ /\ c.phase = "checkpoint" /\ c.at = scan[t].ceiling /\ c.exhausted
                    /\ \A h \in incomplete : ~ (scan[t].at < h /\ h <= scan[t].ceiling)
                 \/ /\ c.phase = "enqueue" /\ ~ c.exhausted
                    /\ c.rows = {<<h, seen[h]>> : h \in batch}
    BY <1>7, ReadMoves
  <2>2. CASE s # t
    BY <1>1, <1>3, <2>1, <2>2 DEF ScanType
  <2>3. CASE s = t
    <3>1. scan'[s] = c /\ scan[s].phase = "read"
      BY <1>1, <1>7, <2>1, <2>3 DEF ScanType, ScanRead
    <3>2. run' = run /\ steady' = steady /\ jobs' = jobs
      BY <1>7 DEF ScanRead, runVars, hotelVars
    <3>3. \A h : Admitted(h)' = Admitted(h)
      BY <3>2 DEF Admitted, JobsOf
    <3>4. /\ 0 < scan[s].run /\ scan[s].run <= run.id /\ 0 < scan[s].slots
          /\ scan[s].run = run.id =>
                /\ scan[s].ceiling = run.ceiling
                /\ \A h \in steady \ Unusable : h <= scan[s].at => Admitted(h)
      BY <1>1, <3>1 DEF ScanFine
    <3>5. scan[s].at \in Nat /\ steady \subseteq Nat /\ incomplete \subseteq Nat /\ batch \subseteq Nat
      BY <1>1, Bounds DEF ScanType, Scan, HotelType
    <3>6. \A h \in steady : h <= scan[s].at \/ scan[s].at < h
      BY <3>5
    <3>7. CASE /\ c.phase = "checkpoint" /\ c.at = scan[t].ceiling /\ c.exhausted
               /\ \A h \in incomplete : ~ (scan[t].at < h /\ h <= scan[t].ceiling)
      <4>1. scan[s].run = run.id =>
               \A h \in steady \ Unusable : h <= c.at => Admitted(h)
        BY <1>1, <2>3, <3>4, <3>6, <3>7 DEF StillBlank
      <4>. QED
        BY <2>1, <2>3, <3>1, <3>2, <3>3, <3>4, <3>7, <4>1 DEF ScanFine
    <3>8. CASE /\ c.phase = "enqueue" /\ ~ c.exhausted
               /\ c.rows = {<<h, seen[h]>> : h \in batch}
      <4>1. ASSUME scan[s].run = run.id, NEW h \in steady \ Unusable, NEW row \in c.rows,
                   h <= row[1], ~ Admitted(h)
            PROVE  \E o \in Seen : <<h, o>> \in c.rows
        <5>1. PICK g \in batch : row = <<g, seen[g]>>
          BY <3>8, <4>1
        <5>2. h \in incomplete /\ scan[s].at < h
          BY <1>1, <3>4, <3>6, <4>1 DEF StillBlank
        <5>3. h \in batch
          BY <2>1, <2>3, <4>1, <5>1, <5>2
        <5>4. seen[h] \in Seen
          BY <1>1, <5>3 DEF HotelType
        <5>. QED
          BY <3>8, <5>3, <5>4
      <4>. QED
        BY <2>1, <2>3, <3>1, <3>2, <3>3, <3>4, <3>8, <4>1 DEF ScanFine
    <3>. QED
      BY <2>1, <3>7, <3>8
  <2>. QED
    BY <2>2, <2>3
<1>8. ASSUME NEW t \in Scanner, NEW h \in Hotel, ScanEnqueue(t, h) PROVE ScanFine(s)'
  <2>1. PICK c \in Scan, o \in Seen :
              /\ scan' = [scan EXCEPT ![t] = c]
              /\ scan[t].phase = "enqueue" /\ <<h, o>> \in scan[t].rows
              /\ \A row \in scan[t].rows : h <= row[1]
              /\ c.run = scan[t].run /\ c.ceiling = scan[t].ceiling /\ ~ c.exhausted /\ c.at = h
              /\ \/ c.phase = "checkpoint"
                 \/ c.phase = "enqueue" /\ c.rows = scan[t].rows \ {<<h, o>>} /\ 0 < c.slots
              /\ h \in Unusable \/ jobs'[[run |-> scan[t].run, hotel |-> h, seen |-> o]].state # "none"
    BY <1>8, EnqueueMoves
  <2>2. CASE s # t
    BY <1>1, <1>3, <2>1, <2>2 DEF ScanType
  <2>3. CASE s = t
    <3>1. scan'[s] = c
      BY <1>1, <2>1, <2>3 DEF ScanType
    <3>2. run' = run /\ steady' = steady
      BY <1>8 DEF ScanEnqueue, hotelVars
    <3>3. \A g : Admitted(g) => Admitted(g)'
      BY <3>2, PassKeepsJobs
    <3>4. /\ 0 < scan[s].run /\ scan[s].run <= run.id
          /\ scan[s].run = run.id =>
                /\ scan[s].ceiling = run.ceiling
                /\ \A g \in steady \ Unusable, row \in scan[s].rows :
                     g <= row[1] => Admitted(g) \/ \E p \in Seen : <<g, p>> \in scan[s].rows
      BY <1>1, <2>1, <2>3 DEF ScanFine
    <3>5. scan[s].run = run.id /\ h \notin Unusable => Admitted(h)'
      <4>1. scan[s].run \in RunId
        BY <1>1, <3>4, Bounds DEF ScanType, Scan, RunId
      <4>2. [run |-> scan[s].run, hotel |-> h, seen |-> o] \in JobId
        BY <4>1 DEF JobId
      <4>. QED
        BY <2>1, <2>3, <3>2, <4>2 DEF Admitted, JobsOf
    <3>6. ASSUME scan[s].run = run.id, NEW g \in steady \ Unusable, g <= h
          PROVE  Admitted(g)'
      <4>1. CASE \E p \in Seen : <<g, p>> \in scan[s].rows
        <5>1. h <= g
          BY <2>1, <2>3, <4>1
        <5>2. g = h
          BY <1>1, <3>6, <5>1, Bounds DEF HotelType
        <5>. QED
          BY <3>5, <3>6, <5>2
      <4>2. Admitted(g) \/ \E p \in Seen : <<g, p>> \in scan[s].rows
        BY <2>1, <2>3, <3>4, <3>6
      <4>. QED
        BY <3>3, <4>1, <4>2
    <3>7. ASSUME scan[s].run = run.id, NEW g \in steady \ Unusable, NEW row \in scan[s].rows \ {<<h, o>>},
                 g <= row[1], ~ Admitted(g)'
          PROVE  \E p \in Seen : <<g, p>> \in scan[s].rows \ {<<h, o>>}
      <4>1. PICK p \in Seen : <<g, p>> \in scan[s].rows
        BY <3>3, <3>4, <3>7
      <4>2. g # h
        BY <3>5, <3>7
      <4>. QED
        BY <4>1, <4>2
    <3>8. CASE c.phase = "checkpoint"
      BY <2>1, <2>3, <3>1, <3>2, <3>4, <3>6, <3>8 DEF ScanFine
    <3>9. CASE c.phase = "enqueue" /\ c.rows = scan[t].rows \ {<<h, o>>} /\ 0 < c.slots
      BY <2>1, <2>3, <3>1, <3>2, <3>4, <3>7, <3>9 DEF ScanFine
    <3>. QED
      BY <2>1, <3>8, <3>9
  <2>. QED
    BY <2>2, <2>3
<1>9. ASSUME NEW t \in Scanner, ScanCheckpoint(t) \/ ScanFails(t) PROVE ScanFine(s)'
  <2>1. scan' = [scan EXCEPT ![t] = IdleScan]
    BY <1>9 DEF ScanCheckpoint, ScanFails
  <2>2. CASE s # t
    BY <1>1, <1>3, <2>1, <2>2 DEF ScanType
  <2>3. CASE s = t
    BY <1>1, <2>1, <2>3, IdleScanType, RestFine DEF ScanType
  <2>. QED
    BY <2>2, <2>3
<1>10. CASE StopWorker
  <2>1. CASE UNCHANGED scan
    BY <1>3, <2>1
  <2>2. CASE scan' = [task |-> IdleScan, orphan |-> scan["task"]]
    <3>1. CASE s = "task"
      BY <2>2, <3>1, IdleScanType, RestFine
    <3>2. CASE s = "orphan"
      BY <2>2, <3>2, FineStays DEF Scanner
    <3>. QED
      BY <3>1, <3>2 DEF Scanner
  <2>. QED
    BY <1>10, <2>1, <2>2 DEF StopWorker
<1>11. CASE CrashWorker
  BY <1>11, IdleScanType, RestFine DEF CrashWorker
<1>12. CASE UNCHANGED scan
  BY <1>3, <1>12
<1>. QED
  BY <1>5, <1>6, <1>7, <1>8, <1>9, <1>10, <1>11, <1>12
  DEF BackfillNext, backfillVars, StartBackfill, PauseBackfill, ScanWorks, Defer, BackoffElapses,
      SaveResult, LateSave, Finish, Fault, CollectorFails, Launch, Apply,
      StartWorker, FilledElsewhere, Observe, NewHotel

-----------------------------------------------------------------------------
(* Theorems                                                                *)

LEMMA BackfillInvariant == BackfillSpec => []BackfillInv
<1>1. BackfillInit => BackfillInv
  BY BackfillInitInv
<1>2. BackfillInv /\ [BackfillNext]_backfillVars => BackfillInv'
  <2> SUFFICES ASSUME BackfillInv, [BackfillNext]_backfillVars PROVE BackfillInv'
    OBVIOUS
  <2>1. BackfillTypeOK' /\ AttemptsLeft' /\ PassShape' /\ StillBlank' /\ Drained' /\ ScanCovers'
    BY BackfillTypes, JobsStep, ShapeStep, BlankStep, DrainStep, CoverStep
  <2>2. \A s \in Scanner : ScanFine(s)'
    BY ScansStep
  <2>. QED
    BY <2>1, <2>2 DEF BackfillInv
<1>. QED
  BY <1>1, <1>2, PTL DEF BackfillSpec

\* The pass, its queue, its scans and its collectors are well typed.
THEOREM BackfillTypeCorrect == BackfillSpec => []BackfillTypeOK
<1>1. BackfillInv => BackfillTypeOK
  BY DEF BackfillInv
<1>. QED
  BY <1>1, BackfillInvariant, PTL

\* "Enqueue first, checkpoint second" leaves no hotel out, for any inventory
\* and any interleaving of a run's scan with that of a stopped one.
THEOREM ScanLeavesNoneOut == BackfillSpec => []ScanCovers
<1>1. BackfillInv => ScanCovers
  BY DEF BackfillInv
<1>. QED
  BY <1>1, BackfillInvariant, PTL

\* backfill_status: a pass that reads as completed has dealt with its snapshot.
THEOREM CompletedIsComplete == BackfillSpec => []PassComplete
<1>1. BackfillInv => PassComplete
  <2> SUFFICES ASSUME BackfillInv, BackfillStatus = "completed", NEW h \in steady \ Unusable
               PROVE  \E j \in JobsOf(run.id, h) : jobs[j].state = "finished"
    BY DEF PassComplete
  <2>1. run.state = "draining" /\ Active(run.id) = {}
    BY TypeParts DEF BackfillInv, RunType, RunState, BackfillStatus
  <2>2. PICK j \in JobId : j \in JobsOf(run.id, h)
    BY <2>1 DEF BackfillInv, Drained, Admitted, JobsOf
  <2>3. jobs[j].state \in JobState /\ jobs[j].state # "none" /\ j.run = run.id
    BY <2>2, TypeParts DEF BackfillInv, JobsType, JobRecord, JobsOf
  <2>4. jobs[j].state \notin Queued
    BY <2>1, <2>2, <2>3 DEF Active
  <2>. QED
    BY <2>2, <2>3, <2>4 DEF JobState
<1>. QED
  BY <1>1, BackfillInvariant, PTL

\* start_backfill retains the original snapshot until the pass is completed.
THEOREM SnapshotIsKept == BackfillSpec => SnapshotKept
<1>1. BackfillInv /\ [BackfillNext]_backfillVars
        => [ run.id # 0 /\ BackfillStatus # "completed"
             => run'.id = run.id /\ run'.ceiling = run.ceiling ]_backfillVars
  BY PassForms DEF SamePass, NextPass
<1>. QED
  BY <1>1, BackfillInvariant, PTL DEF BackfillSpec, SnapshotKept

-----------------------------------------------------------------------------
(* The admission cap                                                       *)

\* What a scan may still admit, beside what its pass has queued.
SlotsFit ==
    \A r \in RunId : scan["task"].phase \in {"read", "enqueue"} /\ scan["task"].run = r =>
        scan["task"].slots + Cardinality(Active(r)) <= MaxPending

\* A collector has its job to itself, one scan is at work at a time, no save
\* outlives its run, and each pass has room for what its scan may admit.
InOrder ==
    /\ scan["orphan"].phase = "idle" /\ late = {}
    /\ \A f \in fetching : jobs[f.job].state \in {"pending", "retry"}
    /\ \A f, g \in fetching : f.job = g.job => f = g
    /\ \A j \in applying : jobs[j].state = "fetched"
    /\ SlotsFit /\ \A r \in RunId : Cardinality(Active(r)) <= MaxPending

\* It is so until a run is stopped with its threads at work.
CapInv == ~abandoned => InOrder

\* A run that is stopped without stands still.
LEMMA CleanStop ==
    ASSUME StopWorker, ~abandoned'
    PROVE  UNCHANGED <<scan, late, jobs>> /\ fetching' = {} /\ applying' = {}
  BY DEF StopWorker, runVars

\* What has been abandoned stays so.
LEMMA AbandonedStays ==
    ASSUME [BackfillNext]_backfillVars, abandoned PROVE abandoned'
<1>1. ASSUME UNCHANGED abandoned PROVE abandoned'
  BY <1>1
<1>2. CASE StopWorker
  BY <1>2 DEF StopWorker
<1>3. CASE \E s \in Scanner : ScanWorks(s) \/ ScanFails(s)
  BY <1>1, <1>3 DEF ScanWorks, ScanStart, ScanRead, ScanCheckpoint, ScanEnqueue, ScanFails, workVars
<1>4. CASE \E j \in JobId : Launch(j) \/ Defer(j) \/ BackoffElapses(j) \/ SaveResult(j) \/ Apply(j)
  BY <1>1, <1>4 DEF Launch, Defer, BackoffElapses, SaveResult, Apply, workVars
<1>5. CASE UNCHANGED backfillVars
  BY <1>1, <1>5 DEF backfillVars, workVars
<1>6. CASE StartBackfill \/ PauseBackfill \/ ScanBegin
  BY <1>1, <1>6 DEF StartBackfill, PauseBackfill, ScanBegin, workVars
<1>7. CASE Finish \/ StartWorker \/ CrashWorker \/ NewHotel
           \/ (\E h \in Hotel : FilledElsewhere(h) \/ Observe(h))
           \/ (\E f \in late : LateSave(f)) \/ (\E f \in fetching : CollectorFails(f))
  BY <1>1, <1>7 DEF Finish, StartWorker, CrashWorker, NewHotel, FilledElsewhere, Observe,
                    LateSave, CollectorFails, workVars
<1>. QED
  BY <1>2, <1>3, <1>4, <1>5, <1>6, <1>7 DEF BackfillNext, Fault

LEMMA ActiveFinite ==
    ASSUME NEW r
    PROVE  IsFiniteSet(Active(r)) /\ Cardinality(Active(r)) \in Nat
<1>1. Active(r) \subseteq JobId
  BY DEF Active
<1>. QED
  BY <1>1, JobsFinite, FS_Subset, FS_CardinalityType

\* A queue that gains no job has no more of them.
LEMMA FewerActive ==
    ASSUME NEW r, \A j \in JobId : jobs'[j].state \in Queued => jobs[j].state \in Queued
    PROVE  Cardinality(Active(r)') <= Cardinality(Active(r)) /\ Cardinality(Active(r)') \in Nat
<1> DEFINE now == {j \in JobId : j.run = r /\ jobs[j].state \in Queued}
           next == {j \in JobId : j.run = r /\ jobs'[j].state \in Queued}
<1>1. next \subseteq now /\ IsFiniteSet(now)
  BY ActiveFinite DEF Active
<1>2. Cardinality(next) <= Cardinality(now) /\ Cardinality(next) \in Nat
  BY <1>1, FS_Subset, FS_CardinalityType
<1>. QED
  BY <1>2 DEF Active

\* One that gains at most job i, of pass i.run, has one more there at most.
LEMMA OneMoreActive ==
    ASSUME NEW i \in JobId, NEW r,
           \A j \in JobId \ {i} : jobs'[j].state \in Queued => jobs[j].state \in Queued
    PROVE  /\ Cardinality(Active(r)') <= Cardinality(Active(r)) + 1
           /\ i.run # r => Cardinality(Active(r)') <= Cardinality(Active(r))
           /\ Cardinality(Active(r)') \in Nat
<1> DEFINE now == {j \in JobId : j.run = r /\ jobs[j].state \in Queued}
           next == {j \in JobId : j.run = r /\ jobs'[j].state \in Queued}
<1>1. IsFiniteSet(now) /\ next \subseteq now \cup {i} /\ (i.run # r => next \subseteq now)
  BY ActiveFinite DEF Active
<1> HIDE DEF now, next
<1>2. IsFiniteSet(now \cup {i}) /\ Cardinality(now \cup {i}) <= Cardinality(now) + 1
      /\ Cardinality(now) \in Nat /\ Cardinality(now \cup {i}) \in Nat
  <2>1. IsFiniteSet(now)
    BY <1>1
  <2>2. Cardinality(now) \in Nat
    BY <2>1, FS_CardinalityType
  <2>3. IsFiniteSet(now \cup {i})
        /\ (Cardinality(now \cup {i}) = Cardinality(now) \/ Cardinality(now \cup {i}) = Cardinality(now) + 1)
    BY <2>1, FS_AddElement
  <2>4. Cardinality(now \cup {i}) \in Nat
    BY <2>3, FS_CardinalityType
  <2>. QED
    BY <2>2, <2>3, <2>4
<1>3. /\ Cardinality(next) <= Cardinality(now \cup {i}) /\ Cardinality(next) \in Nat
      /\ i.run # r => Cardinality(next) <= Cardinality(now)
  BY <1>1, <1>2, FS_Subset, FS_CardinalityType
<1>4. Cardinality(next) <= Cardinality(now) + 1
  BY <1>2, <1>3
<1>. QED
  BY <1>3, <1>4 DEF Active, now, next

\* No step but that of a scan puts a job into the queue, and none takes a job
\* from under its collector or its evidence.
LEMMA QueueStands ==
    ASSUME BackfillInv, InOrder, [BackfillNext]_backfillVars, ~abandoned',
           \A s \in Scanner, h \in Hotel : ~ScanEnqueue(s, h)
    PROVE  /\ \A j \in JobId : jobs'[j].state \in Queued => jobs[j].state \in Queued
           /\ late' = {}
           /\ \A f \in fetching' : jobs'[f.job].state \in {"pending", "retry"}
           /\ \A f, g \in fetching' : f.job = g.job => f = g
           /\ \A j \in applying' : jobs'[j].state = "fetched"
<1>0. JobsType /\ WorkType /\ \A f \in fetching : f.job \in JobId
  BY TypeParts DEF BackfillInv, WorkType, Fetch
<1> USE DEF InOrder
<1>1. CASE UNCHANGED <<jobs, fetching, late, applying>>
  BY <1>1
<1>2. ASSUME NEW j \in JobId, Launch(j)
      PROVE  /\ jobs' = jobs /\ late' = {} /\ applying' = applying
             /\ \A f \in fetching' : jobs[f.job].state \in {"pending", "retry"}
             /\ \A f, g \in fetching' : f.job = g.job => f = g
  BY <1>2 DEF Launch, runVars
<1>3. ASSUME NEW j \in JobId, Defer(j) \/ BackoffElapses(j)
      PROVE  /\ \A i \in JobId : jobs'[i].state = jobs[i].state
             /\ UNCHANGED <<fetching, late, applying>>
  BY <1>0, <1>3 DEF Defer, BackoffElapses, workVars, JobsType, JobRecord
<1>4. ASSUME NEW j \in JobId, SaveResult(j)
      PROVE  /\ \A i \in JobId : jobs'[i].state \in Queued => jobs[i].state \in Queued
             /\ late' = {}
             /\ \A f \in fetching' : jobs'[f.job].state \in {"pending", "retry"}
             /\ \A f, g \in fetching' : f.job = g.job => f = g
             /\ \A i \in applying' : jobs'[i].state = "fetched"
  <2>1. PICK f \in fetching : f.job = j /\ save_result(f) /\ fetching' = fetching \ {f}
    BY <1>4 DEF SaveResult
  <2>2. late' = late /\ applying' = applying
    BY <1>4 DEF SaveResult
  <2>3. jobs[j].state \in {"pending", "retry"} /\ j \notin applying
    BY <2>1
  <2>4. \A i \in JobId \ {j} : jobs'[i] = jobs[i]
    BY <1>0, <2>1 DEF save_result, JobsType
  <2>5. \A g \in fetching' : g.job # j /\ g.job \in JobId /\ g \in fetching
    BY <1>0, <2>1
  <2>6. applying \subseteq JobId
    BY <1>0 DEF WorkType
  <2>. QED
    BY <2>2, <2>3, <2>4, <2>5, <2>6 DEF Queued
<1>5. CASE Finish
  <2>1. PICK j \in applying : jobs' = [jobs EXCEPT ![j].state = "finished"]
    BY <1>5 DEF Finish
  <2>2. applying' = {} /\ fetching' = fetching /\ late' = late
    BY <1>5 DEF Finish
  <2>3. \A i \in JobId \ {j} : jobs'[i] = jobs[i]
    BY <1>0, <2>1 DEF JobsType
  <2>4. jobs[j].state = "fetched"
    BY <2>1
  <2>. QED
    BY <1>0, <2>2, <2>3, <2>4 DEF Queued
<1>6. ASSUME NEW j \in JobId, Apply(j)
      PROVE  jobs' = jobs /\ UNCHANGED <<fetching, late>> /\ \A i \in applying' : jobs[i].state = "fetched"
  BY <1>6 DEF Apply, runVars
<1>7. ASSUME jobs' = jobs, late' = {}, fetching' \subseteq fetching, applying' \subseteq applying
      PROVE  /\ \A f \in fetching' : jobs'[f.job].state \in {"pending", "retry"}
             /\ \A f, g \in fetching' : f.job = g.job => f = g
             /\ \A j \in applying' : jobs'[j].state = "fetched"
  BY <1>7
<1>8. CASE CrashWorker \/ StopWorker \/ \E f \in fetching : CollectorFails(f)
  <2>1. CASE StopWorker
    BY <1>7, <2>1, CleanStop
  <2>. QED
    BY <1>7, <1>8, <2>1 DEF CrashWorker, CollectorFails, runVars
<1>9. ~\E f \in late : LateSave(f)
  OBVIOUS
<1>10. CASE \E j \in JobId : Defer(j) \/ BackoffElapses(j)
  BY <1>0, <1>3, <1>10 DEF WorkType
<1> DEFINE Still == UNCHANGED <<jobs, fetching, late, applying>>
<1>11. ASSUME StartBackfill \/ PauseBackfill \/ ScanBegin PROVE Still
  BY <1>11 DEF StartBackfill, PauseBackfill, ScanBegin, workVars, runVars
<1>12. ASSUME NEW s \in Scanner, ScanWorks(s) PROVE Still
  BY <1>12 DEF ScanWorks, ScanStart, ScanRead, ScanCheckpoint, workVars, runVars
<1>13. ASSUME NEW s \in Scanner, ScanFails(s) PROVE Still
  BY <1>13 DEF ScanFails, workVars, runVars
<1>14. ASSUME StartWorker \/ NewHotel \/ \E h \in Hotel : FilledElsewhere(h) \/ Observe(h) PROVE Still
  BY <1>14 DEF StartWorker, FilledElsewhere, Observe, NewHotel, workVars, runVars
<1>15. ASSUME UNCHANGED backfillVars PROVE Still
  BY <1>15 DEF backfillVars, runVars, workVars
<1> HIDE DEF Still
<1>16. CASE Fault
  BY <1>1, <1>8, <1>13, <1>16 DEF Fault, Still
<1>. QED
  BY <1>1, <1>2, <1>4, <1>5, <1>6, <1>8, <1>9, <1>10, <1>11, <1>12, <1>14, <1>15, <1>16
  DEF BackfillNext, Still

\* What Admit gives a scan is what its pass has left.
LEMMA SlotsLeft ==
    ASSUME NEW r, FreeSlots(r) > 0
    PROVE  FreeSlots(r) + Cardinality(Active(r)) = MaxPending
  BY ActiveFinite, Bounds DEF FreeSlots

\* A step that puts no job into the queue leaves the slots of the scan as they
\* were, or counts them anew.
LEMMA SlotsStand ==
    ASSUME BackfillInv, InOrder, [BackfillNext]_backfillVars, ~abandoned',
           \A s \in Scanner, h \in Hotel : ~ScanEnqueue(s, h)
    PROVE  scan'["orphan"].phase = "idle" /\ SlotsFit'
<1>1. ScanType /\ RunType /\ RunType' /\ BackfillTypeOK /\ PassShape
  BY TypeParts, RunTypes DEF BackfillInv
<1>2. /\ scan["orphan"].phase = "idle" /\ SlotsFit /\ Scanner = {"task", "orphan"}
      /\ scan["task"] \in Scan
  BY <1>1 DEF InOrder, Scanner, ScanType
<1>3. \A r \in RunId : /\ Cardinality(Active(r)') <= Cardinality(Active(r))
                       /\ Cardinality(Active(r)') \in Nat /\ Cardinality(Active(r)) \in Nat
  BY QueueStands, FewerActive, ActiveFinite
<1>4. ASSUME scan'["task"].phase \in {"read", "enqueue"} => 
                /\ scan["task"].phase \in {"read", "enqueue"}
                /\ scan'["task"].run = scan["task"].run /\ scan'["task"].slots = scan["task"].slots
      PROVE  SlotsFit'
  <2>1. scan["task"].slots \in Nat
    BY <1>2, Bounds DEF Scan
  <2>. QED
    BY <1>2, <1>3, <1>4, <2>1, Bounds DEF SlotsFit
<1>5. ASSUME scan'["task"] = Admit(run'), jobs' = jobs PROVE SlotsFit'
  <2> SUFFICES ASSUME NEW r \in RunId, scan'["task"].phase \in {"read", "enqueue"},
                      scan'["task"].run = r
               PROVE  scan'["task"].slots + Cardinality(Active(r)') <= MaxPending
    BY DEF SlotsFit
  <2>1. run'.id = r /\ scan'["task"].slots = FreeSlots(r) /\ FreeSlots(r) > 0
    BY <1>5, IdleScanType DEF Admit, IdleScan
  <2>2. Active(r)' = Active(r)
    BY <1>5 DEF Active
  <2>. QED
    BY <2>1, <2>2, SlotsLeft, Bounds, ActiveFinite
<1>6. CASE scan' = scan
  BY <1>2, <1>4, <1>6
<1>7. CASE ScanBegin
  <2>1. jobs' = jobs /\ run' = run
    BY <1>7 DEF ScanBegin, runVars
  <2>2. CASE scan' = [scan EXCEPT !["task"] = [IdleScan EXCEPT !.phase = "start"]]
    BY <1>1, <1>2, <1>4, <2>2, IdleScanType DEF ScanType
  <2>3. CASE scan' = [scan EXCEPT !["task"] = Admit(run)]
    <3>1. scan'["task"] = Admit(run') /\ scan'["orphan"] = scan["orphan"]
      BY <1>1, <1>2, <2>1, <2>3 DEF ScanType
    <3>. QED
      BY <1>2, <1>5, <2>1, <3>1
  <2>. QED
    BY <1>7, <2>2, <2>3 DEF ScanBegin
<1>8. ASSUME NEW s \in Scanner, ScanStart(s) PROVE scan'["orphan"].phase = "idle" /\ SlotsFit'
  <2>1. s = "task"
    BY <1>2, <1>8 DEF ScanStart
  <2>2. scan'["task"] = Admit(run') /\ scan'["orphan"] = scan["orphan"] /\ jobs' = jobs
    BY <1>1, <1>2, <1>8, <2>1 DEF ScanStart, ScanType
  <2>. QED
    BY <1>2, <1>5, <2>2
<1>9. ASSUME NEW s \in Scanner, ScanRead(s) PROVE scan'["orphan"].phase = "idle" /\ SlotsFit'
  <2>1. s = "task" /\ scan["task"].phase = "read"
    BY <1>2, <1>9 DEF ScanRead
  <2>2. PICK c \in Scan : /\ scan' = [scan EXCEPT ![s] = c]
                          /\ c.run = scan[s].run /\ c.slots = scan[s].slots
    BY <1>9, ReadMoves
  <2>. QED
    BY <1>1, <1>2, <1>4, <2>1, <2>2 DEF ScanType
<1>10. ASSUME NEW s \in Scanner, ScanCheckpoint(s) \/ ScanFails(s)
       PROVE  scan'["orphan"].phase = "idle" /\ SlotsFit'
  BY <1>1, <1>2, <1>4, <1>10, IdleScanType DEF ScanCheckpoint, ScanFails, ScanType
<1>11. CASE CrashWorker
  BY <1>2, <1>4, <1>11, IdleScanType DEF CrashWorker
<1>12. CASE StopWorker
  BY <1>2, <1>6, <1>12, CleanStop
<1>. QED
  BY <1>2, <1>6, <1>7, <1>8, <1>9, <1>10, <1>11, <1>12
  DEF BackfillNext, backfillVars, StartBackfill, PauseBackfill, ScanWorks, Defer, BackoffElapses,
      SaveResult, LateSave, Finish, Fault, CollectorFails, Launch, Apply,
      StartWorker, FilledElsewhere, Observe, NewHotel

\* A row that is admitted takes a slot.
LEMMA EnqueueFits ==
    ASSUME BackfillInv, InOrder, NEW s \in Scanner, NEW h \in Hotel, ScanEnqueue(s, h)
    PROVE  InOrder'
<1>1. ScanType /\ JobsType /\ WorkType /\ Scanner = {"task", "orphan"}
  BY TypeParts DEF BackfillInv, Scanner
<1>2. s = "task" /\ scan["task"].phase = "enqueue" /\ ScanFine("task") /\ scan["task"] \in Scan
  BY <1>1 DEF BackfillInv, InOrder, ScanEnqueue, ScanType
<1>3. scan["task"].run \in RunId /\ 0 < scan["task"].slots /\ scan["task"].slots \in Nat
  BY <1>2, Bounds DEF ScanFine, Scan, RunId
<1>4. PICK o \in Seen :
         /\ IF h \in Unusable THEN UNCHANGED jobs
            ELSE enqueue([run |-> scan["task"].run, hotel |-> h, seen |-> o])
         /\ scan'["orphan"] = scan["orphan"] /\ scan'["task"].run = scan["task"].run
         /\ scan'["task"].slots = IF h \in Unusable THEN scan["task"].slots ELSE scan["task"].slots - 1
  BY <1>1, <1>2 DEF ScanEnqueue, ScanType, Scan
<1>5. PICK i \in JobId : i = [run |-> scan["task"].run, hotel |-> h, seen |-> o]
  BY <1>3 DEF JobId
<1>6. i.run = scan["task"].run
  BY <1>5
<1>7. /\ \A j \in JobId \ {i} : jobs'[j] = jobs[j]
      /\ jobs[i].state # "none" => jobs'[i] = jobs[i]
      /\ h \in Unusable => jobs' = jobs
  BY <1>1, <1>4, <1>5 DEF enqueue, JobsType
<1>8. UNCHANGED <<fetching, late, applying>>
  BY DEF ScanEnqueue, workVars
<1>9. /\ scan["orphan"].phase = "idle" /\ late = {}
      /\ \A f \in fetching : f.job \in JobId /\ jobs[f.job].state \in {"pending", "retry"}
      /\ \A f, g \in fetching : f.job = g.job => f = g
      /\ \A j \in applying : j \in JobId /\ jobs[j].state = "fetched"
  BY <1>1 DEF InOrder, WorkType, Fetch
<1>10. /\ \A f \in fetching : jobs'[f.job].state \in {"pending", "retry"}
       /\ \A j \in applying : jobs'[j].state = "fetched"
  BY <1>7, <1>9
<1>11. ASSUME NEW r \in RunId
       PROVE  /\ Cardinality(Active(r)') \in Nat /\ Cardinality(Active(r)) \in Nat
              /\ Cardinality(Active(r)') <= Cardinality(Active(r)) + 1
              /\ i.run # r => Cardinality(Active(r)') <= Cardinality(Active(r))
              /\ h \in Unusable => Cardinality(Active(r)') <= Cardinality(Active(r))
              /\ Cardinality(Active(r)) <= MaxPending
              /\ i.run = r => scan["task"].slots + Cardinality(Active(r)) <= MaxPending
  <2>1. Cardinality(Active(r)) <= MaxPending
        /\ (i.run = r => scan["task"].slots + Cardinality(Active(r)) <= MaxPending)
    BY <1>2, <1>6 DEF InOrder, SlotsFit
  <2>2. h \in Unusable => Cardinality(Active(r)') <= Cardinality(Active(r))
    BY <1>7, FewerActive
  <2>. QED
    BY <1>7, <2>1, <2>2, OneMoreActive, ActiveFinite
<1>12. ASSUME NEW r \in RunId PROVE Cardinality(Active(r)') <= MaxPending
  BY <1>3, <1>11, Bounds
<1>13. SlotsFit'
  BY <1>3, <1>4, <1>6, <1>11, Bounds DEF SlotsFit
<1>. QED
  BY <1>4, <1>8, <1>9, <1>10, <1>12, <1>13 DEF InOrder

\* The order of scan, collectors and queue is kept.
LEMMA OrderKept == BackfillSpec => []CapInv
<1>1. BackfillInit => CapInv
  <2> SUFFICES ASSUME BackfillInit PROVE InOrder
    BY DEF CapInv
  <2>1. \A r \in RunId : Cardinality(Active(r)) = 0
    <3>1. \A r \in RunId : Active(r) = {}
      BY DEF BackfillInit, Active, NoJob, Queued
    <3>. QED
      BY <3>1, FS_EmptySet
  <2>2. \A s \in Scanner : scan[s].phase = "idle"
    BY IdleScanType DEF BackfillInit
  <2>. QED
    BY <2>1, <2>2, Bounds DEF BackfillInit, InOrder, SlotsFit, Scanner
<1>2. BackfillInv /\ CapInv /\ [BackfillNext]_backfillVars => CapInv'
  <2> SUFFICES ASSUME BackfillInv, InOrder, [BackfillNext]_backfillVars, ~abandoned',
                      \A s \in Scanner, h \in Hotel : ~ScanEnqueue(s, h)
               PROVE  InOrder'
    BY EnqueueFits, AbandonedStays DEF CapInv
  <2>1. ASSUME NEW r \in RunId PROVE Cardinality(Active(r)') <= MaxPending
    <3>1. Cardinality(Active(r)') <= Cardinality(Active(r)) /\ Cardinality(Active(r)') \in Nat
      BY QueueStands, FewerActive
    <3>2. Cardinality(Active(r)) <= MaxPending /\ Cardinality(Active(r)) \in Nat
      BY ActiveFinite DEF InOrder
    <3>. QED
      BY <3>1, <3>2, Bounds
  <2>. QED
    BY <2>1, QueueStands, SlotsStand DEF InOrder
<1>. QED
  BY <1>1, <1>2, BackfillInvariant, PTL DEF BackfillSpec

\* "The historical admission cap is per backfill run": until a worker is
\* stopped with a thread at work, no pass has more than MaxPending jobs queued,
\* for any inventory, batch, crashes, failing scans, pauses and passes.
THEOREM CapIsKept == BackfillSpec => []AdmissionCap
<1>1. CapInv => AdmissionCap
  BY DEF CapInv, InOrder, AdmissionCap
<1>. QED
  BY <1>1, OrderKept, PTL

-----------------------------------------------------------------------------
(* Jobs only go forward                                                    *)

\* A collector's copy of its job has the attempts the job has; a job that is
\* not there has none.
Copied ==
    /\ \A f \in fetching : jobs[f.job].attempts = f.attempts
    /\ \A j \in JobId : jobs[j].state = "none" => jobs[j].attempts = 0

\* What a step may do to job j, and that it does not take it back.
Forward(j) ==
    /\ jobs[j].state = "finished" => jobs'[j] = jobs[j]
    /\ jobs[j].state = "fetched" => jobs'[j].state \in {"fetched", "finished"}
    /\ jobs[j].attempts <= jobs'[j].attempts
    /\ jobs'[j].state = "none" => jobs'[j] = jobs[j]

\* save_result writes the job of the collector that calls it, which nobody else
\* has fetched meanwhile.
LEMMA SaveForward ==
    ASSUME JobsType, WorkType, InOrder, Copied, NEW f \in fetching, save_result(f)
    PROVE  /\ \A j \in JobId : Forward(j)
           /\ \A g \in fetching \ {f} : jobs'[g.job] = jobs[g.job]
<1>1. f.job \in JobId /\ f.attempts \in Nat
  BY Bounds DEF WorkType, Fetch
<1>2. /\ jobs[f.job].state \in {"pending", "retry"} /\ jobs[f.job].attempts = f.attempts
      /\ \A g \in fetching \ {f} : g.job # f.job
  BY DEF InOrder, Copied
<1>3. AttemptsAfter(f) = f.attempts + 1
  BY DEF AttemptsAfter
<1>4. /\ \A j \in JobId \ {f.job} : jobs'[j] = jobs[j]
      /\ jobs'[f.job].state \in {"retry", "fetched"} /\ jobs'[f.job].attempts = AttemptsAfter(f)
  BY <1>1 DEF save_result, JobsType
<1>5. \A j \in JobId : jobs[j].attempts \in Nat
  BY Bounds DEF JobsType, JobRecord
<1>6. Forward(f.job)
  BY <1>1, <1>2, <1>3, <1>4 DEF Forward
<1>7. \A j \in JobId \ {f.job} : Forward(j)
  BY <1>4, <1>5 DEF Forward
<1>8. \A g \in fetching : g.job \in JobId
  BY DEF WorkType, Fetch
<1>. QED
  BY <1>1, <1>2, <1>4, <1>6, <1>7, <1>8

\* A step of any kind takes no job back, and a collector's copy stays true.
LEMMA JobsForward ==
    ASSUME BackfillInv, InOrder, Copied, [BackfillNext]_backfillVars
    PROVE  Copied' /\ \A j \in JobId : Forward(j)
<1>0. /\ JobsType /\ WorkType /\ \A f \in fetching : f.job \in JobId
      /\ \A j \in JobId : jobs[j].attempts \in Nat
  <2>1. JobsType /\ WorkType
    BY TypeParts DEF BackfillInv
  <2>. QED
    BY <2>1, Bounds DEF WorkType, Fetch, JobsType, JobRecord
<1> DEFINE Kept == Copied' /\ \A j \in JobId : Forward(j)
<1>1. ASSUME jobs' = jobs, \A f \in fetching' : jobs[f.job].attempts = f.attempts PROVE Kept
  BY <1>0, <1>1 DEF Copied, Forward
<1>2. ASSUME UNCHANGED jobs, fetching' \subseteq fetching PROVE Kept
  BY <1>1, <1>2 DEF Copied
<1>3. ASSUME NEW j \in JobId, Launch(j) PROVE Kept
  BY <1>1, <1>3 DEF Launch, runVars, Copied
<1>4. ASSUME NEW j \in JobId, Defer(j) \/ BackoffElapses(j) PROVE Kept
  <2>1. /\ \A i \in JobId \ {j} : jobs'[i] = jobs[i]
        /\ jobs'[j].state = jobs[j].state /\ jobs'[j].attempts = jobs[j].attempts
        /\ jobs[j].state \in Queued /\ fetching' = fetching
    BY <1>0, <1>4 DEF Defer, BackoffElapses, workVars, JobsType, JobRecord, Queued
  <2>. QED
    BY <1>0, <2>1 DEF Copied, Forward, Queued
<1>5. ASSUME NEW j \in JobId, SaveResult(j) PROVE Kept
  <2>1. PICK f \in fetching : save_result(f) /\ fetching' = fetching \ {f}
    BY <1>5 DEF SaveResult
  <2>2. /\ \A i \in JobId : Forward(i)
        /\ \A g \in fetching' : jobs'[g.job] = jobs[g.job]
    BY <1>0, <2>1, SaveForward
  <2>. QED
    BY <2>1, <2>2 DEF Copied, Forward
<1>6. CASE Finish
  <2>1. PICK j \in applying : jobs' = [jobs EXCEPT ![j].state = "finished"]
    BY <1>6 DEF Finish
  <2>2. j \in JobId /\ jobs[j].state = "fetched" /\ fetching' = fetching
    BY <1>0, <1>6 DEF Finish, InOrder, WorkType
  <2>3. /\ \A i \in JobId \ {j} : jobs'[i] = jobs[i]
        /\ jobs'[j].state = "finished" /\ jobs'[j].attempts = jobs[j].attempts
    BY <1>0, <2>1, <2>2 DEF JobsType, JobRecord
  <2>. QED
    BY <1>0, <2>2, <2>3 DEF Copied, Forward
<1>7. ASSUME NEW s \in Scanner, NEW h \in Hotel, ScanEnqueue(s, h) PROVE Kept
  <2>1. PICK o \in Seen :
           \/ UNCHANGED jobs
           \/ enqueue([run |-> scan[s].run, hotel |-> h, seen |-> o])
    BY <1>7 DEF ScanEnqueue
  <2> DEFINE i == [run |-> scan[s].run, hotel |-> h, seen |-> o]
  <2>2. fetching' = fetching
    BY <1>7 DEF ScanEnqueue, workVars
  <2>3. CASE enqueue(i)
    <3>1. PICK due \in BOOLEAN :
             jobs' = IF jobs[i].state = "none"
                     THEN [jobs EXCEPT ![i] = [NoJob EXCEPT !.state = "pending", !.due = due]]
                     ELSE jobs
      BY <2>3, WebsiteBackfillAssumption DEF enqueue
    <3>2. /\ [NoJob EXCEPT !.state = "pending", !.due = due].attempts = 0
          /\ [NoJob EXCEPT !.state = "pending", !.due = due].state = "pending"
      BY NoJobType
    <3>3. \A j \in JobId :
             jobs'[j] = jobs[j] \/ (/\ jobs[j].state = "none" /\ jobs'[j].state = "pending"
                                   /\ jobs'[j].attempts = 0)
      BY <1>0, <3>1, <3>2 DEF JobsType
    <3>4. \A f \in fetching : jobs'[f.job] = jobs[f.job]
      BY <1>0, <3>3 DEF InOrder
    <3>. QED
      BY <1>0, <2>2, <3>3, <3>4 DEF Copied, Forward
  <2>. QED
    BY <1>2, <2>1, <2>2, <2>3
<1>8. ~\E f \in late : LateSave(f)
  BY DEF InOrder
<1>9. CASE CrashWorker \/ StopWorker \/ \E f \in fetching : CollectorFails(f)
  BY <1>2, <1>9 DEF CrashWorker, StopWorker, CollectorFails, runVars
<1>10. ASSUME StartBackfill \/ PauseBackfill \/ ScanBegin PROVE Kept
  BY <1>2, <1>10 DEF StartBackfill, PauseBackfill, ScanBegin, workVars, runVars
<1>11. ASSUME NEW s \in Scanner, ScanStart(s) \/ ScanRead(s) \/ ScanCheckpoint(s) \/ ScanFails(s)
       PROVE  Kept
  BY <1>2, <1>11 DEF ScanStart, ScanRead, ScanCheckpoint, ScanFails, workVars, runVars
<1>12. ASSUME StartWorker \/ NewHotel \/ \E h \in Hotel : FilledElsewhere(h) \/ Observe(h) PROVE Kept
  BY <1>2, <1>12 DEF StartWorker, FilledElsewhere, Observe, NewHotel, workVars, runVars
<1>13. ASSUME (\E j \in JobId : Apply(j)) \/ UNCHANGED backfillVars PROVE Kept
  BY <1>2, <1>13 DEF Apply, backfillVars, runVars, workVars
<1> HIDE DEF Kept
<1>14. CASE Fault
  BY <1>9, <1>11, <1>14 DEF Fault, Kept
<1>15. ASSUME NEW s \in Scanner, ScanWorks(s) PROVE Kept
  BY <1>7, <1>11, <1>15 DEF ScanWorks
<1>16. Kept
  BY <1>3, <1>4, <1>5, <1>6, <1>8, <1>9, <1>10, <1>12, <1>13, <1>14, <1>15 DEF BackfillNext, Kept
<1>. QED
  BY <1>16 DEF Kept

\* JobsAdvance: until a stop leaves a thread at work, no website is fetched again
\* once finished, no evidence is fetched over and no attempt is forgotten.
THEOREM JobsOnlyAdvance == BackfillSpec => JobsAdvance
<1> DEFINE CopyInv == ~abandoned => Copied
<1>1. BackfillInit => CopyInv
  BY DEF BackfillInit, Copied, NoJob
<1>2. BackfillInv /\ CapInv /\ CopyInv /\ [BackfillNext]_backfillVars => CopyInv'
  BY JobsForward, AbandonedStays DEF CapInv
<1>3. BackfillInv /\ CapInv /\ CopyInv /\ [BackfillNext]_backfillVars
        => [ ~abandoned => \A j \in JobId :
               /\ jobs[j].state = "finished" => jobs'[j] = jobs[j]
               /\ jobs[j].state = "fetched" => jobs'[j].state \in {"fetched", "finished"}
               /\ jobs[j].attempts <= jobs'[j].attempts ]_backfillVars
  BY JobsForward DEF CapInv, Forward
<1> HIDE DEF CopyInv
<1>. QED
  BY <1>1, <1>2, <1>3, BackfillInvariant, OrderKept, PTL DEF BackfillSpec, JobsAdvance
=============================================================================
