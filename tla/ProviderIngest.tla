--------------------------- MODULE ProviderIngest ---------------------------
(***************************************************************************)
(* The healthcare directory's copy of the NPPES registry: the 24/7 worker  *)
(* (worker.mjs) whose refresh cycles (pipeline.mjs) look for the newest    *)
(* monthly and weekly file and upsert each one's rows in batches, with     *)
(* ingest_runs (db.mjs) as the record of the files that are in.            *)
(*                                                                         *)
(* A registry row is the week it last changed in; a monthly file holds     *)
(* every row, a weekly one the rows that changed in its week.  What the    *)
(* registry publishes and when is the environment's.  The worker was set   *)
(* up without a --csv file and without a row limit.                        *)
(***************************************************************************)
EXTENDS Integers, Sequences, FiniteSets, FiniteSetsExt

CONSTANTS
    Npi,           \* providers of the registry
    RowBatch,      \* nppes.batchSize
    MaxWeek,       \* bound on the weeks the registry publishes
    FailureBound   \* bound on crashes, failed downloads and failed database calls

ASSUME IngestAssumption ==
    /\ IsFiniteSet(Npi) /\ RowBatch \in Nat \ {0} /\ MaxWeek \in Nat /\ FailureBound \in Nat

VARIABLES
    week,       \* the registry's last closed week
    changed,    \* per closed week: the rows that changed in it
    monthly,    \* the week of the newest monthly file on the index
    providers,  \* per NPI: the version of its row, -1 when there is none
    ingested,   \* files with an ingest_runs row that is ok
    applied,    \* history: per file, the rows of it that were ever upserted
    targets,    \* the files this cycle has yet to look at, in order
    loading,    \* the file being ingested with the rows still to come, or Nothing
    failures    \* failures so far

ingestVars == <<week, changed, monthly, providers, ingested, applied, targets,
                loading, failures>>

Week    == 0..MaxWeek
File    == [kind : {"bulk", "weekly"}, week : Week]
Nothing == [file |-> "none"]

IngestTypeOK ==
    /\ week \in Week /\ changed \in [Week -> SUBSET Npi] /\ monthly \in 0..week
    /\ providers \in [Npi -> -1..week]
    /\ ingested \subseteq File /\ applied \in [File -> SUBSET Npi]
    /\ targets \in {<<>>} \cup {<<f>> : f \in File} \cup {<<f, g>> : f, g \in File}
    /\ loading \in {Nothing} \cup [file : File, rows : SUBSET Npi]
    /\ failures \in 0..FailureBound

IngestInit ==
    /\ week = 0 /\ monthly = 0
    /\ changed = [w \in Week |-> IF w = 0 THEN Npi ELSE {}]
    /\ providers = [n \in Npi |-> -1]
    /\ ingested = {} /\ applied = [f \in File |-> {}]
    /\ targets = <<>> /\ loading = Nothing
    /\ failures = 0

-----------------------------------------------------------------------------
(* The registry                                                            *)

Rows(f) == IF f.kind = "bulk" THEN Npi ELSE changed[f.week]

\* The version of row n in a file of week w: its last change up to then.
Version(n, w) == Max({v \in 0..w : n \in changed[v]})

\* Mutant of Newest: the weekly file before the monthly one.
WeeklyFirst == <<[kind |-> "weekly", week |-> week], [kind |-> "bulk", week |-> monthly]>>

\* The index: the newest file of each kind.
Newest == <<[kind |-> "bulk", week |-> monthly], [kind |-> "weekly", week |-> week]>>

\* A week closes: its weekly file appears, and perhaps a new monthly one.
Publish(rows, full) ==
    /\ week < MaxWeek
    /\ week' = week + 1
    /\ changed' = [changed EXCEPT ![week + 1] = rows]
    /\ monthly' = IF full THEN week + 1 ELSE monthly
    /\ UNCHANGED <<providers, ingested, applied, targets, loading, failures>>

-----------------------------------------------------------------------------
(* The worker                                                              *)

\* runRefreshCycle: discoverLatest, then the monthly file and the weekly one.
Discover ==
    /\ targets = <<>> /\ loading = Nothing
    /\ targets' = Newest
    /\ UNCHANGED <<week, changed, monthly, providers, ingested, applied, loading, failures>>

\* Mutant of NextFile: a file that is in ends the cycle.
NextFileOrStop ==
    /\ targets # <<>> /\ loading = Nothing
    /\ LET f == Head(targets) IN
       /\ loading' = IF f \in ingested THEN Nothing ELSE [file |-> f, rows |-> Rows(f)]
       /\ targets' = IF f \in ingested THEN <<>> ELSE Tail(targets)
    /\ UNCHANGED <<week, changed, monthly, providers, ingested, applied, failures>>

\* ingestFile: skip what isFileIngested, else startIngestRun and download.
NextFile ==
    /\ targets # <<>> /\ loading = Nothing
    /\ LET f == Head(targets) IN
       loading' = IF f \in ingested THEN Nothing ELSE [file |-> f, rows |-> Rows(f)]
    /\ targets' = Tail(targets)
    /\ UNCHANGED <<week, changed, monthly, providers, ingested, applied, failures>>

\* upsertProvidersBatch: one batch, over whatever the rows hold.
UpsertBatch(batch) ==
    /\ loading # Nothing /\ batch # {} /\ batch \subseteq loading.rows
    /\ Cardinality(batch) <= RowBatch
    /\ batch = loading.rows \/ Cardinality(batch) = RowBatch
    /\ providers' = [n \in Npi |-> IF n \in batch THEN Version(n, loading.file.week)
                                                  ELSE providers[n]]
    /\ applied' = [applied EXCEPT ![loading.file] = @ \cup batch]
    /\ loading' = [loading EXCEPT !.rows = @ \ batch]
    /\ UNCHANGED <<week, changed, monthly, ingested, targets, failures>>

\* Mutant of FinishFile: the last, partial batch is not flushed.
FinishUnflushed ==
    /\ loading # Nothing /\ Cardinality(loading.rows) <= RowBatch
    /\ ingested' = ingested \cup {loading.file}
    /\ loading' = Nothing
    /\ UNCHANGED <<week, changed, monthly, providers, applied, targets, failures>>

\* finishIngestRun, ok.
FinishFile ==
    /\ loading # Nothing /\ loading.rows = {}
    /\ ingested' = ingested \cup {loading.file}
    /\ loading' = Nothing
    /\ UNCHANGED <<week, changed, monthly, providers, applied, targets, failures>>

\* Download, upsert or finishIngestRun throws: the run stays not ok and the
\* whole cycle ends.  Or the process is killed, and starts over.
CycleFails ==
    /\ loading # Nothing \/ targets # <<>>
    /\ failures < FailureBound /\ failures' = failures + 1
    /\ targets' = <<>> /\ loading' = Nothing
    /\ UNCHANGED <<week, changed, monthly, providers, ingested, applied>>

IngestStep == Discover \/ NextFile \/ (\E batch \in SUBSET Npi : UpsertBatch(batch)) \/ FinishFile

IngestNext ==
    \/ IngestStep \/ CycleFails
    \/ \E rows \in SUBSET Npi, full \in BOOLEAN : Publish(rows, full)

IngestSpec == IngestInit /\ [][IngestNext]_ingestVars

\* The worker cycles on, under systemd.
FairIngestSpec == IngestSpec /\ WF_ingestVars(IngestStep)

-----------------------------------------------------------------------------
(* Properties                                                              *)

\* A file that will be skipped as ingested has had every row of it upserted,
\* whatever was killed or failed on the way (worker.mjs: kill/restart resumes
\* with no lost work).
IngestedIsApplied == \A f \in ingested : applied[f] = Rows(f)

\* No provider ever goes back to an older version, though every upsert
\* overwrites: a cycle takes the monthly file before the weekly one, and gives
\* up the second when the first fails (runRefreshCycle, ingestFile).
NeverOlder == [][\A n \in Npi : providers'[n] >= providers[n]]_ingestVars

\* Once the registry is quiet the worker's copy catches up with the newest
\* monthly file and with the newest weekly one.
CatchesUp ==
    <>[](\A i \in DOMAIN Newest : \A n \in Rows(Newest[i]) :
            providers[n] >= Version(n, Newest[i].week))
=============================================================================
