------------------------------ MODULE BurstJob ------------------------------
(***************************************************************************)
(* One Xtreme Compute Burst: its row (burst-store.ts), the POST that       *)
(* provisions an instance and streams until the workload ends              *)
(* (burst/route.ts), the recovery GETs of a client whose stream dropped    *)
(* (burst/[id]/route.ts) and the reports of a Mac that runs the job itself *)
(* (burst/[id]/puppy-result/route.ts).                                     *)
(*                                                                         *)
(* An action is one await of a handler with the code up to the next one.   *)
(***************************************************************************)
EXTENDS Naturals

CONSTANTS
    Get,         \* recovery requests in flight at once
    Report,      \* result reports of the Mac in flight at once
    Server,      \* server instances, each with a finalizingNow of its own
    MishapBound   \* bound on the failed database calls and killed streams

ASSUME BurstAssumption == MishapBound \in Nat /\ Server # {}

VARIABLES
    job,            \* the row
    instance,       \* the cloud instance; "left": up, a teardown having failed
    workload,       \* how far the workload on it is
    post,           \* where the POST handler is
    closed,         \* its client has disconnected
    get,            \* per recovery request: where it is, its server, its poll
    finalizingNow,  \* servers on which a recovery finalizes the job
    report,         \* per report: "idle", or the outcome it is about to write
    stale,          \* STALE_MS have passed since createdAt
    mishaps         \* mishaps so far

postVars   == <<post, closed>>
getVars    == <<get, finalizingNow>>
burstVars  == <<job, instance, workload, postVars, getVars, report, stale, mishaps>>

Terminal == {"completed", "failed"}
Over     == {"gone", "refused"}  \* the POST: its stream has ended, or never opened
Poll     == {"provisioning", "running", "throws"} \cup Terminal
GetState == {"polling", "recheck", "teardown", "write", "abandon"}
IdleGet  == [pc |-> "idle"]

BurstTypeOK ==
    /\ job \in [status : {"none", "provisioning", "running"} \cup Terminal,
                placement : {"gcp", "puppy"}, kind : {"gpu", "tpu"},
                byoc : BOOLEAN, handle : BOOLEAN, result : BOOLEAN]
    /\ instance \in {"none", "up", "left", "deleted"}
    /\ workload \in {"running"} \cup Terminal
    /\ post \in {"new", "provision", "mark", "fail row", "loop", "polling",
                 "done", "complete", "failure", "fail", "gone", "refused"}
    /\ get \in [Get -> {IdleGet} \cup [pc : GetState, server : Server, poll : Poll]]
    /\ finalizingNow \subseteq Server
    /\ report \in [Report -> {"idle"} \cup Terminal]
    /\ closed \in BOOLEAN /\ stale \in BOOLEAN
    /\ mishaps \in 0..MishapBound

BurstInit ==
    /\ job \in [status : {"none"}, placement : {"gcp", "puppy"}, kind : {"gpu", "tpu"},
                byoc : BOOLEAN, handle : {FALSE}, result : {FALSE}]
    /\ instance = "none" /\ workload = "running"
    /\ post = "new" /\ closed = FALSE
    /\ get = [g \in Get |-> IdleGet] /\ finalizingNow = {}
    /\ report = [r \in Report |-> "idle"]
    /\ stale = FALSE /\ mishaps = 0

Mishap == mishaps < MishapBound /\ mishaps' = mishaps + 1

-----------------------------------------------------------------------------
(* The row and the provider                                                *)

\* Mutant of failBurstJob: a status that is not a BurstJobStatus.
failBurstJobError == job' = [job EXCEPT !.status = "error"]

\* completeBurstJob and failBurstJob look at no status: the last write wins.
\* An update that throws may have been committed, its reply lost.
completeBurstJob == job' = [job EXCEPT !.status = "completed", !.result = TRUE]
failBurstJob     == job' = [job EXCEPT !.status = "failed"]

\* failBurstJob(...).catch(() => undefined).
TryFailBurstJob == \/ failBurstJob /\ UNCHANGED mishaps
                   \/ Mishap /\ UNCHANGED job

\* teardownBurst never throws; what it could not delete stays up.
teardownBurst == instance' \in {"deleted", IF instance = "deleted" THEN "deleted" ELSE "left"}

\* What pollBurst may answer.  A deleted instance is still seen for a while;
\* then a GPU instance's missing attributes read as "provisioning", and a TPU
\* node as failed, or the request throws.
PollResults ==
    {workload, "throws"}
      \cup (IF workload = "running" THEN {"provisioning"} ELSE {})
      \cup (IF instance # "deleted" THEN {}
            ELSE IF job.kind = "gpu" THEN {"provisioning"} ELSE {"failed"})

\* The startup script publishes how the workload ended; a node may be preempted.
WorkloadEnds ==
    /\ instance \in {"up", "left"} /\ workload = "running"
    /\ workload' \in Terminal
    /\ UNCHANGED <<job, instance, postVars, getVars, report, stale, mishaps>>

-----------------------------------------------------------------------------
(* POST /api/one/burst                                                     *)

\* createBurstJob: the Mac is to run it, or an instance is to be provisioned.
PostCreate ==
    /\ post = "new"
    /\ IF job.placement = "puppy"
       THEN job' = [job EXCEPT !.status = "running"] /\ post' = "gone"
       ELSE job' = [job EXCEPT !.status = "provisioning"] /\ post' = "provision"
    /\ UNCHANGED <<instance, workload, closed, getVars, report, stale, mishaps>>

\* startBurst answers; or throws, whether or not the cloud made the instance.
PostProvision ==
    /\ post = "provision"
    /\ \/ instance' = "up" /\ post' = "mark"
       \/ instance' \in {"none", "up"} /\ post' = "fail row"
    /\ UNCHANGED <<job, workload, closed, getVars, report, stale, mishaps>>

markBurstProvisioned == job' = [job EXCEPT !.status = "running", !.handle = TRUE]

\* The stream opens after it; it throws, the row written or not.
PostMark ==
    /\ post = "mark"
    /\ \/ markBurstProvisioned /\ post' = "loop" /\ UNCHANGED mishaps
       \/ (markBurstProvisioned \/ UNCHANGED job) /\ Mishap /\ post' = "fail row"
    /\ UNCHANGED <<instance, workload, closed, getVars, report, stale>>

\* The catch around the first phase: the row fails and the client is told, and
\* an instance that was made is left to itself.
PostFailed ==
    /\ post = "fail row"
    /\ TryFailBurstJob
    /\ post' = "refused"
    /\ UNCHANGED <<instance, workload, closed, getVars, report, stale>>

\* The top of the stream's loop: gone with its client, or another poll.
StreamLoop ==
    /\ post = "loop"
    /\ post' = IF closed THEN "gone" ELSE "polling"
    /\ UNCHANGED <<job, instance, workload, closed, getVars, report, stale, mishaps>>

\* Mutant of StreamDeadline: the row is failed without a teardown.
StreamDeadlineBare ==
    /\ post = "loop" /\ ~closed
    /\ post' = "fail"
    /\ UNCHANGED <<job, instance, workload, closed, getVars, report, stale, mishaps>>

\* Past deadlineMs: the instance is torn down and the row failed.
StreamDeadline ==
    /\ post = "loop" /\ ~closed
    /\ post' = "failure"
    /\ UNCHANGED <<job, instance, workload, closed, getVars, report, stale, mishaps>>

StreamPolled(result) ==
    /\ post = "polling" /\ result \in PollResults
    /\ post' = CASE result = "completed" -> "done"
                 [] result \in {"failed", "throws"} -> "failure"
                 [] OTHER -> "loop"
    /\ UNCHANGED <<job, instance, workload, closed, getVars, report, stale, mishaps>>

\* Teardown comes before the row, on completion, failure and deadline.
StreamTeardown ==
    /\ post \in {"done", "failure"}
    /\ teardownBurst
    /\ post' = IF post = "done" THEN "complete" ELSE "fail"
    /\ UNCHANGED <<job, workload, closed, getVars, report, stale, mishaps>>

\* completeBurstJob and "done"; if it throws, the catch fails the job, even one
\* that now says completed.
StreamComplete ==
    /\ post = "complete"
    /\ \/ completeBurstJob /\ post' = "gone" /\ UNCHANGED mishaps
       \/ (completeBurstJob \/ UNCHANGED job) /\ Mishap /\ post' = "failure"
    /\ UNCHANGED <<instance, workload, closed, getVars, report, stale>>

StreamFail ==
    /\ post = "fail"
    /\ TryFailBurstJob
    /\ post' = "gone"
    /\ UNCHANGED <<instance, workload, closed, getVars, report, stale>>

\* The browser goes away: cancel().
Disconnect ==
    /\ post \notin {"new", "provision", "mark", "fail row"} \cup Over /\ ~closed
    /\ closed' = TRUE
    /\ UNCHANGED <<job, instance, workload, post, getVars, report, stale, mishaps>>

\* The POST's server is killed.
PostKilled ==
    /\ post \notin {"new"} \cup Over /\ Mishap
    /\ post' = "gone"
    /\ UNCHANGED <<job, instance, workload, closed, getVars, report, stale>>

-----------------------------------------------------------------------------
(* GET /api/one/burst/[id]                                                 *)

GoOn(g, state) == get' = [get EXCEPT ![g] = state]

\* The row is final: the saved outcome is the answer.
GetSettled(g) ==
    /\ get[g] = IdleGet /\ job.status \in Terminal
    /\ UNCHANGED <<job, instance, workload, postVars, getVars, report, stale, mishaps>>

\* Mutant of GetUnsettled: a job that cannot be polled is left as it is.
GetUnsettledPolled(g, s) ==
    /\ get[g] = IdleGet /\ job.status \in {"provisioning", "running"}
    /\ job.placement = "gcp" /\ job.handle /\ ~job.byoc
    /\ GoOn(g, [pc |-> IF stale THEN "abandon" ELSE "polling", server |-> s, poll |-> "running"])
    /\ UNCHANGED <<job, instance, workload, postVars, finalizingNow, report, stale, mishaps>>

\* A cloud job that is not.  Too old, it will be failed; without a handle, or
\* with credentials of its own, there is nothing to poll; else it is polled.
GetUnsettled(g, s) ==
    /\ get[g] = IdleGet /\ job.status \in {"provisioning", "running"}
    /\ job.placement = "gcp"
    /\ stale \/ (job.handle /\ ~job.byoc)
    /\ GoOn(g, [pc |-> IF stale THEN "abandon" ELSE "polling", server |-> s, poll |-> "running"])
    /\ UNCHANGED <<job, instance, workload, postVars, finalizingNow, report, stale, mishaps>>

\* failBurstJob(id, STALE_MESSAGE).
GetAbandon(g) ==
    /\ get[g].pc = "abandon"
    /\ TryFailBurstJob
    /\ GoOn(g, IdleGet)
    /\ UNCHANGED <<instance, workload, postVars, finalizingNow, report, stale>>

\* The poll answers.  One recovery per server may finalize.
GetPolled(g, result) ==
    /\ get[g].pc = "polling" /\ result \in PollResults
    /\ IF result \in Terminal /\ get[g].server \notin finalizingNow
       THEN /\ GoOn(g, [get[g] EXCEPT !.pc = "recheck", !.poll = result])
            /\ finalizingNow' = finalizingNow \cup {get[g].server}
       ELSE GoOn(g, IdleGet) /\ UNCHANGED finalizingNow
    /\ UNCHANGED <<job, instance, workload, postVars, report, stale, mishaps>>

\* finally: finalizingNow.delete(id), and the answer.
Release(g) ==
    /\ GoOn(g, IdleGet)
    /\ finalizingNow' = finalizingNow \ {get[g].server}

\* Already final: another finalized it.
GetRecheckFinal(g) ==
    /\ get[g].pc = "recheck" /\ job.status \in Terminal
    /\ Release(g)
    /\ UNCHANGED <<job, instance, workload, postVars, report, stale, mishaps>>

\* Mutant of GetRecheckOpen: the outcome is saved before the teardown.
GetRecheckSaves(g) ==
    /\ get[g].pc = "recheck"
    /\ \/ job.status \notin Terminal /\ UNCHANGED mishaps
       \/ job.status \in Terminal /\ Mishap
    /\ GoOn(g, [get[g] EXCEPT !.pc = "write"])
    /\ UNCHANGED <<job, instance, workload, postVars, finalizingNow, report, stale>>

\* Mutant of GetRecheckOpen: no second look at the row.
GetRecheckNothing(g) ==
    /\ get[g].pc = "recheck"
    /\ GoOn(g, [get[g] EXCEPT !.pc = "teardown"])
    /\ UNCHANGED <<job, instance, workload, postVars, finalizingNow, report, stale, mishaps>>

\* Not final; or the row cannot be read, which getOwnedBurstJob answers with null.
GetRecheckOpen(g) ==
    /\ get[g].pc = "recheck"
    /\ \/ job.status \notin Terminal /\ UNCHANGED mishaps
       \/ job.status \in Terminal /\ Mishap
    /\ GoOn(g, [get[g] EXCEPT !.pc = "teardown"])
    /\ UNCHANGED <<job, instance, workload, postVars, finalizingNow, report, stale>>

GetTeardown(g) ==
    /\ get[g].pc = "teardown"
    /\ teardownBurst
    /\ GoOn(g, [get[g] EXCEPT !.pc = "write"])
    /\ UNCHANGED <<job, workload, postVars, finalizingNow, report, stale, mishaps>>

\* The outcome is saved and told.
GetWrite(g) ==
    /\ get[g].pc = "write"
    /\ IF get[g].poll = "completed" THEN completeBurstJob /\ UNCHANGED mishaps
                                    ELSE TryFailBurstJob
    /\ Release(g)
    /\ UNCHANGED <<instance, workload, postVars, report, stale>>

\* completeBurstJob throws, the row written or not: an error answer.
GetWriteFails(g) ==
    /\ get[g].pc = "write" /\ get[g].poll = "completed" /\ Mishap
    /\ completeBurstJob \/ UNCHANGED job
    /\ Release(g)
    /\ UNCHANGED <<instance, workload, postVars, report, stale>>

\* Mutant of GrowStale: STALE_MS shorter than a POST may take.
GrowStaleEarly ==
    /\ job.status # "none" /\ ~stale
    /\ stale' = TRUE
    /\ UNCHANGED <<job, instance, workload, postVars, getVars, report, mishaps>>

\* Two hours have gone by, and with them any POST: maxDuration is half an hour.
GrowStale ==
    /\ job.status # "none" /\ post \in Over /\ ~stale
    /\ stale' = TRUE
    /\ UNCHANGED <<job, instance, workload, postVars, getVars, report, mishaps>>

-----------------------------------------------------------------------------
(* POST /api/one/burst/[id]/puppy-result                                   *)

\* The job is the Mac's and not final: the report will be written.
ReportAccepted(r, outcome) ==
    /\ report[r] = "idle"
    /\ job.placement = "puppy" /\ job.status \in {"provisioning", "running"}
    /\ report' = [report EXCEPT ![r] = outcome]
    /\ UNCHANGED <<job, instance, workload, postVars, getVars, stale, mishaps>>

SaveReport(r) == IF report[r] = "completed" THEN completeBurstJob ELSE failBurstJob

ReportWritten(r) ==
    /\ report[r] \in Terminal
    /\ SaveReport(r)
    /\ report' = [report EXCEPT ![r] = "idle"]
    /\ UNCHANGED <<instance, workload, postVars, getVars, stale, mishaps>>

\* The write throws or the answer is lost, the row written or not: the Mac will
\* report again, and a Mac that had reported completed now reports failed.
ReportLost(r) ==
    /\ report[r] \in Terminal /\ Mishap
    /\ SaveReport(r) \/ UNCHANGED job
    /\ report' = [report EXCEPT ![r] = "idle"]
    /\ UNCHANGED <<instance, workload, postVars, getVars, stale>>

-----------------------------------------------------------------------------
PostStep ==
    \/ PostCreate \/ PostProvision \/ PostMark \/ PostFailed
    \/ StreamLoop \/ StreamDeadline \/ (\E result \in Poll : StreamPolled(result))
    \/ StreamTeardown \/ StreamComplete \/ StreamFail

GetStep(g) ==
    \/ GetSettled(g) \/ (\E s \in Server : GetUnsettled(g, s))
    \/ GetAbandon(g) \/ (\E result \in Poll : GetPolled(g, result))
    \/ GetRecheckFinal(g) \/ GetRecheckOpen(g)
    \/ GetTeardown(g) \/ GetWrite(g) \/ GetWriteFails(g)

ReportStep(r) ==
    \/ \E outcome \in Terminal : ReportAccepted(r, outcome)
    \/ ReportWritten(r) \/ ReportLost(r)

BurstNext ==
    \/ PostStep \/ Disconnect \/ PostKilled \/ WorkloadEnds \/ GrowStale
    \/ \E g \in Get : GetStep(g)
    \/ \E r \in Report : ReportStep(r)

BurstSpec == BurstInit /\ [][BurstNext]_burstVars

\* Handlers run on, the client keeps asking, the Mac keeps reporting, time
\* passes and with it a stream's deadline.  Nothing is asked of the workload.
FairBurstSpec ==
    /\ BurstSpec
    /\ WF_burstVars(PostStep) /\ SF_burstVars(StreamDeadline) /\ WF_burstVars(GrowStale)
    /\ \A g \in Get : WF_burstVars(GetStep(g))
    /\ \A r \in Report : WF_burstVars(ReportStep(r))

-----------------------------------------------------------------------------
(* Properties                                                              *)

\* Whoever finalizes a cloud job, and whatever happens to the others: once it
\* says completed its workload has completed, and no instance is up that a
\* teardown has not been tried on (route.ts POST, [id]/route.ts GET).
CompletedTornDown ==
    (job.placement = "gcp" /\ job.status = "completed")
        => workload = "completed" /\ instance \in {"deleted", "left"}

\* What a client that asks again is answered ([id]/route.ts).
Answers(outcome) == job.status = outcome /\ (outcome = "completed" => job.result)

\* The job has an outcome, and whoever might still write another is done.
Settled(outcome) ==
    /\ job.status = outcome /\ post \in Over
    /\ \A g \in Get : get[g].pc \notin {"teardown", "write", "abandon"}
    /\ \A r \in Report : report[r] = "idle"

\* From then on every client is answered that outcome, a completed one with its
\* result, as long as no call fails: recoveries that have polled an outcome of
\* their own look again before they save it ([id]/route.ts re-check), and late
\* reports are not taken (puppy-result/route.ts).  Before that, and after a
\* re-check that could not read the row, an outcome may be overturned: two reports
\* that were both accepted do so, which puppy-result/route.ts:6-7 denies.
OutcomeLasts ==
    \A outcome \in Terminal, n \in 0..MishapBound :
        [](Settled(outcome) /\ mishaps = n => [](mishaps = n => Answers(outcome)))

\* One recovery at a time finalizes on a server, and no way out of it leaves
\* the job marked as being finalized, which would keep it from ever being.
FinalizerGuard ==
    \A s \in Server :
        LET finalizing == {g \in Get : /\ get[g].pc \in {"recheck", "teardown", "write"}
                                       /\ get[g].server = s}
        IN  /\ s \in finalizingNow <=> finalizing # {}
            /\ \A g, h \in finalizing : g = h

\* A job that has an outcome is never running again: no late provisioning
\* reopens one that a recovery has given up (markBurstProvisioned).
NeverReopened == [][job.status \in Terminal => job'.status \in Terminal]_burstVars

\* Every job comes to an outcome, whatever stream, database call or poll fails.
JobSettles == job.status \in {"provisioning", "running"} ~> job.status \in Terminal

\* Where NoOrphan does hold: an instance outlives its job, without so much as a
\* teardown tried on it, only if its POST failed before it could open a stream
\* (route.ts, the catch of phase 1) or if the job was given up as stale
\* ([id]/route.ts, STALE_MS).  Whether its handle was recorded does not matter.
OrphanExplained ==
    job.status \in Terminal /\ instance = "up" => post = "refused" \/ stale

\* docs/specs/slo-observability.md:44 and route.ts: recovery self-heals to
\* failed and teardown, so that no instance outlives its job.
NoOrphan == job.status \in Terminal => instance # "up"
=============================================================================
