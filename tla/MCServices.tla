----------------------------- MODULE MCServices -----------------------------
(***************************************************************************)
(* Five parts for TLC: the run loop of one browser worker (BrowserWorker,  *)
(* with constants of its own), the recovery of the shared ZIP queue with   *)
(* machines that die, the burst jobs, the ingest of the healthcare         *)
(* directory and the sweep of the insurance directory.  A behaviour is     *)
(* about one of them, `service`, and the others stand still; the run loop  *)
(* and the queue share the queue's variables.                              *)
(***************************************************************************)
EXTENDS ZipQueue, BurstJob, ProviderIngest, StateSweep

CONSTANTS LoopBrowser, LoopToken, LoopResults, LoopInterrupts

VARIABLES service, worker, lock, loss, recorded

workerVars == <<worker, lock, loss, recorded>>
loopVars   == <<vars, workerVars>>
allVars    == <<loopVars, burstVars, ingestVars, sweepVars, service>>

RunLoop == INSTANCE BrowserWorker WITH
    Vm <- {}, Browser <- LoopBrowser, Token <- LoopToken, Replies <- {TRUE},
    StaleAfter <- 1, OutboxBound <- 1,
    Results <- LoopResults, Interrupts <- LoopInterrupts, LossAllowed <- FALSE

\* RunLoop!BWInit, with the queue's other machines, which stand still in it.
\* What the parts that stand still differ in does not matter.
ServicesInit ==
    /\ service \in {"loop", "zips", "burst", "ingest", "sweep"}
    /\ Init
    /\ worker = [b \in LoopBrowser |-> RunLoop!NewProcess]
    /\ lock = Null /\ loss = FALSE /\ recorded = [b \in LoopBrowser |-> {}]
    /\ BurstInit /\ IngestInit /\ SweepInit
    /\ service # "burst" => job.placement = "gcp" /\ job.kind = "gpu" /\ ~job.byoc
    /\ service # "sweep" => queue = CHOOSE q \in Orders : TRUE

ServicesNext ==
    /\ \/ /\ service = "loop" /\ RunLoop!BWNext
          /\ UNCHANGED <<burstVars, ingestVars, sweepVars>>
       \/ /\ service = "zips" /\ Next
          /\ UNCHANGED <<workerVars, burstVars, ingestVars, sweepVars>>
       \/ /\ service = "burst" /\ BurstNext
          /\ UNCHANGED <<loopVars, ingestVars, sweepVars>>
       \/ /\ service = "ingest" /\ IngestNext
          /\ UNCHANGED <<loopVars, burstVars, sweepVars>>
       \/ /\ service = "sweep" /\ SweepNext
          /\ UNCHANGED <<loopVars, burstVars, ingestVars>>
    /\ UNCHANGED service

ServicesSpec == ServicesInit /\ [][ServicesNext]_allVars

\* The fairness of each part, while it is the one that runs.
FairServicesSpec ==
    /\ ServicesSpec
    /\ WF_loopVars(service = "loop" /\ RunLoop!TimePasses)
    /\ \A b \in LoopBrowser :
          /\ WF_loopVars(service = "loop" /\ RunLoop!Loop(b))
          /\ WF_loopVars(service = "loop" /\ RunLoop!Heartbeat(b))
          /\ WF_loopVars(service = "loop" /\ RunLoop!Exit(b))
          /\ WF_loopVars(service = "loop" /\ RunLoop!Start(b))
          /\ WF_loopVars(service = "loop" /\ RunLoop!Resume(b))
          /\ WF_loopVars(service = "loop" /\ RunLoop!DropOrphan(b))
    /\ WF_vars(service = "zips" /\ Tick)
    /\ \A v \in Vm :
          /\ WF_vars(service = "zips" /\ VmStart(v))
          /\ WF_vars(service = "zips" /\ \E z \in Zip : VmClaim(v, z, TRUE))
          /\ WF_vars(service = "zips" /\ (VmMarkDone(v, TRUE) \/ VmMarkError(v)))
    /\ \A b \in Browser :
          WF_vars(service = "zips" /\ \E z \in Zip, t \in Token : ClaimNextZip(b, z, t, TRUE))
    /\ WF_burstVars(service = "burst" /\ PostStep)
    /\ SF_burstVars(service = "burst" /\ StreamDeadline)
    /\ WF_burstVars(service = "burst" /\ GrowStale)
    /\ \A g \in Get : WF_burstVars(service = "burst" /\ GetStep(g))
    /\ \A r \in Report : WF_burstVars(service = "burst" /\ ReportStep(r))
    /\ WF_ingestVars(service = "ingest" /\ IngestStep)
    /\ WF_sweepVars(service = "sweep" /\ WorkerRound)

-----------------------------------------------------------------------------
\* The types of the burst job, the ingest and the sweep, whose statuses only
\* the code keeps apart (burst-store.ts, nppes.mjs, db.mjs).
ServicesTypeOK == BurstTypeOK /\ IngestTypeOK /\ SweepTypeOK

\* DurableBatchSettled of the run loop, in the behaviours in which it runs.
DurableBatchSettled == service = "loop" => RunLoop!DurableBatchSettled

\* AbandonedMarkerRecovered of the queue, in the behaviours in which it runs.
QueueMarkersRecovered == service = "zips" => AbandonedMarkerRecovered

\* CatchesUp of the ingest, in the behaviours in which it runs.
IngestCatchesUp == service = "ingest" => CatchesUp

\* EveryStateHasItsTurn of the sweep, in the behaviours in which it runs.
SweepTakesTurns == service = "sweep" => EveryStateHasItsTurn
=============================================================================
