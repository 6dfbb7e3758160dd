------------------------------ MODULE ZipQueue ------------------------------
(***************************************************************************)
(* The lease protocol on the shared `zips` queue.  VM crawlers claim a row *)
(* without a name and mark it done or failed by ZIP alone; browser workers *)
(* name their claim with a unique marker in last_error, renew it with      *)
(* heartbeats and check it before every write.                             *)
(*                                                                         *)
(* Each action is one database transaction with what the calling process   *)
(* does to its own memory when it returns.  A reply may be lost: the       *)
(* transaction committed and the caller saw an exception.  The browser's   *)
(* operations may come in any order here (its threads outlive the loop     *)
(* that started them); BrowserWorker adds the order of the run loop.       *)
(***************************************************************************)
EXTENDS ZipTable, FiniteSets

CONSTANTS
    Vm,          \* VM crawler processes (worker.mjs)
    Browser,     \* machines that run a browser worker (worker.py)
    Replies,     \* {TRUE}, or BOOLEAN when a reply may be lost
    OutboxBound  \* bound on the batches a machine's outbox holds

ASSUME ZipQueueAssumption ==
    /\ Null \notin Vm \cup Browser
    /\ Vm \cap Browser = {}
    /\ Replies \subseteq BOOLEAN
    /\ OutboxBound \in Nat

VARIABLES
    zips,           \* the table
    vm_up,          \* is the crawler process running?
    vm_zip,         \* the row a crawler is enriching, or Null
    vm_failed,      \* is it in the catch block: markZipDone threw?
    zip_claims,     \* worker.py _zip_claims: marker per ZIP, in memory
    outbox_claims,  \* <<zip, claim_token>> of the pending outbox batches
    holder          \* history: who last put an in_progress row there

vmVars      == <<vm_up, vm_zip, vm_failed>>
browserVars == <<zip_claims, outbox_claims>>
vars        == <<zips, vmVars, browserVars, holder>>

Worker == Vm \cup Browser

TypeOK ==
    /\ zips \in [Zip -> ZipRow]
    /\ vm_up \in [Vm -> BOOLEAN]
    /\ vm_zip \in [Vm -> Zip \cup {Null}]
    /\ vm_failed \in [Vm -> BOOLEAN]
    /\ zip_claims \in [Browser -> [Zip -> Token \cup {Null}]]
    /\ outbox_claims \in [Browser -> SUBSET (Zip \X (Token \cup {Null}))]
    /\ holder \in [Zip -> Worker \cup {Null}]

Init ==
    /\ zips = [z \in Zip |-> LoadedRow]
    /\ vm_up = [v \in Vm |-> FALSE]
    /\ vm_zip = [v \in Vm |-> Null]
    /\ vm_failed = [v \in Vm |-> FALSE]
    /\ zip_claims = [b \in Browser |-> [z \in Zip |-> Null]]
    /\ outbox_claims = [b \in Browser |-> {}]
    /\ holder = [z \in Zip |-> Null]

\* The table becomes t.  A row that is in progress keeps its holder.
Write(t) ==
    /\ zips' = t
    /\ holder' = [z \in Zip |-> IF InProgress(t[z]) THEN holder[z] ELSE Null]

\* Row z of table t becomes `row`, in progress on behalf of worker w.
WriteHeld(t, z, row, w) ==
    /\ zips' = [t EXCEPT ![z] = row]
    /\ holder' = [y \in Zip |-> IF y = z THEN w
                                ELSE IF InProgress(t[y]) THEN holder[y] ELSE Null]

-----------------------------------------------------------------------------
(* VM crawlers                                                             *)

\* main() up to the loop: the only call of requeueStaleInProgress.
VmStart(v) ==
    /\ ~vm_up[v]
    /\ vm_up' = [vm_up EXCEPT ![v] = TRUE]
    /\ Write(requeueStaleInProgress(zips))
    /\ UNCHANGED <<vm_zip, vm_failed, browserVars>>

\* claimNextZip; on a lost reply the loop logs worker.claim_error and retries.
VmClaim(v, z, reply) ==
    /\ vm_up[v] /\ vm_zip[v] = Null
    /\ z \in Claimable(zips)
    /\ WriteHeld(zips, z, VmClaimed(zips[z]), v)
    /\ vm_zip' = IF reply THEN [vm_zip EXCEPT ![v] = z] ELSE vm_zip
    /\ UNCHANGED <<vm_up, vm_failed, browserVars>>

\* processZip returned: markZipDone, WHERE zip = $1.  If its reply is lost the
\* catch block is next, on a row that is already done.
VmMarkDone(v, reply) ==
    /\ vm_zip[v] # Null /\ ~vm_failed[v]
    /\ Write([zips EXCEPT ![vm_zip[v]] = DoneRow(@)])
    /\ vm_zip' = IF reply THEN [vm_zip EXCEPT ![v] = Null] ELSE vm_zip
    /\ vm_failed' = [vm_failed EXCEPT ![v] = ~reply]
    /\ UNCHANGED <<vm_up, browserVars>>

\* The catch block: markZipError, WHERE zip = $1.  Entered when processZip
\* threw, or markZipDone did.
VmMarkError(v) ==
    /\ vm_zip[v] # Null
    /\ Write([zips EXCEPT ![vm_zip[v]] = ParkedRow(@, "error")])
    /\ vm_zip' = [vm_zip EXCEPT ![v] = Null]
    /\ vm_failed' = [vm_failed EXCEPT ![v] = FALSE]
    /\ UNCHANGED <<vm_up, browserVars>>

\* markZipError threw too and its .catch swallowed that.
VmMarkErrorFailed(v) ==
    /\ FALSE \in Replies
    /\ vm_zip[v] # Null
    /\ vm_zip' = [vm_zip EXCEPT ![v] = Null]
    /\ vm_failed' = [vm_failed EXCEPT ![v] = FALSE]
    /\ UNCHANGED <<zips, holder, vm_up, browserVars>>

\* The process ends: SIGTERM between ZIPs, or a kill or a crash at any point.
VmDown(v) ==
    /\ vm_up[v]
    /\ vm_up' = [vm_up EXCEPT ![v] = FALSE]
    /\ vm_zip' = [vm_zip EXCEPT ![v] = Null]
    /\ vm_failed' = [vm_failed EXCEPT ![v] = FALSE]
    /\ UNCHANGED <<zips, holder, browserVars>>

-----------------------------------------------------------------------------
(* Browser workers                                                         *)

\* The markers machine b can present.
Known(b) == ({zip_claims[b][z] : z \in Zip} \cup {e[2] : e \in outbox_claims[b]})
            \ {Null}

\* Mutant of Fresh: markers unique among the rows, as one made of the ZIP and
\* a date would be.
FreshInTable(t) == \A z \in Zip : zips[z].last_error # t

\* uuid4: a marker that nobody holds and no row carries.
Fresh(t) ==
    /\ \A b \in Browser : t \notin Known(b)
    /\ \A z \in Zip : zips[z].last_error # t

\* _claim_next_zip
ClaimNextZip(b, z, t, reply) ==
    LET recovered == RequeueExpiredMarkers(zips) IN
    /\ Fresh(t)
    /\ z \in Claimable(recovered)
    /\ WriteHeld(recovered, z, BrowserClaimed(recovered[z], t), b)
    /\ zip_claims' = IF reply THEN [zip_claims EXCEPT ![b][z] = t] ELSE zip_claims
    /\ UNCHANGED <<vmVars, outbox_claims>>

\* _lock_owned_zip passes
Owned(b, z) == zip_claims[b][z] # Null /\ Leased(zips[z], zip_claims[b][z])

\* _heartbeat_claims
HeartbeatClaims(b) ==
    /\ Write([z \in Zip |-> IF Owned(b, z) THEN [zips[z] EXCEPT !.age = 0]
                            ELSE zips[z]])
    /\ UNCHANGED <<vmVars, browserVars>>

\* _release_zip_claims committed: the loop's last step.
ReleaseZipClaims(b) ==
    /\ Write([z \in Zip |-> IF Owned(b, z) THEN Released(zips[z]) ELSE zips[z]])
    /\ zip_claims' = [zip_claims EXCEPT ![b] = [z \in Zip |-> Null]]
    /\ UNCHANGED <<vmVars, outbox_claims>>

\* _save_results and _set_zip_state: lock, verify, update, forget the claim.
SetZipState(b, z, status, reply) ==
    /\ Owned(b, z)
    /\ Write([zips EXCEPT ![z] = IF status = "done" THEN DoneRow(@)
                                 ELSE ParkedRow(@, status)])
    /\ zip_claims' = IF reply THEN [zip_claims EXCEPT ![b][z] = Null] ELSE zip_claims
    /\ UNCHANGED <<vmVars, outbox_claims>>

\* _enqueue_outbox_batch stores the claim it holds as claim_token; that is
\* None when the claim is gone from memory by then.
EnqueueOutboxBatch(b, z) ==
    /\ Cardinality(outbox_claims[b]) < OutboxBound
    /\ outbox_claims' = [outbox_claims EXCEPT ![b] = @ \cup {<<z, zip_claims[b][z]>>}]
    /\ UNCHANGED <<zips, holder, vmVars, zip_claims>>

\* Mutant of ClaimOutboxZip: it waits for its own claim too.
WaitForAnyClaim(b, e, t, reply) ==
    LET z == e[1] IN
    /\ e \in outbox_claims[b]
    /\ e[2] = t \/ (e[2] = Null /\ Fresh(t))
    /\ ~InProgress(zips[z])
    /\ WriteHeld(zips, z, BrowserClaimed(zips[z], t), b)
    /\ zip_claims' = IF reply THEN [zip_claims EXCEPT ![b][z] = t] ELSE zip_claims
    /\ UNCHANGED <<vmVars, outbox_claims>>

\* _claim_outbox_zip: refused only while another claim is in progress.  A
\* batch without a claim_token is claimed under a new marker each time.
ClaimOutboxZip(b, e, t, reply) ==
    LET z == e[1] IN
    /\ e \in outbox_claims[b]
    /\ e[2] = t \/ (e[2] = Null /\ Fresh(t))
    /\ InProgress(zips[z]) => zips[z].last_error = t
    /\ WriteHeld(zips, z, BrowserClaimed(zips[z], t), b)
    /\ zip_claims' = IF reply THEN [zip_claims EXCEPT ![b][z] = t] ELSE zip_claims
    /\ UNCHANGED <<vmVars, outbox_claims>>

\* mark_delivered or mark_quarantined: the batch is no longer pending.
SettleOutboxBatch(b, e) ==
    /\ e \in outbox_claims[b]
    /\ outbox_claims' = [outbox_claims EXCEPT ![b] = @ \ {e}]
    /\ UNCHANGED <<zips, holder, vmVars, zip_claims>>

\* The browser worker's process dies: its memory goes, its outbox stays.
BrowserDown(b) ==
    /\ zip_claims' = [zip_claims EXCEPT ![b] = [z \in Zip |-> Null]]
    /\ UNCHANGED <<zips, holder, vmVars, outbox_claims>>

-----------------------------------------------------------------------------
(* Operators and time                                                      *)

\* retry_failed_zips
RetryFailedZips ==
    /\ Write([z \in Zip |-> IF zips[z].places_status \in {"error", "quarantined"}
                            THEN Released(zips[z]) ELSE zips[z]])
    /\ UNCHANGED <<vmVars, browserVars>>

\* insertZipsBatch on a loaded ZIP, and markOsmStatus: updated_at = now() whatever
\* the row's state.
TouchZip(z) ==
    /\ Write([zips EXCEPT ![z].age = 0])
    /\ UNCHANGED <<vmVars, browserVars>>

Tick ==
    /\ Write([z \in Zip |-> IF zips[z].age < StaleAfter
                            THEN [zips[z] EXCEPT !.age = @ + 1] ELSE zips[z]])
    /\ UNCHANGED <<vmVars, browserVars>>

\* last_scraped_at passes out of the refresh window.
RefreshDue(z) ==
    /\ zips[z].places_status = "done"
    /\ Write([zips EXCEPT ![z].refreshDue = TRUE])
    /\ UNCHANGED <<vmVars, browserVars>>

-----------------------------------------------------------------------------
VmStep(v) ==
    \/ VmStart(v) \/ VmMarkError(v) \/ VmMarkErrorFailed(v) \/ VmDown(v)
    \/ \E reply \in Replies : VmMarkDone(v, reply)
    \/ \E z \in Zip, reply \in Replies : VmClaim(v, z, reply)

BrowserStep(b) ==
    \/ HeartbeatClaims(b) \/ ReleaseZipClaims(b) \/ BrowserDown(b)
    \/ \E z \in Zip, t \in Token, reply \in Replies : ClaimNextZip(b, z, t, reply)
    \/ \E z \in Zip, status \in {"done", "error", "quarantined"}, reply \in Replies :
          SetZipState(b, z, status, reply)
    \/ \E z \in Zip : EnqueueOutboxBatch(b, z)
    \/ \E e \in outbox_claims[b], t \in Token, reply \in Replies :
          ClaimOutboxZip(b, e, t, reply)
    \/ \E e \in outbox_claims[b] : SettleOutboxBatch(b, e)

TableStep ==
    \/ RetryFailedZips
    \/ \E z \in Zip : TouchZip(z) \/ RefreshDue(z)

Next ==
    \/ \E v \in Vm : VmStep(v)
    \/ \E b \in Browser : BrowserStep(b)
    \/ TableStep \/ Tick

Spec == Init /\ [][Next]_vars

-----------------------------------------------------------------------------
(* Safety                                                                  *)

\* _lock_owned_zip never passes for two browser workers on the same ZIP:
\* one of them would write over the other's claim.
LeaseExclusive ==
    \A z \in Zip : \A b, c \in Browser : Owned(b, z) /\ Owned(c, z) => b = c

\* A worker that lost its lease cannot pass the check again, however late it
\* wakes: while the row carries its marker, no other browser worker has
\* claimed the row since (a VM may have: VM claims keep last_error).
LeaseMeansHolder ==
    \A z \in Zip : \A b \in Browser : Owned(b, z) => holder[z] \in {b} \cup Vm

\* A browser's claim that has not expired is ended by that browser alone, or
\* by a VM crawler that still believes it is working on the ZIP: not by
\* another browser's recovery or claim, not by a crawler's start, not by an
\* outbox replay on another machine.
LiveLeaseKept ==
    [][\A z \in Zip : \A b \in Browser :
          (holder[z] = b /\ zips[z].age < StaleAfter /\ holder'[z] # b)
             => Owned(b, z) \/ \E v \in Vm : vm_zip[v] = z]_vars

-----------------------------------------------------------------------------
(* Liveness                                                                *)

\* A row in progress under marker t, which no machine can present any more.
Abandoned(z, t) ==
    Leased(zips[z], t) /\ \A b \in Browser : t \notin Known(b)

\* The loops poll (a crawler is restarted by systemd), and time passes.
Fairness ==
    /\ WF_vars(Tick)
    /\ \A v \in Vm : /\ WF_vars(VmStart(v))
                     /\ WF_vars(\E z \in Zip : VmClaim(v, z, TRUE))
                     /\ WF_vars(VmMarkDone(v, TRUE) \/ VmMarkError(v))
    /\ \A b \in Browser :
          WF_vars(\E z \in Zip, t \in Token : ClaimNextZip(b, z, t, TRUE))

FairSpec == Spec /\ Fairness

\* The loaders stop touching row z: each touch makes a claim look alive again.
EventuallyUntouched(z) == <>[][~TouchZip(z)]_vars

\* The claim of a browser worker that died, or that never heard it had the
\* claim, is taken back.
AbandonedMarkerRecovered ==
    \A z \in Zip : EventuallyUntouched(z) =>
        \A t \in Token : Abandoned(z, t) ~> ~Abandoned(z, t)

-----------------------------------------------------------------------------
(* What the repository says of the queue and the code does not do: each of  *)
(* these is the property of a run that finds it violated.                   *)

\* tests/test_vm_compatibility.py: an expired "vm_claim_is_preserved", and
\* "The VM does not use a browser ownership marker".  No browser worker takes
\* an in-progress row from a crawler.
VmClaimPreserved ==
    [][\A z \in Zip : holder[z] \in Vm => holder'[z] \notin Browser]_vars

\* Where VmClaimPreserved does hold: no browser worker takes an in-progress row from
\* a crawler if the crawler's claim found no marker on it to keep.
UnmarkedVmClaimPreserved ==
    [][\A z \in Zip : holder[z] \in Vm /\ ~Marked(zips[z])
          => holder'[z] \notin Browser]_vars

\* worker.mjs: "kill/restart resumes with no lost work".  A row in progress
\* that its crawler no longer works on leaves that state.
LostByVm(z) ==
    InProgress(zips[z]) /\ holder[z] \in Vm /\ \A v \in Vm : vm_zip[v] # z

VmCrashRecovered ==
    \A z \in Zip : EventuallyUntouched(z) => (LostByVm(z) ~> ~LostByVm(z))

=============================================================================
