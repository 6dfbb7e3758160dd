--------------------------- MODULE BurstJobProofs ---------------------------
(***************************************************************************)
(* Proofs about BurstJob, for any recoveries, servers and reports and any  *)
(* number of mishaps.  Two facts carry them: until the POST has saved the  *)
(* provider handle no recovery works on the job (PostShape), and whoever   *)
(* is about to save "completed" has seen the workload complete and torn    *)
(* the instance down (OutcomeShape).                                       *)
(***************************************************************************)
EXTENDS BurstJob, TLAPS

Finalizing == {"recheck", "teardown", "write"}
Torn       == {"deleted", "left"}

\* While the POST has not opened its stream nobody else works on the job.
PostShape ==
    /\ post = "new" => job.status = "none" /\ \A r \in Report : report[r] = "idle"
    /\ post \in {"provision", "mark"} => job.status = "provisioning" /\ job.placement = "gcp"
    /\ post \in {"new", "provision", "mark"} =>
          ~job.handle /\ ~stale /\ \A g \in Get : get[g] = IdleGet
    /\ \A r \in Report : report[r] \in Terminal => job.placement = "puppy"

\* What whoever is about to save an outcome has seen and done.
OutcomeShape ==
    /\ post \in {"done", "complete"} => workload = "completed"
    /\ post = "complete" => instance \in Torn
    /\ \A g \in Get : get[g].pc \in Finalizing =>
          /\ get[g].poll = "completed" => workload = "completed"
          /\ get[g].pc = "write" => instance \in Torn
    /\ job.status = "completed" => job.result

\* A recovery that finalizes has an outcome to save.
Answered == \A g \in Get : get[g].pc \in Finalizing => get[g].poll \in Terminal

BurstInv ==
    /\ BurstTypeOK /\ Answered /\ PostShape /\ OutcomeShape
    /\ CompletedTornDown /\ FinalizerGuard

-----------------------------------------------------------------------------
(* Types                                                                   *)

Jobs == [status : {"none", "provisioning", "running"} \cup Terminal,
         placement : {"gcp", "puppy"}, kind : {"gpu", "tpu"},
         byoc : BOOLEAN, handle : BOOLEAN, result : BOOLEAN]
Gets == [pc : GetState, server : Server, poll : Poll]
Instances == {"none", "up", "left", "deleted"}
Workloads == {"running"} \cup Terminal
Posts == {"new", "provision", "mark", "fail row", "loop", "polling",
          "done", "complete", "failure", "fail", "gone", "refused"}
Reports == {"idle"} \cup Terminal

\* BurstTypeOK, its sets by name.
LEMMA TypeParts ==
    BurstTypeOK <=>
        /\ job \in Jobs /\ instance \in Instances /\ workload \in Workloads
        /\ post \in Posts /\ get \in [Get -> {IdleGet} \cup Gets]
        /\ finalizingNow \subseteq Server /\ report \in [Report -> Reports]
        /\ closed \in BOOLEAN /\ stale \in BOOLEAN
        /\ mishaps \in 0..MishapBound
  BY Zenon DEF BurstTypeOK, Jobs, Gets, Instances, Workloads, Posts, Reports

LEMMA TypePartsNext ==
    (/\ job' \in Jobs /\ instance' \in Instances /\ workload' \in Workloads
     /\ post' \in Posts /\ get' \in [Get -> {IdleGet} \cup Gets]
     /\ finalizingNow' \subseteq Server /\ report' \in [Report -> Reports]
     /\ closed' \in BOOLEAN /\ stale' \in BOOLEAN
     /\ mishaps' \in 0..MishapBound) => BurstTypeOK'
  BY Zenon DEF BurstTypeOK, Jobs, Gets, Instances, Workloads, Posts, Reports

-----------------------------------------------------------------------------
(* What the writes do                                                      *)

LEMMA CompleteWrites ==
    ASSUME job \in Jobs, completeBurstJob
    PROVE  /\ job' \in Jobs /\ job'.status = "completed" /\ job'.result
           /\ job'.placement = job.placement /\ job'.handle = job.handle
  BY DEF Jobs, Terminal, completeBurstJob

LEMMA FailWrites ==
    ASSUME job \in Jobs, failBurstJob
    PROVE  /\ job' \in Jobs /\ job'.status = "failed" /\ job'.result = job.result
           /\ job'.placement = job.placement /\ job'.handle = job.handle
  BY DEF Jobs, Terminal, failBurstJob

\* A write that fails or is lost leaves the row; either way the result stays.
LEMMA TryFailWrites ==
    ASSUME job \in Jobs, mishaps \in 0..MishapBound, TryFailBurstJob
    PROVE  /\ job' \in Jobs /\ mishaps' \in 0..MishapBound
           /\ job'.status = "failed" \/ job'.status = job.status
           /\ job'.result = job.result
           /\ job'.placement = job.placement /\ job'.handle = job.handle
  <1>1. CASE failBurstJob /\ UNCHANGED mishaps
    BY <1>1, FailWrites
  <1>2. CASE Mishap /\ UNCHANGED job
    BY <1>2, BurstAssumption DEF Mishap
  <1> QED
    BY <1>1, <1>2 DEF TryFailBurstJob

\* The row after markBurstProvisioned.
LEMMA MarkWrites ==
    ASSUME job \in Jobs, markBurstProvisioned
    PROVE  /\ job' \in Jobs /\ job'.status = "running"
           /\ job'.result = job.result /\ job'.placement = job.placement
  BY DEF Jobs, Terminal, markBurstProvisioned

\* The row after createBurstJob.
LEMMA CreateWrites ==
    ASSUME job \in Jobs, NEW s \in {"running", "provisioning"},
           job' = [job EXCEPT !.status = s]
    PROVE  /\ job' \in Jobs /\ job'.status = s /\ job'.handle = job.handle
           /\ job'.result = job.result /\ job'.placement = job.placement
  BY DEF Jobs, Terminal

LEMMA GoesOn ==
    ASSUME get \in [Get -> {IdleGet} \cup Gets], NEW g \in Get,
           NEW state \in {IdleGet} \cup Gets, GoOn(g, state)
    PROVE  /\ get' \in [Get -> {IdleGet} \cup Gets] /\ get'[g] = state
           /\ \A h \in Get \ {g} : get'[h] = get[h]
  BY DEF GoOn

\* A recovery that is somewhere has a server and a poll.
LEMMA AtWork ==
    ASSUME get \in [Get -> {IdleGet} \cup Gets], NEW g \in Get, get[g].pc \in GetState
    PROVE  get[g] \in Gets /\ get[g] # IdleGet
  BY DEF IdleGet, GetState

\* Its record with another pc, or with an answer as well.
LEMMA NextState ==
    ASSUME NEW s \in Gets, NEW p \in GetState, NEW r \in Poll
    PROVE  /\ [s EXCEPT !.pc = p] \in Gets
           /\ [s EXCEPT !.pc = p].pc = p
           /\ [s EXCEPT !.pc = p].server = s.server
           /\ [s EXCEPT !.pc = p].poll = s.poll
           /\ [s EXCEPT !.pc = p, !.poll = r] \in Gets
           /\ [s EXCEPT !.pc = p, !.poll = r].pc = p
           /\ [s EXCEPT !.pc = p, !.poll = r].server = s.server
           /\ [s EXCEPT !.pc = p, !.poll = r].poll = r
  BY DEF Gets

LEMMA TornDown ==
    ASSUME instance \in Instances, teardownBurst
    PROVE  instance' \in Instances /\ instance' \in Torn
  BY DEF Instances, Torn, teardownBurst

LEMMA MishapCounts ==
    ASSUME mishaps \in 0..MishapBound, Mishap
    PROVE  mishaps' \in 0..MishapBound
  BY BurstAssumption DEF Mishap

\* "completed" is only ever the answer for a workload that has completed.
LEMMA PolledCompleted ==
    ASSUME "completed" \in PollResults
    PROVE  workload = "completed"
  BY DEF PollResults

-----------------------------------------------------------------------------
(* Type correctness                                                        *)

LEMMA InitInv == BurstInit => BurstInv
  <1> SUFFICES ASSUME BurstInit PROVE BurstInv
    OBVIOUS
  <1>1. job \in Jobs
    BY DEF BurstInit, Jobs
  <1>2. get \in [Get -> {IdleGet} \cup Gets] /\ report \in [Report -> Reports]
    BY DEF BurstInit, Reports
  <1>3. mishaps \in 0..MishapBound
    BY BurstAssumption DEF BurstInit
  <1>4. BurstTypeOK
    BY <1>1, <1>2, <1>3, TypeParts DEF BurstInit, Instances, Workloads, Posts
  <1>5. job.status = "none" /\ ~job.handle
    BY DEF BurstInit
  <1>6. PostShape
    BY <1>5 DEF BurstInit, PostShape, Terminal
  <1>7. OutcomeShape /\ Answered /\ CompletedTornDown
    BY <1>5 DEF BurstInit, OutcomeShape, Answered, CompletedTornDown, IdleGet, Finalizing
  <1>8. FinalizerGuard
    BY DEF BurstInit, FinalizerGuard, IdleGet
  <1> QED
    BY <1>4, <1>6, <1>7, <1>8 DEF BurstInv

\* Every step of the POST keeps the types.
LEMMA PostTypes ==
    ASSUME BurstTypeOK, PostStep
    PROVE  BurstTypeOK'
  <1> USE DEF postVars, getVars
  <1>1. CASE PostCreate
    <2>1. job' \in Jobs
      BY <1>1, TypeParts, CreateWrites DEF PostCreate
    <2> QED
      BY <1>1, <2>1, TypeParts, TypePartsNext DEF PostCreate, Posts
  <1>2. CASE PostProvision
    BY <1>2, TypeParts, TypePartsNext DEF PostProvision, Posts, Instances
  <1>3. CASE PostMark
    <2>1. job' \in Jobs
      BY <1>3, TypeParts, MarkWrites DEF PostMark
    <2>2. mishaps' \in 0..MishapBound
      BY <1>3, TypeParts, MishapCounts DEF PostMark
    <2>3. post' \in {"loop", "fail row"}
      BY <1>3 DEF PostMark
    <2> QED
      BY <1>3, <2>1, <2>2, <2>3, TypeParts, TypePartsNext DEF PostMark, Posts
  <1>4. CASE PostFailed
    <2>1. job' \in Jobs /\ mishaps' \in 0..MishapBound
      BY <1>4, TypeParts, TryFailWrites DEF PostFailed
    <2> QED
      BY <1>4, <2>1, TypeParts, TypePartsNext DEF PostFailed, Posts, Terminal
  <1>5. CASE StreamLoop \/ StreamDeadline
    BY <1>5, TypeParts, TypePartsNext DEF StreamLoop, StreamDeadline, Posts
  <1>6. CASE \E result \in Poll : StreamPolled(result)
    <2>1. post' \in Posts
      BY <1>6 DEF StreamPolled, Posts
    <2> QED
      BY <1>6, <2>1, TypeParts, TypePartsNext DEF StreamPolled
  <1>7. CASE StreamTeardown
    <2>1. instance' \in Instances
      BY <1>7, TypeParts, TornDown DEF StreamTeardown
    <2>2. post' \in Posts
      BY <1>7 DEF StreamTeardown, Posts
    <2> QED
      BY <1>7, <2>1, <2>2, TypeParts, TypePartsNext DEF StreamTeardown
  <1>8. CASE StreamComplete
    <2>1. CASE completeBurstJob /\ post' = "gone" /\ UNCHANGED mishaps
      <3>1. job' \in Jobs
        BY <2>1, TypeParts, CompleteWrites
      <3> QED
        BY <1>8, <2>1, <3>1, TypeParts, TypePartsNext DEF StreamComplete, Posts
    <2>2. CASE (completeBurstJob \/ UNCHANGED job) /\ Mishap /\ post' = "failure"
      <3>1. mishaps' \in 0..MishapBound /\ job' \in Jobs
        BY <2>2, TypeParts, MishapCounts, CompleteWrites
      <3> QED
        BY <1>8, <2>2, <3>1, TypeParts, TypePartsNext DEF StreamComplete, Posts
    <2> QED
      BY <1>8, <2>1, <2>2 DEF StreamComplete
  <1>9. CASE StreamFail
    <2>1. job' \in Jobs /\ mishaps' \in 0..MishapBound
      BY <1>9, TypeParts, TryFailWrites DEF StreamFail
    <2> QED
      BY <1>9, <2>1, TypeParts, TypePartsNext DEF StreamFail, Posts
  <1> QED
    BY <1>1, <1>2, <1>3, <1>4, <1>5, <1>6, <1>7, <1>8, <1>9 DEF PostStep

\* So does every step of a recovery.
LEMMA GetTypes ==
    ASSUME BurstTypeOK, Answered, NEW g \in Get, GetStep(g)
    PROVE  BurstTypeOK'
  <1> USE DEF postVars
  <1>1. CASE GetSettled(g)
    BY <1>1, TypeParts, TypePartsNext DEF GetSettled, getVars
  <1>2. CASE \E s \in Server : GetUnsettled(g, s)
    <2>1. PICK s \in Server : GetUnsettled(g, s)
      BY <1>2
    <2> DEFINE next == [pc |-> IF stale THEN "abandon" ELSE "polling",
                        server |-> s, poll |-> "running"]
    <2>2. next \in Gets
      BY DEF Gets, GetState, Poll
    <2>3. GoOn(g, next)
      BY <2>1 DEF GetUnsettled
    <2> HIDE DEF next
    <2>4. get' \in [Get -> {IdleGet} \cup Gets]
      BY <2>2, <2>3, TypeParts, GoesOn
    <2> QED
      BY <2>1, <2>4, TypeParts, TypePartsNext DEF GetUnsettled
  <1>3. CASE GetAbandon(g)
    <2>1. job' \in Jobs /\ mishaps' \in 0..MishapBound
      BY <1>3, TypeParts, TryFailWrites DEF GetAbandon
    <2>2. get' \in [Get -> {IdleGet} \cup Gets]
      BY <1>3, TypeParts, GoesOn DEF GetAbandon
    <2> QED
      BY <1>3, <2>1, <2>2, TypeParts, TypePartsNext DEF GetAbandon, Terminal
  <1>4. CASE \E result \in Poll : GetPolled(g, result)
    <2>1. PICK result \in Poll : GetPolled(g, result)
      BY <1>4
    <2>2. get[g] \in Gets
      BY <2>1, TypeParts, AtWork DEF GetPolled, GetState
    <2>3. [get[g] EXCEPT !.pc = "recheck", !.poll = result] \in Gets
      BY <2>2, NextState DEF GetState
    <2>4. get' \in [Get -> {IdleGet} \cup Gets]
      <3>1. CASE GoOn(g, [get[g] EXCEPT !.pc = "recheck", !.poll = result])
        BY <3>1, <2>3, TypeParts, GoesOn
      <3>2. CASE GoOn(g, IdleGet)
        BY <3>2, TypeParts, GoesOn
      <3> QED
        BY <2>1, <3>1, <3>2 DEF GetPolled
    <2>5. get[g].server \in Server
      BY <2>2 DEF Gets
    <2>6. finalizingNow' \subseteq Server
      BY <2>1, <2>5, TypeParts DEF GetPolled
    <2> QED
      BY <2>1, <2>4, <2>6, TypeParts, TypePartsNext DEF GetPolled
  <1>5. ASSUME Release(g)
        PROVE  get' \in [Get -> {IdleGet} \cup Gets] /\ finalizingNow' \subseteq Server
    BY <1>5, TypeParts, GoesOn DEF Release
  <1>6. CASE GetRecheckFinal(g)
    BY <1>5, <1>6, TypeParts, TypePartsNext DEF GetRecheckFinal
  <1>7. CASE GetRecheckOpen(g)
    <2>1. get[g] \in Gets
      BY <1>7, TypeParts, AtWork DEF GetRecheckOpen, GetState
    <2>2. [get[g] EXCEPT !.pc = "teardown"] \in Gets
      BY <2>1, NextState DEF GetState, Poll
    <2>3. get' \in [Get -> {IdleGet} \cup Gets]
      BY <1>7, <2>2, TypeParts, GoesOn DEF GetRecheckOpen
    <2>4. mishaps' \in 0..MishapBound
      BY <1>7, TypeParts, MishapCounts DEF GetRecheckOpen
    <2> QED
      BY <1>7, <2>3, <2>4, TypeParts, TypePartsNext DEF GetRecheckOpen
  <1>8. CASE GetTeardown(g)
    <2>1. get[g] \in Gets
      BY <1>8, TypeParts, AtWork DEF GetTeardown, GetState
    <2>2. [get[g] EXCEPT !.pc = "write"] \in Gets
      BY <2>1, NextState DEF GetState, Poll
    <2>3. get' \in [Get -> {IdleGet} \cup Gets]
      BY <1>8, <2>2, TypeParts, GoesOn DEF GetTeardown
    <2>4. instance' \in Instances
      BY <1>8, TypeParts, TornDown DEF GetTeardown
    <2> QED
      BY <1>8, <2>3, <2>4, TypeParts, TypePartsNext DEF GetTeardown
  <1>9. CASE GetWrite(g)
    <2>1. job' \in Jobs /\ mishaps' \in 0..MishapBound
      BY <1>9, TypeParts, TryFailWrites, CompleteWrites DEF GetWrite
    <2> QED
      BY <1>5, <1>9, <2>1, TypeParts, TypePartsNext DEF GetWrite
  <1>10. CASE GetWriteFails(g)
    <2>1. mishaps' \in 0..MishapBound /\ job' \in Jobs
      BY <1>10, TypeParts, MishapCounts, CompleteWrites DEF GetWriteFails
    <2> QED
      BY <1>5, <1>10, <2>1, TypeParts, TypePartsNext DEF GetWriteFails
  <1> QED
    BY <1>1, <1>2, <1>3, <1>4, <1>6, <1>7, <1>8, <1>9, <1>10 DEF GetStep

\* And of the reports, the client, the kill, the workload and the clock.
LEMMA OtherTypes ==
    ASSUME BurstTypeOK,
           \/ \E r \in Report : ReportStep(r)
           \/ Disconnect \/ PostKilled \/ WorkloadEnds \/ GrowStale
    PROVE  BurstTypeOK'
  <1> USE DEF getVars
  <1>1. ASSUME NEW r \in Report, ReportStep(r)
        PROVE  BurstTypeOK'
    <2>1. report' \in [Report -> Reports]
      BY <1>1, TypeParts DEF ReportStep, ReportAccepted, ReportWritten, ReportLost, Reports
    <2>2. CASE \E outcome \in Terminal : ReportAccepted(r, outcome)
      BY <2>1, <2>2, TypeParts, TypePartsNext DEF ReportAccepted, postVars
    <2>3. CASE ReportWritten(r)
      <3>1. job' \in Jobs
        BY <2>3, TypeParts, CompleteWrites, FailWrites DEF ReportWritten, SaveReport
      <3> QED
        BY <2>1, <2>3, <3>1, TypeParts, TypePartsNext DEF ReportWritten, postVars
    <2>4. CASE ReportLost(r)
      <3>1. mishaps' \in 0..MishapBound /\ job' \in Jobs
        BY <2>4, TypeParts, MishapCounts, CompleteWrites, FailWrites DEF ReportLost, SaveReport
      <3> QED
        BY <2>1, <2>4, <3>1, TypeParts, TypePartsNext DEF ReportLost, postVars
    <2> QED
      BY <1>1, <2>2, <2>3, <2>4 DEF ReportStep
  <1>2. CASE Disconnect
    BY <1>2, TypeParts, TypePartsNext DEF Disconnect
  <1>3. CASE PostKilled
    <2>1. mishaps' \in 0..MishapBound
      BY <1>3, TypeParts, MishapCounts DEF PostKilled
    <2> QED
      BY <1>3, <2>1, TypeParts, TypePartsNext DEF PostKilled, Posts
  <1>4. CASE WorkloadEnds
    BY <1>4, TypeParts, TypePartsNext DEF WorkloadEnds, Workloads, postVars
  <1>5. CASE GrowStale
    BY <1>5, TypeParts, TypePartsNext DEF GrowStale, postVars
  <1> QED
    BY <1>1, <1>2, <1>3, <1>4, <1>5

-----------------------------------------------------------------------------
(* How a recovery moves                                                    *)

Enters(g) ==
    /\ get[g].pc \notin Finalizing /\ get'[g].pc = "recheck"
    /\ get'[g].poll \in Terminal \cap PollResults
    /\ get'[g].server \notin finalizingNow
    /\ finalizingNow' = finalizingNow \cup {get'[g].server}

Advances(g) ==
    /\ get[g].pc \in Finalizing /\ get'[g].pc \in Finalizing
    /\ get'[g].poll = get[g].poll /\ get'[g].server = get[g].server
    /\ get'[g].pc = "write" => instance' \in Torn
    /\ finalizingNow' = finalizingNow

Leaves(g) ==
    /\ get[g].pc \in Finalizing /\ get'[g].pc \notin Finalizing \cup {"abandon"}
    /\ finalizingNow' = finalizingNow \ {get[g].server}

Waits(g) ==
    /\ get[g].pc \notin Finalizing /\ get'[g].pc \notin Finalizing
    /\ get'[g].pc = "abandon" => get[g].pc = "abandon" \/ stale
    /\ finalizingNow' = finalizingNow

\* A step of a recovery leaves the others where they are, and enters, goes on
\* with or leaves the finalization, or has nothing to do with it.
LEMMA GetMoves ==
    ASSUME BurstTypeOK, NEW g \in Get, GetStep(g)
    PROVE  /\ \A h \in Get \ {g} : get'[h] = get[h]
           /\ Enters(g) \/ Advances(g) \/ Leaves(g) \/ Waits(g)
  <1> USE DEF Finalizing
  <1>0. get \in [Get -> {IdleGet} \cup Gets] /\ IdleGet \in {IdleGet} \cup Gets
    BY TypeParts
  <1>1. CASE GetSettled(g)
    BY <1>1 DEF GetSettled, getVars, IdleGet, Waits
  <1>2. CASE \E s \in Server : GetUnsettled(g, s)
    <2>1. PICK s \in Server : GetUnsettled(g, s)
      BY <1>2
    <2> DEFINE next == [pc |-> IF stale THEN "abandon" ELSE "polling",
                        server |-> s, poll |-> "running"]
    <2>2. next \in Gets /\ next.pc \notin Finalizing /\ (next.pc = "abandon" => stale)
      BY DEF Gets, GetState, Poll
    <2>3. GoOn(g, next)
      BY <2>1 DEF GetUnsettled
    <2> HIDE DEF next
    <2>4. get'[g] = next /\ \A h \in Get \ {g} : get'[h] = get[h]
      BY <1>0, <2>2, <2>3, GoesOn
    <2> QED
      BY <2>1, <2>2, <2>4 DEF GetUnsettled, IdleGet, Waits
  <1>3. CASE GetAbandon(g)
    <2>1. get'[g] = IdleGet /\ \A h \in Get \ {g} : get'[h] = get[h]
      BY <1>0, <1>3, GoesOn DEF GetAbandon
    <2> QED
      BY <1>3, <2>1 DEF GetAbandon, IdleGet, Waits
  <1>4. CASE \E result \in Poll : GetPolled(g, result)
    <2>1. PICK result \in Poll : GetPolled(g, result)
      BY <1>4
    <2>2. get[g] \in Gets
      BY <1>0, <2>1, AtWork DEF GetPolled, GetState
    <2> DEFINE next == [get[g] EXCEPT !.pc = "recheck", !.poll = result]
    <2>3. /\ next \in Gets /\ next.pc = "recheck"
          /\ next.server = get[g].server /\ next.poll = result
      <3>1. \A s \in Gets : LET n == [s EXCEPT !.pc = "recheck", !.poll = result]
                            IN  n \in Gets /\ n.pc = "recheck"
                                  /\ n.server = s.server /\ n.poll = result
        BY DEF Gets, GetState
      <3> QED
        BY <2>2, <3>1
    <2>4. CASE /\ result \in Terminal /\ get[g].server \notin finalizingNow
               /\ GoOn(g, next)
               /\ finalizingNow' = finalizingNow \cup {get[g].server}
      <3> HIDE DEF next
      <3>1. get'[g] = next /\ \A h \in Get \ {g} : get'[h] = get[h]
        BY <1>0, <2>3, <2>4, GoesOn
      <3> QED
        BY <2>1, <2>3, <2>4, <3>1 DEF GetPolled, Enters
    <2>5. CASE GoOn(g, IdleGet) /\ UNCHANGED finalizingNow
      <3>1. get'[g] = IdleGet /\ \A h \in Get \ {g} : get'[h] = get[h]
        BY <1>0, <2>5, GoesOn
      <3> QED
        BY <2>1, <2>5, <3>1 DEF GetPolled, IdleGet, Waits
    <2> QED
      BY <2>1, <2>4, <2>5 DEF GetPolled
  <1>5. CASE GetRecheckFinal(g) \/ GetWrite(g) \/ GetWriteFails(g)
    <2>1. Release(g) /\ get[g].pc \in Finalizing
      BY <1>5 DEF GetRecheckFinal, GetWrite, GetWriteFails
    <2>2. get'[g] = IdleGet /\ \A h \in Get \ {g} : get'[h] = get[h]
      BY <1>0, <2>1, GoesOn DEF Release
    <2> QED
      BY <2>1, <2>2 DEF Release, IdleGet, Leaves
  <1>6. CASE GetRecheckOpen(g)
    <2>1. get[g] \in Gets
      BY <1>0, <1>6, AtWork DEF GetRecheckOpen, GetState
    <2> DEFINE next == [get[g] EXCEPT !.pc = "teardown"]
    <2>2. /\ next \in Gets /\ next.pc = "teardown"
          /\ next.server = get[g].server /\ next.poll = get[g].poll
      BY <2>1, NextState DEF GetState, Poll
    <2>3. GoOn(g, next)
      BY <1>6 DEF GetRecheckOpen
    <2> HIDE DEF next
    <2>4. get'[g] = next /\ \A h \in Get \ {g} : get'[h] = get[h]
      BY <1>0, <2>2, <2>3, GoesOn
    <2> QED
      BY <1>6, <2>2, <2>4 DEF GetRecheckOpen, Advances
  <1>7. CASE GetTeardown(g)
    <2>1. get[g] \in Gets
      BY <1>0, <1>7, AtWork DEF GetTeardown, GetState
    <2> DEFINE next == [get[g] EXCEPT !.pc = "write"]
    <2>2. /\ next \in Gets /\ next.pc = "write"
          /\ next.server = get[g].server /\ next.poll = get[g].poll
      BY <2>1, NextState DEF GetState, Poll
    <2>3. GoOn(g, next)
      BY <1>7 DEF GetTeardown
    <2> HIDE DEF next
    <2>4. get'[g] = next /\ \A h \in Get \ {g} : get'[h] = get[h]
      BY <1>0, <2>2, <2>3, GoesOn
    <2>5. instance' \in Torn
      BY <1>7, TypeParts, TornDown DEF GetTeardown
    <2> QED
      BY <1>7, <2>2, <2>4, <2>5 DEF GetTeardown, Advances
  <1> QED
    BY <1>1, <1>2, <1>3, <1>4, <1>5, <1>6, <1>7 DEF GetStep

\* A recovery that finalizes has polled an outcome, whoever moves.
LEMMA AnsweredStep ==
    ASSUME BurstTypeOK, Answered, BurstNext
    PROVE  Answered'
  <1>1. ASSUME NEW g \in Get, GetStep(g)
        PROVE  Answered'
    <2>1. ASSUME NEW h \in Get, get'[h].pc \in Finalizing
          PROVE  get'[h].poll \in Terminal
      <3>1. CASE h = g
        BY <1>1, <2>1, <3>1, GetMoves DEF Enters, Advances, Leaves, Waits, Answered
      <3>2. CASE h # g
        BY <1>1, <2>1, <3>2, GetMoves DEF Answered
      <3> QED
        BY <3>1, <3>2
    <2> QED
      BY <2>1 DEF Answered
  <1>2. CASE UNCHANGED get
    BY <1>2 DEF Answered
  <1>3. CASE PostStep
    BY <1>2, <1>3 DEF PostStep, PostCreate, PostProvision, PostMark, PostFailed, StreamLoop,
       StreamDeadline, StreamPolled, StreamTeardown, StreamComplete, StreamFail, getVars
  <1>4. CASE \E r \in Report : ReportStep(r)
    BY <1>2, <1>4 DEF ReportStep, ReportAccepted, ReportWritten, ReportLost, getVars
  <1>5. CASE Disconnect \/ PostKilled \/ WorkloadEnds \/ GrowStale
    BY <1>2, <1>5 DEF Disconnect, PostKilled, WorkloadEnds, GrowStale, getVars
  <1> QED
    BY <1>1, <1>3, <1>4, <1>5 DEF BurstNext

\* Types and answers together are inductive.
LEMMA TypesStep ==
    ASSUME BurstTypeOK, Answered, [BurstNext]_burstVars
    PROVE  BurstTypeOK' /\ Answered'
  <1>1. CASE BurstNext
    BY <1>1, PostTypes, GetTypes, OtherTypes, AnsweredStep DEF BurstNext
  <1>2. CASE UNCHANGED burstVars
    BY <1>2, TypeParts, TypePartsNext DEF burstVars, postVars, getVars, Answered
  <1> QED
    BY <1>1, <1>2

\* BurstTypeOK, whatever fails and whoever is killed.
THEOREM BurstTypeCorrect == BurstSpec => []BurstTypeOK
  <1>1. BurstInit => BurstTypeOK /\ Answered
    BY InitInv DEF BurstInv
  <1>2. (BurstTypeOK /\ Answered) /\ [BurstNext]_burstVars => (BurstTypeOK /\ Answered)'
    BY TypesStep
  <1> QED
    BY <1>1, <1>2, PTL DEF BurstSpec

-----------------------------------------------------------------------------
(* One recovery per server                                                 *)

\* FinalizerGuard, spelt out per server and per pair of recoveries.
LEMMA GuardParts ==
    ASSUME BurstTypeOK
    PROVE  FinalizerGuard <=>
             /\ \A s \in finalizingNow : \E g \in Get : get[g].pc \in Finalizing /\ get[g].server = s
             /\ \A g \in Get : get[g].pc \in Finalizing => get[g].server \in finalizingNow
             /\ \A g, h \in Get :
                   get[g].pc \in Finalizing /\ get[h].pc \in Finalizing
                     /\ get[g].server = get[h].server => g = h
  <1>1. finalizingNow \subseteq Server
    BY TypeParts
  <1>2. ASSUME NEW g \in Get, get[g].pc \in Finalizing
        PROVE  get[g].server \in Server
    <2>1. get[g] \in Gets
      BY <1>2, TypeParts, AtWork DEF Finalizing, GetState
    <2> QED
      BY <2>1 DEF Gets
  <1> QED
    BY <1>1, <1>2 DEF FinalizerGuard, Finalizing

\* Every way in and every way out keeps the guard.
LEMMA GuardStep ==
    ASSUME BurstTypeOK, Answered, FinalizerGuard, [BurstNext]_burstVars
    PROVE  FinalizerGuard'
  <1>1. ASSUME NEW g \in Get, GetStep(g)
        PROVE  FinalizerGuard'
    <2>1. BurstTypeOK'
      BY <1>1, GetTypes
    <2> DEFINE In(h)  == get[h].pc \in Finalizing
               Out(h) == get'[h].pc \in Finalizing
    <2>2. /\ \A s \in finalizingNow : \E h \in Get : In(h) /\ get[h].server = s
          /\ \A h \in Get : In(h) => get[h].server \in finalizingNow
          /\ \A h, k \in Get : In(h) /\ In(k) /\ get[h].server = get[k].server => h = k
      BY GuardParts
    <2>3. \A h \in Get \ {g} : get'[h] = get[h]
      BY <1>1, GetMoves
    <2>4. /\ \A s \in finalizingNow' : \E h \in Get : Out(h) /\ get'[h].server = s
          /\ \A h \in Get : Out(h) => get'[h].server \in finalizingNow'
          /\ \A h, k \in Get : Out(h) /\ Out(k) /\ get'[h].server = get'[k].server => h = k
      <3>1. CASE Enters(g)
        BY <2>2, <2>3, <3>1 DEF Enters, Finalizing
      <3>2. CASE Advances(g)
        BY <2>2, <2>3, <3>2 DEF Advances
      <3>3. CASE Leaves(g)
        BY <2>2, <2>3, <3>3 DEF Leaves
      <3>4. CASE Waits(g)
        BY <2>2, <2>3, <3>4 DEF Waits
      <3> QED
        BY <1>1, <3>1, <3>2, <3>3, <3>4, GetMoves
    <2> QED
      BY <2>1, <2>4, GuardParts DEF Finalizing, FinalizerGuard
  <1>2. CASE UNCHANGED <<get, finalizingNow>>
    BY <1>2 DEF FinalizerGuard
  <1>3. CASE PostStep
    BY <1>2, <1>3 DEF PostStep, PostCreate, PostProvision, PostMark, PostFailed, StreamLoop,
       StreamDeadline, StreamPolled, StreamTeardown, StreamComplete, StreamFail, getVars
  <1>4. CASE \E r \in Report : ReportStep(r)
    BY <1>2, <1>4 DEF ReportStep, ReportAccepted, ReportWritten, ReportLost, getVars
  <1>5. CASE Disconnect \/ PostKilled \/ WorkloadEnds \/ GrowStale \/ UNCHANGED burstVars
    BY <1>2, <1>5 DEF Disconnect, PostKilled, WorkloadEnds, GrowStale, getVars, burstVars
  <1> QED
    BY <1>1, <1>3, <1>4, <1>5 DEF BurstNext

\* FinalizerGuard: one recovery at a time on a server, and none is forgotten.
THEOREM FinalizersExcluded == BurstSpec => []FinalizerGuard
  <1>1. BurstInit => BurstTypeOK /\ Answered /\ FinalizerGuard
    BY InitInv DEF BurstInv
  <1>2. (BurstTypeOK /\ Answered /\ FinalizerGuard) /\ [BurstNext]_burstVars
          => (BurstTypeOK /\ Answered /\ FinalizerGuard)'
    BY TypesStep, GuardStep
  <1> QED
    BY <1>1, <1>2, PTL DEF BurstSpec

-----------------------------------------------------------------------------
(* Who works on a job before its stream opens                              *)

\* Until the handle is saved no recovery and no report is under way.
LEMMA ShapeStep ==
    ASSUME BurstTypeOK, PostShape, [BurstNext]_burstVars
    PROVE  PostShape'
  <1>0. job \in Jobs /\ job.status \in {"none", "provisioning", "running"} \cup Terminal
    BY TypeParts DEF Jobs
  <1>1. CASE PostCreate
    <2>1. CASE job.placement = "puppy"
      <3>1. job' = [job EXCEPT !.status = "running"] /\ post' = "gone"
        BY <1>1, <2>1 DEF PostCreate
      <3>2. job'.placement = "puppy"
        BY <1>0, <2>1, <3>1, CreateWrites
      <3> QED
        BY <1>1, <3>1, <3>2 DEF PostCreate, PostShape
    <2>2. CASE job.placement # "puppy"
      <3>1. job' = [job EXCEPT !.status = "provisioning"] /\ post' = "provision"
        BY <1>1, <2>2 DEF PostCreate
      <3>2. /\ job'.status = "provisioning" /\ job'.placement = job.placement
            /\ job'.handle = job.handle
        BY <1>0, <3>1, CreateWrites
      <3>3. job.placement = "gcp"
        BY <1>0, <2>2 DEF Jobs
      <3> QED
        BY <1>1, <3>1, <3>2, <3>3 DEF PostCreate, PostShape, getVars, Terminal
    <2> QED
      BY <2>1, <2>2
  <1>2. CASE PostProvision
    BY <1>2 DEF PostProvision, PostShape, getVars
  <1>3. CASE PostMark
    <2>1. job'.placement = job.placement
      BY <1>0, <1>3, MarkWrites DEF PostMark
    <2>2. post' \in {"loop", "fail row"} /\ UNCHANGED report
      BY <1>3 DEF PostMark
    <2> QED
      BY <2>1, <2>2 DEF PostShape
  <1>4. CASE PostFailed \/ StreamFail \/ StreamComplete
    <2>1. job'.placement = job.placement
      BY <1>0, <1>4, TypeParts, TryFailWrites, CompleteWrites DEF PostFailed, StreamFail, StreamComplete
    <2>2. post' \in {"gone", "refused", "failure"} /\ UNCHANGED report
      BY <1>4 DEF PostFailed, StreamFail, StreamComplete
    <2> QED
      BY <2>1, <2>2 DEF PostShape
  <1>5. CASE \/ StreamLoop \/ StreamDeadline \/ StreamTeardown \/ PostKilled
             \/ \E result \in Poll : StreamPolled(result)
    <2>1. post' \notin {"new", "provision", "mark"} /\ UNCHANGED <<job, report>>
      BY <1>5 DEF StreamLoop, StreamDeadline, StreamTeardown, PostKilled, StreamPolled
    <2> QED
      BY <2>1 DEF PostShape
  <1>6. ASSUME NEW g \in Get, GetStep(g)
        PROVE  PostShape'
    <2>1. post \notin {"new", "provision", "mark"}
      <3>1. CASE GetSettled(g)
        BY <3>1 DEF GetSettled, PostShape, Terminal
      <3>2. CASE \E s \in Server : GetUnsettled(g, s)
        BY <3>2 DEF GetUnsettled, PostShape
      <3>3. CASE get[g].pc \in GetState
        BY <3>3, TypeParts, AtWork DEF PostShape
      <3> QED
        BY <1>6, <3>1, <3>2, <3>3 DEF GetState, GetStep, GetAbandon, GetPolled,
           GetRecheckFinal, GetRecheckOpen, GetTeardown, GetWrite, GetWriteFails
    <2>2. UNCHANGED <<post, report>>
      BY <1>6 DEF postVars, GetStep, GetSettled, GetUnsettled, GetAbandon, GetPolled,
         GetRecheckFinal, GetRecheckOpen, GetTeardown, GetWrite, GetWriteFails
    <2>3. job'.placement = job.placement
      <3>1. CASE GetAbandon(g) \/ GetWrite(g) \/ GetWriteFails(g)
        BY <1>0, <3>1, TypeParts, TryFailWrites, CompleteWrites DEF GetAbandon, GetWrite, GetWriteFails
      <3>2. CASE UNCHANGED job
        BY <3>2
      <3> QED
        BY <1>6, <3>1, <3>2 DEF GetStep, GetSettled, GetUnsettled, GetPolled,
           GetRecheckFinal, GetRecheckOpen, GetTeardown
    <2> QED
      BY <2>1, <2>2, <2>3 DEF PostShape
  <1>7. ASSUME NEW r \in Report, ReportStep(r)
        PROVE  PostShape'
    <2>1. post \notin {"new", "provision", "mark"} /\ job.placement = "puppy"
      BY <1>7 DEF PostShape, Terminal, ReportStep, ReportAccepted, ReportWritten, ReportLost
    <2>2. UNCHANGED post
      BY <1>7 DEF postVars, ReportStep, ReportAccepted, ReportWritten, ReportLost
    <2>3. job'.placement = "puppy"
      <3>1. CASE ReportWritten(r) \/ ReportLost(r)
        BY <1>0, <2>1, <3>1, FailWrites, CompleteWrites DEF ReportWritten, ReportLost, SaveReport
      <3> QED
        BY <1>7, <2>1, <3>1 DEF ReportStep, ReportAccepted
    <2> QED
      BY <2>1, <2>2, <2>3 DEF PostShape
  <1>8. CASE GrowStale
    BY <1>8 DEF GrowStale, PostShape, postVars, getVars, Over
  <1>9. CASE Disconnect \/ WorkloadEnds \/ UNCHANGED burstVars
    <2>1. UNCHANGED <<job, post, get, report, stale>>
      BY <1>9 DEF Disconnect, WorkloadEnds, burstVars, postVars, getVars
    <2> QED
      BY <2>1 DEF PostShape
  <1> QED
    BY <1>1, <1>2, <1>3, <1>4, <1>5, <1>6, <1>7, <1>8, <1>9 DEF BurstNext, PostStep

\* NeverReopened: only createBurstJob and markBurstProvisioned write a status
\* that is not final, and both while nobody else works on the job.
LEMMA NotReopened ==
    ASSUME BurstTypeOK, Answered, PostShape, [BurstNext]_burstVars, job.status \in Terminal
    PROVE  job'.status \in Terminal
  <1>0. job \in Jobs /\ mishaps \in 0..MishapBound
    BY TypeParts
  <1>1. post \notin {"new", "provision", "mark"}
    BY DEF PostShape, Terminal
  <1>2. ASSUME TryFailBurstJob \/ failBurstJob \/ completeBurstJob \/ UNCHANGED job
        PROVE  job'.status \in Terminal
    BY <1>0, <1>2, TryFailWrites, FailWrites, CompleteWrites DEF Terminal
  <1>3. CASE PostStep
    BY <1>1, <1>2, <1>3 DEF PostStep, PostCreate, PostProvision, PostMark, PostFailed, StreamLoop,
       StreamDeadline, StreamPolled, StreamTeardown, StreamComplete, StreamFail
  <1>4. ASSUME NEW g \in Get, GetStep(g)
        PROVE  job'.status \in Terminal
    BY <1>2, <1>4 DEF GetStep, GetSettled, GetUnsettled, GetAbandon, GetPolled,
       GetRecheckFinal, GetRecheckOpen, GetTeardown, GetWrite, GetWriteFails
  <1>5. ASSUME NEW r \in Report, ReportStep(r)
        PROVE  job'.status \in Terminal
    BY <1>2, <1>5 DEF ReportStep, ReportAccepted, ReportWritten, ReportLost, SaveReport
  <1>6. CASE Disconnect \/ PostKilled \/ WorkloadEnds \/ GrowStale \/ UNCHANGED burstVars
    BY <1>2, <1>6 DEF Disconnect, PostKilled, WorkloadEnds, GrowStale, burstVars
  <1> QED
    BY <1>3, <1>4, <1>5, <1>6 DEF BurstNext

\* NeverReopened as an action property of the specification.
THEOREM OutcomesStand == BurstSpec => NeverReopened
  <1>1. BurstInit => BurstTypeOK /\ Answered /\ PostShape
    BY InitInv DEF BurstInv
  <1>2. (BurstTypeOK /\ Answered /\ PostShape) /\ [BurstNext]_burstVars
          => (BurstTypeOK /\ Answered /\ PostShape)'
    BY TypesStep, ShapeStep
  <1>3. (BurstTypeOK /\ Answered /\ PostShape) /\ [BurstNext]_burstVars
          => [job.status \in Terminal => job'.status \in Terminal]_burstVars
    BY NotReopened
  <1> QED
    BY <1>1, <1>2, <1>3, PTL DEF BurstSpec, NeverReopened

-----------------------------------------------------------------------------
(* What a saved outcome means                                              *)

Shaped == BurstTypeOK /\ Answered /\ PostShape
Sound  == Shaped /\ OutcomeShape /\ CompletedTornDown

\* What a step does to the row, and to the cloud.
SoundWrites ==
    /\ job'.placement = job.placement /\ (job.result => job'.result)
    /\ job'.status = "completed" =>
          \/ job.status = "completed"
          \/ /\ job'.result
             /\ job.placement = "gcp" => workload' = "completed" /\ instance' \in Torn

SoundCloud ==
    /\ workload = "completed" => workload' = "completed"
    /\ instance \in Torn /\ post # "provision" => instance' \in Torn

\* The row gives nothing up, and gains "completed" only with what it means.
LEMMA WritesStep ==
    ASSUME Sound, [BurstNext]_burstVars
    PROVE  SoundWrites
  <1> USE DEF Sound, Shaped
  <1>0. job \in Jobs /\ mishaps \in 0..MishapBound
    BY TypeParts
  <1>1. CASE UNCHANGED job
    BY <1>1 DEF SoundWrites
  <1>2. CASE PostCreate
    <2>1. /\ job'.placement = job.placement /\ job'.result = job.result
          /\ job'.status # "completed"
      BY <1>0, <1>2, CreateWrites DEF PostCreate
    <2> QED
      BY <2>1 DEF SoundWrites
  <1>3. CASE PostMark
    <2>1. CASE markBurstProvisioned
      <3>1. /\ job'.placement = job.placement /\ job'.result = job.result
            /\ job'.status # "completed"
        BY <1>0, <2>1, MarkWrites
      <3> QED
        BY <3>1 DEF SoundWrites
    <2> QED
      BY <1>1, <1>3, <2>1 DEF PostMark
  <1>4. CASE PostFailed \/ StreamFail
    BY <1>0, <1>4, TryFailWrites DEF PostFailed, StreamFail, SoundWrites
  <1>5. CASE StreamComplete
    <2>1. CASE completeBurstJob
      <3>1. workload' = "completed" /\ instance' \in Torn
        BY <1>5 DEF StreamComplete, OutcomeShape
      <3> QED
        BY <1>0, <2>1, <3>1, CompleteWrites DEF SoundWrites
    <2> QED
      BY <1>1, <1>5, <2>1 DEF StreamComplete
  <1>6. ASSUME NEW g \in Get, GetStep(g)
        PROVE  SoundWrites
    <2>1. CASE TryFailBurstJob
      BY <1>0, <2>1, TryFailWrites DEF SoundWrites
    <2>2. CASE completeBurstJob /\ (GetWrite(g) \/ GetWriteFails(g)) /\ get[g].poll = "completed"
      <3>1. workload' = "completed" /\ instance' \in Torn
        BY <2>2 DEF GetWrite, GetWriteFails, OutcomeShape, Finalizing
      <3> QED
        BY <1>0, <2>2, <3>1, CompleteWrites DEF SoundWrites
    <2> QED
      BY <1>1, <1>6, <2>1, <2>2 DEF GetStep, GetSettled, GetUnsettled, GetAbandon, GetPolled,
         GetRecheckFinal, GetRecheckOpen, GetTeardown, GetWrite, GetWriteFails
  <1>7. ASSUME NEW r \in Report, ReportStep(r)
        PROVE  SoundWrites
    <2>1. CASE ReportWritten(r) \/ ReportLost(r)
      <3>1. job.placement = "puppy"
        BY <2>1 DEF ReportWritten, ReportLost, PostShape
      <3>2. CASE completeBurstJob
        BY <1>0, <3>1, <3>2, CompleteWrites DEF SoundWrites
      <3>3. CASE failBurstJob
        BY <1>0, <3>3, FailWrites DEF SoundWrites
      <3> QED
        BY <1>1, <2>1, <3>2, <3>3 DEF ReportWritten, ReportLost, SaveReport
    <2> QED
      BY <1>1, <1>7, <2>1 DEF ReportStep, ReportAccepted
  <1>8. CASE \/ PostProvision \/ StreamLoop \/ StreamDeadline \/ StreamTeardown
             \/ \E result \in Poll : StreamPolled(result)
    BY <1>1, <1>8 DEF PostProvision, StreamLoop, StreamDeadline, StreamTeardown, StreamPolled
  <1>9. CASE Disconnect \/ PostKilled \/ WorkloadEnds \/ GrowStale \/ UNCHANGED burstVars
    BY <1>1, <1>9 DEF Disconnect, PostKilled, WorkloadEnds, GrowStale, burstVars
  <1> QED
    BY <1>2, <1>3, <1>4, <1>5, <1>6, <1>7, <1>8, <1>9 DEF BurstNext, PostStep

\* A workload that has completed stays so; an instance on which a teardown has
\* been tried stays so, unless it has yet to be provisioned.
LEMMA CloudStep ==
    ASSUME BurstTypeOK, [BurstNext]_burstVars
    PROVE  SoundCloud
  <1>0. instance \in Instances
    BY TypeParts
  <1>1. CASE UNCHANGED <<instance, workload>>
    BY <1>1 DEF SoundCloud
  <1>2. CASE PostProvision
    BY <1>2 DEF PostProvision, SoundCloud
  <1>3. CASE StreamTeardown
    BY <1>0, <1>3, TornDown DEF StreamTeardown, SoundCloud
  <1>4. CASE WorkloadEnds
    BY <1>4 DEF WorkloadEnds, SoundCloud
  <1>5. CASE PostStep
    BY <1>1, <1>2, <1>3, <1>5 DEF PostStep, PostCreate, PostMark, PostFailed, StreamLoop,
       StreamDeadline, StreamPolled, StreamComplete, StreamFail
  <1>6. ASSUME NEW g \in Get, GetStep(g)
        PROVE  SoundCloud
    <2>1. CASE GetTeardown(g)
      BY <1>0, <2>1, TornDown DEF GetTeardown, SoundCloud
    <2> QED
      BY <1>1, <1>6, <2>1 DEF GetStep, GetSettled, GetUnsettled, GetAbandon, GetPolled,
         GetRecheckFinal, GetRecheckOpen, GetWrite, GetWriteFails
  <1>7. CASE \E r \in Report : ReportStep(r)
    BY <1>1, <1>7 DEF ReportStep, ReportAccepted, ReportWritten, ReportLost
  <1>8. CASE Disconnect \/ PostKilled \/ GrowStale \/ UNCHANGED burstVars
    BY <1>1, <1>8 DEF Disconnect, PostKilled, GrowStale, burstVars
  <1> QED
    BY <1>4, <1>5, <1>6, <1>7, <1>8 DEF BurstNext

\* What whoever is about to save an outcome has seen still holds after a step.
LEMMA OutcomeStep ==
    ASSUME Sound, [BurstNext]_burstVars
    PROVE  OutcomeShape'
  <1> USE DEF Sound, Shaped
  <1>1. SoundWrites /\ SoundCloud
    BY WritesStep, CloudStep
  <1>2. /\ post' \in {"done", "complete"} => workload' = "completed"
        /\ post' = "complete" => instance' \in Torn
    <2>1. CASE UNCHANGED post
      BY <1>1, <2>1 DEF SoundCloud, OutcomeShape
    <2>2. CASE \E result \in Poll : StreamPolled(result)
      <3>1. PICK result \in Poll : StreamPolled(result)
        BY <2>2
      <3>2. post' = "done" => result = "completed"
        BY <3>1 DEF StreamPolled
      <3>3. post' # "complete"
        BY <3>1 DEF StreamPolled
      <3>4. result = "completed" => workload = "completed"
        BY <3>1, PolledCompleted DEF StreamPolled
      <3> QED
        BY <1>1, <3>2, <3>3, <3>4 DEF SoundCloud
    <2>3. CASE StreamTeardown
      BY <1>1, <2>3, TypeParts, TornDown DEF StreamTeardown, SoundCloud, OutcomeShape
    <2>4. CASE post' \notin {"done", "complete"}
      BY <2>4
    <2>5. CASE PostStep
      BY <2>2, <2>3, <2>4, <2>5 DEF PostStep, PostCreate, PostProvision, PostMark, PostFailed,
         StreamLoop, StreamDeadline, StreamComplete, StreamFail
    <2>6. CASE \E g \in Get : GetStep(g)
      BY <2>1, <2>6 DEF postVars, GetStep, GetSettled, GetUnsettled, GetAbandon, GetPolled,
         GetRecheckFinal, GetRecheckOpen, GetTeardown, GetWrite, GetWriteFails
    <2>7. CASE \E r \in Report : ReportStep(r)
      BY <2>1, <2>7 DEF postVars, ReportStep, ReportAccepted, ReportWritten, ReportLost
    <2>8. CASE Disconnect \/ PostKilled \/ WorkloadEnds \/ GrowStale \/ UNCHANGED burstVars
      BY <2>1, <2>4, <2>8 DEF Disconnect, PostKilled, WorkloadEnds, GrowStale, burstVars, postVars
    <2> QED
      BY <2>5, <2>6, <2>7, <2>8 DEF BurstNext
  <1>3. ASSUME NEW h \in Get, get'[h].pc \in Finalizing
        PROVE  /\ get'[h].poll = "completed" => workload' = "completed"
               /\ get'[h].pc = "write" => instance' \in Torn
    <2>1. CASE get'[h] = get[h]
      <3>1. post # "provision"
        BY <1>3, <2>1 DEF PostShape, IdleGet, Finalizing
      <3> QED
        BY <1>1, <1>3, <2>1, <3>1 DEF SoundCloud, OutcomeShape
    <2>2. ASSUME NEW g \in Get, GetStep(g)
          PROVE  /\ get'[h].poll = "completed" => workload' = "completed"
                 /\ get'[h].pc = "write" => instance' \in Torn
      <3>1. CASE h = g /\ Enters(g)
        <4>1. get'[h].poll = "completed" => workload = "completed"
          BY <3>1, PolledCompleted DEF Enters
        <4> QED
          BY <1>1, <3>1, <4>1 DEF Enters, SoundCloud
      <3>2. CASE h = g /\ Advances(g)
        BY <1>1, <3>2 DEF Advances, OutcomeShape, SoundCloud
      <3> QED
        BY <1>3, <2>1, <2>2, <3>1, <3>2, GetMoves DEF Leaves, Waits
    <2>3. CASE PostStep
      BY <2>1, <2>3 DEF PostStep, PostCreate, PostProvision, PostMark, PostFailed, StreamLoop,
         StreamDeadline, StreamPolled, StreamTeardown, StreamComplete, StreamFail, getVars
    <2>4. CASE \E r \in Report : ReportStep(r)
      BY <2>1, <2>4 DEF ReportStep, ReportAccepted, ReportWritten, ReportLost, getVars
    <2>5. CASE Disconnect \/ PostKilled \/ WorkloadEnds \/ GrowStale \/ UNCHANGED burstVars
      BY <2>1, <2>5 DEF Disconnect, PostKilled, WorkloadEnds, GrowStale, getVars, burstVars
    <2> QED
      BY <2>2, <2>3, <2>4, <2>5 DEF BurstNext
  <1>4. job'.status = "completed" => job'.result
    BY <1>1 DEF SoundWrites, OutcomeShape
  <1> QED
    BY <1>2, <1>3, <1>4 DEF OutcomeShape

LEMMA SoundStep ==
    ASSUME Sound, [BurstNext]_burstVars
    PROVE  Sound'
  <1>1. Shaped' /\ OutcomeShape'
    BY TypesStep, ShapeStep, OutcomeStep DEF Sound, Shaped
  <1>2. SoundWrites /\ SoundCloud
    BY WritesStep, CloudStep DEF Sound, Shaped
  <1>3. job.status = "completed" => post # "provision"
    BY DEF Sound, Shaped, PostShape
  <1>4. CompletedTornDown'
    BY <1>2, <1>3 DEF Sound, SoundWrites, SoundCloud, CompletedTornDown, Torn
  <1> QED
    BY <1>1, <1>4 DEF Sound

LEMMA SoundAlways == BurstSpec => []Sound
  <1>1. BurstInit => Sound
    BY InitInv DEF BurstInv, Sound, Shaped
  <1>2. Sound /\ [BurstNext]_burstVars => Sound'
    BY SoundStep
  <1> QED
    BY <1>1, <1>2, PTL DEF BurstSpec

\* CompletedTornDown, whoever of stream, recoveries and reports is first.
THEOREM CompletionTearsDown == BurstSpec => []CompletedTornDown
  <1>1. Sound => CompletedTornDown
    BY DEF Sound
  <1> QED
    BY <1>1, SoundAlways, PTL

-----------------------------------------------------------------------------
(* How long an answer stands                                               *)

\* The mishaps only grow, and by one.
LEMMA MishapsGrow ==
    ASSUME [BurstNext]_burstVars
    PROVE  mishaps' = mishaps \/ mishaps' = mishaps + 1
  BY DEF Mishap, TryFailBurstJob, BurstNext, PostStep, PostCreate, PostProvision, PostMark,
     PostFailed, StreamLoop, StreamDeadline, StreamPolled, StreamTeardown, StreamComplete,
     StreamFail, GetStep, GetSettled, GetUnsettled, GetAbandon, GetPolled,
     GetRecheckFinal, GetRecheckOpen, GetTeardown, GetWrite, GetWriteFails,
     ReportStep, ReportAccepted, ReportWritten, ReportLost,
     Disconnect, PostKilled, WorkloadEnds, GrowStale, burstVars

\* With the outcome settled nobody gets as far as to write one, unless the
\* second look at the row fails.
LEMMA SettledStep ==
    ASSUME BurstTypeOK, NEW outcome \in Terminal, Settled(outcome),
           [BurstNext]_burstVars, UNCHANGED mishaps
    PROVE  UNCHANGED <<job, post, report>>
           /\ \A g \in Get : get'[g].pc \notin {"teardown", "write", "abandon"}
  <1> USE DEF Settled
  <1>0. get \in [Get -> {IdleGet} \cup Gets] /\ IdleGet \in {IdleGet} \cup Gets
        /\ mishaps \in Nat /\ job.status \in Terminal
    BY TypeParts
  <1>1. CASE UNCHANGED <<job, post, report, get>>
    BY <1>1
  <1>2. ~PostStep /\ ~Disconnect /\ ~PostKilled
    BY DEF Over, PostStep, PostCreate, PostProvision, PostMark, PostFailed, StreamLoop,
       StreamDeadline, StreamPolled, StreamTeardown, StreamComplete, StreamFail,
       Disconnect, PostKilled
  <1>3. ASSUME NEW r \in Report
        PROVE  ~ReportStep(r)
    BY <1>0 DEF Terminal, ReportStep, ReportAccepted, ReportWritten, ReportLost
  <1>4. ~Mishap
    BY <1>0 DEF Mishap
  <1>5. ASSUME NEW g \in Get, GetStep(g)
        PROVE  UNCHANGED <<job, post, report>>
               /\ \A h \in Get : get'[h].pc \notin {"teardown", "write", "abandon"}
    <2>1. CASE GetSettled(g)
      BY <1>1, <2>1 DEF GetSettled, getVars, postVars
    <2>2. CASE \E result \in Poll : GetPolled(g, result)
      <3>1. PICK result \in Poll : GetPolled(g, result)
        BY <2>2
      <3>2. get[g] \in Gets
        BY <1>0, <3>1, AtWork DEF GetPolled, GetState
      <3> DEFINE next == [get[g] EXCEPT !.pc = "recheck", !.poll = result]
      <3>3. next \in Gets /\ next.pc = "recheck"
        <4>1. \A s \in Gets : LET n == [s EXCEPT !.pc = "recheck", !.poll = result]
                              IN  n \in Gets /\ n.pc = "recheck"
          BY DEF Gets, GetState
        <4> QED
          BY <3>2, <4>1
      <3>4. GoOn(g, next) \/ GoOn(g, IdleGet)
        BY <3>1 DEF GetPolled
      <3> HIDE DEF next
      <3>5. /\ get'[g] \in {next, IdleGet}
            /\ \A h \in Get \ {g} : get'[h] = get[h]
        BY <1>0, <3>3, <3>4, GoesOn
      <3> QED
        BY <3>1, <3>3, <3>5 DEF GetPolled, IdleGet, postVars
    <2>3. CASE GetRecheckFinal(g)
      <3>1. /\ get'[g] = IdleGet
            /\ \A h \in Get \ {g} : get'[h] = get[h]
        BY <1>0, <2>3, GoesOn DEF GetRecheckFinal, Release
      <3> QED
        BY <2>3, <3>1 DEF GetRecheckFinal, IdleGet, postVars
    <2> QED
      BY <1>0, <1>4, <1>5, <2>1, <2>2, <2>3 DEF Terminal, GetStep, GetUnsettled, GetAbandon,
         GetRecheckOpen, GetTeardown, GetWrite, GetWriteFails
  <1>6. CASE WorkloadEnds \/ GrowStale \/ UNCHANGED burstVars
    BY <1>1, <1>6 DEF WorkloadEnds, GrowStale, burstVars, postVars, getVars
  <1> QED
    BY <1>2, <1>3, <1>5, <1>6 DEF BurstNext

\* OutcomeLasts: the outcome that nobody is about to write over is what clients
\* are answered for ever, or until a call fails.
THEOREM OutcomesLast == BurstSpec => OutcomeLasts
  <1>1. ASSUME NEW outcome \in Terminal, NEW n \in 0..MishapBound
        PROVE  BurstSpec =>
                  [](Settled(outcome) /\ mishaps = n => [](mishaps = n => Answers(outcome)))
    <2> DEFINE Lasting == (Settled(outcome) /\ mishaps = n) \/ mishaps > n
    <2>1. Sound /\ Lasting /\ [BurstNext]_burstVars => Lasting'
      <3> SUFFICES ASSUME Sound, Lasting, [BurstNext]_burstVars PROVE Lasting'
        OBVIOUS
      <3>1. mishaps \in Nat /\ n \in Nat /\ BurstTypeOK
        BY BurstAssumption, TypeParts DEF Sound, Shaped
      <3>2. CASE mishaps' = n /\ mishaps = n
        <4>1. Settled(outcome)
          BY <3>1, <3>2
        <4>2. UNCHANGED <<job, post, report>>
              /\ \A g \in Get : get'[g].pc \notin {"teardown", "write", "abandon"}
          BY <3>1, <3>2, <4>1, SettledStep
        <4> QED
          BY <3>2, <4>1, <4>2 DEF Settled
      <3>3. CASE mishaps' > n
        BY <3>3
      <3> QED
        BY <3>1, <3>2, <3>3, MishapsGrow
    <2>2. Settled(outcome) /\ mishaps = n => Lasting
      OBVIOUS
    <2>3. Sound /\ Lasting => (mishaps = n => Answers(outcome))
      <3> SUFFICES ASSUME Sound, Lasting, mishaps = n PROVE Answers(outcome)
        OBVIOUS
      <3>1. Settled(outcome)
        BY BurstAssumption
      <3> QED
        BY <3>1 DEF Settled, Answers, Sound, OutcomeShape
    <2> HIDE DEF Lasting
    <2> QED
      BY <2>1, <2>2, <2>3, SoundAlways, PTL DEF BurstSpec
  <1> QED
    BY <1>1 DEF OutcomeLasts

-----------------------------------------------------------------------------
(* Who may leave an instance behind                                        *)

\* Whoever writes a final status has torn the instance down, gives up a stale
\* job, has none to tear down, or is the POST that never opened its stream.
TornShape ==
    /\ post \in {"complete", "fail"} => instance \in Torn
    /\ \A g \in Get : get[g].pc = "abandon" => stale
    /\ job.placement = "puppy" => instance # "up"
    /\ OrphanExplained

FinalWrites ==
    job'.status \in Terminal /\ job.status \notin Terminal
        => instance' # "up" \/ stale \/ post' = "refused"

LEMMA FinalStep ==
    ASSUME Sound, TornShape, [BurstNext]_burstVars
    PROVE  FinalWrites
  <1> USE DEF Sound, Shaped
  <1>0. job \in Jobs /\ mishaps \in 0..MishapBound
    BY TypeParts
  <1>1. CASE UNCHANGED job
    BY <1>1 DEF FinalWrites
  <1>2. CASE PostCreate
    <2>1. job'.status \in {"running", "provisioning"}
      BY <1>0, <1>2, CreateWrites DEF PostCreate
    <2> QED
      BY <2>1 DEF FinalWrites, Terminal
  <1>3. CASE PostMark
    <2>1. CASE markBurstProvisioned
      <3>1. job'.status = "running"
        BY <1>0, <2>1, MarkWrites
      <3> QED
        BY <3>1 DEF FinalWrites, Terminal
    <2> QED
      BY <1>1, <1>3, <2>1 DEF PostMark
  <1>4. CASE PostFailed
    BY <1>4 DEF PostFailed, FinalWrites
  <1>5. CASE StreamFail \/ StreamComplete
    BY <1>5 DEF StreamFail, StreamComplete, TornShape, FinalWrites, Torn
  <1>6. ASSUME NEW g \in Get, GetStep(g)
        PROVE  FinalWrites
    <2>1. CASE GetAbandon(g)
      BY <2>1 DEF GetAbandon, TornShape, FinalWrites
    <2>2. CASE GetWrite(g) \/ GetWriteFails(g)
      BY <2>2 DEF GetWrite, GetWriteFails, OutcomeShape, Finalizing, FinalWrites, Torn
    <2> QED
      BY <1>1, <1>6, <2>1, <2>2 DEF GetStep, GetSettled, GetUnsettled, GetPolled,
         GetRecheckFinal, GetRecheckOpen, GetTeardown
  <1>7. ASSUME NEW r \in Report, ReportStep(r)
        PROVE  FinalWrites
    <2>1. CASE ReportWritten(r) \/ ReportLost(r)
      BY <2>1 DEF ReportWritten, ReportLost, PostShape, TornShape, FinalWrites
    <2> QED
      BY <1>1, <1>7, <2>1 DEF ReportStep, ReportAccepted
  <1>8. CASE \/ PostProvision \/ StreamLoop \/ StreamDeadline \/ StreamTeardown
             \/ \E result \in Poll : StreamPolled(result)
    BY <1>1, <1>8 DEF PostProvision, StreamLoop, StreamDeadline, StreamTeardown, StreamPolled
  <1>9. CASE Disconnect \/ PostKilled \/ WorkloadEnds \/ GrowStale \/ UNCHANGED burstVars
    BY <1>1, <1>9 DEF Disconnect, PostKilled, WorkloadEnds, GrowStale, burstVars
  <1> QED
    BY <1>2, <1>3, <1>4, <1>5, <1>6, <1>7, <1>8, <1>9 DEF BurstNext, PostStep

\* Before the write of an outcome the stream has torn the instance down.
LEMMA StreamTorn ==
    ASSUME Sound, TornShape, [BurstNext]_burstVars
    PROVE  post' \in {"complete", "fail"} => instance' \in Torn
  <1>1. SoundCloud
    BY CloudStep DEF Sound, Shaped
  <1>2. CASE UNCHANGED post
    BY <1>1, <1>2 DEF TornShape, SoundCloud
  <1>3. CASE StreamTeardown
    BY <1>3, TypeParts, TornDown DEF StreamTeardown, Sound, Shaped
  <1>4. CASE PostStep
    BY <1>3, <1>4 DEF PostStep, PostCreate, PostProvision, PostMark, PostFailed,
       StreamLoop, StreamDeadline, StreamPolled, StreamComplete, StreamFail
  <1>5. CASE \E g \in Get : GetStep(g)
    BY <1>2, <1>5 DEF postVars, GetStep, GetSettled, GetUnsettled, GetAbandon, GetPolled,
       GetRecheckFinal, GetRecheckOpen, GetTeardown, GetWrite, GetWriteFails
  <1>6. CASE \E r \in Report : ReportStep(r)
    BY <1>2, <1>6 DEF postVars, ReportStep, ReportAccepted, ReportWritten, ReportLost
  <1>7. CASE Disconnect \/ PostKilled \/ WorkloadEnds \/ GrowStale \/ UNCHANGED burstVars
    BY <1>2, <1>7 DEF Disconnect, PostKilled, WorkloadEnds, GrowStale, burstVars, postVars
  <1> QED
    BY <1>4, <1>5, <1>6, <1>7 DEF BurstNext

\* Whoever gives a job up has found it stale, and stale it stays.
LEMMA AbandonStale ==
    ASSUME Sound, TornShape, [BurstNext]_burstVars
    PROVE  (stale => stale') /\ \A h \in Get : get'[h].pc = "abandon" => stale'
  <1>1. stale => stale'
    BY DEF BurstNext, PostStep, PostCreate, PostProvision, PostMark, PostFailed, StreamLoop,
       StreamDeadline, StreamPolled, StreamTeardown, StreamComplete, StreamFail,
       GetStep, GetSettled, GetUnsettled, GetAbandon, GetPolled,
       GetRecheckFinal, GetRecheckOpen, GetTeardown, GetWrite, GetWriteFails,
       ReportStep, ReportAccepted, ReportWritten, ReportLost,
       Disconnect, PostKilled, WorkloadEnds, GrowStale, burstVars
  <1>2. CASE UNCHANGED get
    BY <1>1, <1>2 DEF TornShape
  <1>3. ASSUME NEW g \in Get, GetStep(g), NEW h \in Get, get'[h].pc = "abandon"
        PROVE  stale'
    <2>1. CASE h = g
      BY <1>1, <1>3, <2>1, GetMoves
         DEF Sound, Shaped, TornShape, Enters, Advances, Leaves, Waits, Finalizing, IdleGet
    <2>2. CASE h # g
      BY <1>1, <1>3, <2>2, GetMoves DEF Sound, Shaped, TornShape
    <2> QED
      BY <2>1, <2>2
  <1>4. CASE PostStep
    BY <1>1, <1>2, <1>4 DEF PostStep, PostCreate, PostProvision, PostMark, PostFailed, StreamLoop,
       StreamDeadline, StreamPolled, StreamTeardown, StreamComplete, StreamFail, getVars
  <1>5. CASE \E r \in Report : ReportStep(r)
    BY <1>1, <1>2, <1>5 DEF ReportStep, ReportAccepted, ReportWritten, ReportLost, getVars
  <1>6. CASE Disconnect \/ PostKilled \/ WorkloadEnds \/ GrowStale \/ UNCHANGED burstVars
    BY <1>1, <1>2, <1>6 DEF Disconnect, PostKilled, WorkloadEnds, GrowStale, getVars, burstVars
  <1> QED
    BY <1>1, <1>3, <1>4, <1>5, <1>6 DEF BurstNext

\* Only provisioning brings an instance up, and a POST that was refused stays so.
LEMMA UpStep ==
    ASSUME BurstTypeOK, [BurstNext]_burstVars
    PROVE  /\ instance' = "up" => instance = "up" \/ post = "provision"
           /\ post = "refused" => post' = "refused"
  <1> USE DEF postVars, Over
  <1>0. instance \in Instances
    BY TypeParts
  <1>1. CASE UNCHANGED <<instance, post>>
    BY <1>1
  <1>2. CASE PostProvision
    BY <1>2 DEF PostProvision
  <1>3. CASE StreamTeardown
    BY <1>0, <1>3, TornDown DEF StreamTeardown, Torn
  <1>4. CASE PostStep
    BY <1>2, <1>3, <1>4 DEF PostStep, PostCreate, PostMark, PostFailed, StreamLoop,
       StreamDeadline, StreamPolled, StreamComplete, StreamFail
  <1>5. ASSUME NEW g \in Get, GetStep(g)
        PROVE  /\ instance' = "up" => instance = "up" \/ post = "provision"
               /\ post = "refused" => post' = "refused"
    <2>1. CASE GetTeardown(g)
      BY <1>0, <2>1, TornDown DEF GetTeardown, Torn
    <2> QED
      BY <1>1, <1>5, <2>1 DEF GetStep, GetSettled, GetUnsettled, GetAbandon, GetPolled,
         GetRecheckFinal, GetRecheckOpen, GetWrite, GetWriteFails
  <1>6. CASE \E r \in Report : ReportStep(r)
    BY <1>1, <1>6 DEF ReportStep, ReportAccepted, ReportWritten, ReportLost
  <1>7. CASE Disconnect \/ PostKilled \/ WorkloadEnds \/ GrowStale \/ UNCHANGED burstVars
    BY <1>1, <1>7 DEF Disconnect, PostKilled, WorkloadEnds, GrowStale, burstVars
  <1> QED
    BY <1>4, <1>5, <1>6, <1>7 DEF BurstNext

LEMMA TornStep ==
    ASSUME Sound, TornShape, [BurstNext]_burstVars
    PROVE  TornShape'
  <1>1. FinalWrites /\ SoundWrites
    BY FinalStep, WritesStep
  <1>2. post' \in {"complete", "fail"} => instance' \in Torn
    BY StreamTorn
  <1>3. (stale => stale') /\ \A g \in Get : get'[g].pc = "abandon" => stale'
    BY AbandonStale
  <1>4. /\ instance' = "up" => instance = "up" \/ post = "provision"
        /\ post = "refused" => post' = "refused"
    BY UpStep DEF Sound, Shaped
  <1>5. post = "provision" => job.placement # "puppy" /\ job.status \notin Terminal
    BY DEF Sound, Shaped, PostShape, Terminal
  <1>6. job'.placement = "puppy" => instance' # "up"
    BY <1>1, <1>4, <1>5 DEF TornShape, SoundWrites
  <1>7. OrphanExplained'
    <2> SUFFICES ASSUME job'.status \in Terminal, instance' = "up"
                 PROVE  post' = "refused" \/ stale'
      BY DEF OrphanExplained
    <2>1. CASE job.status \in Terminal
      BY <1>3, <1>4, <1>5, <2>1 DEF TornShape, OrphanExplained
    <2>2. CASE job.status \notin Terminal
      BY <1>1, <1>3, <2>2 DEF FinalWrites
    <2> QED
      BY <2>1, <2>2
  <1> QED
    BY <1>2, <1>3, <1>6, <1>7 DEF TornShape

\* OrphanExplained: an instance that outlives its job untouched had a POST that
\* failed before its stream, or its job was given up as stale.
THEOREM OrphansAreExplained == BurstSpec => []OrphanExplained
  <1>1. BurstInit => Sound /\ TornShape
    <2> SUFFICES ASSUME BurstInit PROVE Sound /\ TornShape
      OBVIOUS
    <2>1. TornShape
      BY DEF BurstInit, TornShape, OrphanExplained, IdleGet
    <2> QED
      BY <2>1, InitInv DEF BurstInv, Sound, Shaped
  <1>2. (Sound /\ TornShape) /\ [BurstNext]_burstVars => (Sound /\ TornShape)'
    BY SoundStep, TornStep
  <1>3. Sound /\ TornShape => OrphanExplained
    BY DEF TornShape
  <1> QED
    BY <1>1, <1>2, <1>3, PTL DEF BurstSpec

=============================================================================
