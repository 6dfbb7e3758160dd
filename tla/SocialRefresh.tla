---------------------------- MODULE SocialRefresh ----------------------------
(***************************************************************************)
(* The preference layer of one user: the table SocialRefreshJob as a queue *)
(* of deep scrapes and recomputes, the media assets as a second one        *)
(* (scan-store.ts), the scheduled routes that drain them in invocations    *)
(* that overlap, and the requests of the user and the sweep that re-arm    *)
(* jobs.  What a request enqueues after a look at the queue is on its way  *)
(* (`sent`) until it lands.                                                *)
(*                                                                         *)
(* A step is one function of scan-store.ts with what the route does on its *)
(* return; the write of the scan's result (updateDeepTier) goes with the   *)
(* one before or after it.  The order of the claims (priority, nextRunAt)  *)
(* is left open.                                                           *)
(***************************************************************************)
EXTENDS Naturals, FiniteSets

CONSTANTS
    Platform,        \* the user's connected accounts with a deep scrape
    FeedPlatform,            \* those the sweep and the polls refresh: all but LinkedIn
    Asset,           \* media that the posts can bring
    Question,
    ArchiveRun, RecomputeRun, MediaRun,  \* invocations of the three routes
    TopRung,         \* rungs of the ladder FIRST_TARGET, + STEP, .. CEILING
    AttemptCeiling,  \* attempts a job is given up after: 5
    ShowThreshold,   \* SHOW_THRESHOLD, in questions
    MediaBatch,      \* ASSETS_PER_RUN
    Requests,        \* which requests this instance has
    RequestBound,    \* bound on requests, sweeps and deployments
    FaultBound,      \* bound on killed invocations and failed calls
    NoKey

ASSUME SocialAssumption ==
    /\ FeedPlatform \subseteq Platform
    /\ \A S \in {Platform, Asset, Question, RecomputeRun} : IsFiniteSet(S)
    /\ ArchiveRun \cap RecomputeRun = {}
    /\ Platform \cap {"scan", "latest"} = {}
    /\ NoKey \notin Platform \cup {"scan", "latest"} \cup ArchiveRun \cup RecomputeRun
    /\ {TopRung, AttemptCeiling, MediaBatch} \subseteq Nat \ {0}
    /\ Requests \subseteq {"connect", "linkedin", "manual", "sweep", "poll", "deploy"}
    /\ {ShowThreshold, RequestBound, FaultBound} \subseteq Nat

\* The publicId of a recompute job: the scan's id, or "latest".
Recompute == {"scan", "latest"}
Key == Platform \cup Recompute
Run == ArchiveRun \cup RecomputeRun

\* metadata: a climb of the ladder; a refresh for a scan or of the sweep.
Kind == {"climb", "refresh", "sweep", "recompute"}

VARIABLES
    job,       \* the rows of SocialRefreshJob
    sent,      \* enqueues on their way: <<key, kind>>
    run,       \* the invocations of social-archive and preference-recompute
    media,     \* the invocations of media-analyze
    archived,  \* platforms with content items
    asset,     \* SocialMediaAsset.analysisStatus
    profile,   \* the row of UserPreferenceProfile, and the media it was made from
    building,  \* the poll that is at its fast pass, having found no profile
    layer,     \* preferenceStatus in the scan's result
    fastShown, \* the result's preferenceProfile is that of a fast pass
    lost,      \* history: a write has gone over one its writer has not seen
    faults, requests

jobVars     == <<job, run>>
countVars   == <<faults, requests>>
profileVars == <<profile, building, layer, fastShown>>
socialVars  == <<jobVars, sent, media, archived, asset, profileVars, lost, countVars>>

Row == [ status : {"none", "queued", "processing", "completed", "failed"},
         attempts : 0 .. AttemptCeiling, kind : Kind, rung : 1 .. TopRung ]

\* An invocation: its job's row as it was read, and what came of it since.
\* `overtaken`: another has written the row since the claim.  `open`: media
\* were not analyzed at the read.  `stale`: the profile was saved since, or
\* could not be read.
Invocation ==
    [ pc : {"idle", "work", "kick", "finish", "synth", "save"},
      key : Key \cup {NoKey}, kind : Kind, rung : 1 .. TopRung,
      attempts : 0 .. AttemptCeiling, overtaken : BOOLEAN,
      depth : {"more", "short", "done"}, read : SUBSET Asset,
      answers : SUBSET Question, open : BOOLEAN, stale : BOOLEAN ]

NoJob == [ pc |-> "idle", key |-> NoKey, kind |-> "climb", rung |-> 1, attempts |-> 0,
          overtaken |-> FALSE, depth |-> "done", read |-> {}, answers |-> {},
          open |-> FALSE, stale |-> FALSE ]

NotBuilding == [on |-> FALSE, answers |-> {}, pending |-> FALSE]

SocialTypeOK ==
    /\ job \in [Key -> Row]
    /\ sent \subseteq Key \X Kind
    /\ run \in [Run -> Invocation]
    /\ media \in [MediaRun -> [on : BOOLEAN, batch : SUBSET Asset, affected : BOOLEAN]]
    /\ archived \subseteq Platform
    /\ asset \in [Asset -> {"absent", "pending", "processing", "completed", "failed"}]
    /\ profile \in [ version : {"none", "fast", "old", "current"}, settled : BOOLEAN,
                     read : SUBSET Asset, answers : SUBSET Question ]
    /\ building \in [ on : BOOLEAN, answers : SUBSET Question, pending : BOOLEAN ]
    /\ fastShown \in BOOLEAN
    /\ layer \in {"none", "running", "completed", "failed"}
    /\ lost \in BOOLEAN
    /\ faults \in 0 .. FaultBound /\ requests \in 0 .. RequestBound

SocialInit ==
    /\ job = [k \in Key |-> [ status |-> "none", attempts |-> 0,
                              kind |-> "climb", rung |-> 1 ]]
    /\ sent = {} /\ run = [r \in Run |-> NoJob]
    /\ media = [m \in MediaRun |-> [on |-> FALSE, batch |-> {}, affected |-> FALSE]]
    /\ archived = {} /\ asset = [a \in Asset |-> "absent"]
    /\ profile = [version |-> "none", settled |-> FALSE, read |-> {}, answers |-> {}]
    /\ building = NotBuilding /\ layer = "none" /\ fastShown = FALSE /\ lost = FALSE
    /\ faults = 0 /\ requests = 0

-----------------------------------------------------------------------------
(* The queue                                                               *)

\* One more attempt; past the ceiling they need not be told apart.
OneMore(n) == IF n < AttemptCeiling THEN n + 1 ELSE n

Unfinished(keys) == \E k \in keys : job[k].status \in {"queued", "processing"}

\* hasPendingPreferenceWork.
Pending == Unfinished(DOMAIN job)

\* Invocation r has claimed a job and has not settled it.
Working(r) == run[r].pc # "idle"

\* The invocations that work on k find their row written by another.
Overtake(k, by) ==
    [r \in Run |-> IF Working(r) /\ run[r].key = k /\ r # by
                   THEN [run[r] EXCEPT !.overtaken = TRUE] ELSE run[r]]

\* enqueueSocialRefreshJobs, of one job: create the row or re-arm it.
Enqueue(k, kind, rung, reset) ==
    job' = [job EXCEPT ![k] =
          [ status |-> "queued", kind |-> kind, rung |-> rung,
            attempts |-> IF reset THEN 0 ELSE @.attempts ]]

\* completeSocialRefreshJob, by id.
CompleteJob(k) == job' = [job EXCEPT ![k].status = "completed"]

\* Mutant of FailJob: a job is never given up.
RetryJob(k) == job' = [job EXCEPT ![k].status = "queued"]

\* failSocialRefreshJob, by id: back into the queue, or given up.
FailJob(k) ==
    job' = [job EXCEPT ![k].status =
               IF job[k].attempts >= AttemptCeiling THEN "failed" ELSE "queued"]

\* Invocation r is over; it was the last to write its job's row.
LeaveJob(r) == run' = [Overtake(run[r].key, r) EXCEPT ![r] = NoJob]

\* Invocation r goes on at pc.
GoOn(r, pc) == run' = [run EXCEPT ![r].pc = pc]

\* The jobs of r's route.
Drains(r) == IF r \in ArchiveRun THEN Platform ELSE Recompute

\* Mutant of ClaimJob: the update does not look at the status again.
ClaimFoundJob(r, k) ==
    /\ run[r].pc = "idle"
    /\ k \in Drains(r)
    /\ job[k].status \in {"queued", "processing"}
    /\ job' = [job EXCEPT ![k].status = "processing", ![k].attempts = OneMore(@)]
    /\ run' = [run EXCEPT ![r] =
          [NoJob EXCEPT !.pc = "work", !.key = k, !.kind = job[k].kind,
                       !.rung = job[k].rung, !.attempts = OneMore(job[k].attempts)]]
    /\ UNCHANGED <<sent, media, archived, asset, profileVars, lost, countVars>>

\* claimSocialRefreshJobs: a queued job of the route's platforms, if it still is.
ClaimJob(r, k) ==
    /\ run[r].pc = "idle"
    /\ k \in Drains(r)
    /\ job[k].status = "queued"
    /\ job' = [job EXCEPT ![k].status = "processing", ![k].attempts = OneMore(@)]
    /\ run' = [run EXCEPT ![r] =
          [NoJob EXCEPT !.pc = "work", !.key = k, !.kind = job[k].kind,
                       !.rung = job[k].rung, !.attempts = OneMore(job[k].attempts)]]
    /\ UNCHANGED <<sent, media, archived, asset, profileVars, lost, countVars>>

\* It finds none, and the invocation is over.
ClaimNothing(r) ==
    /\ run[r].pc = "idle" /\ \A k \in Drains(r) : job[k].status # "queued"
    /\ UNCHANGED socialVars

\* An enqueue of a request arrives.
Land(e) ==
    /\ e \in sent /\ sent' = sent \ {e}
    /\ Enqueue(e[1], e[2], 1, FALSE)
    /\ run' = Overtake(e[1], NoKey)
    /\ UNCHANGED <<media, archived, asset, profileVars, lost, countVars>>

\* The invocation is killed, or its last write fails and is swallowed.
KillRun(r) ==
    /\ Working(r) /\ run' = [run EXCEPT ![r] = NoJob]
    /\ faults < FaultBound /\ faults' = faults + 1
    /\ UNCHANGED <<job, sent, media, archived, asset, profileVars, lost, requests>>

\* A read of the database fails; its function swallows that and answers null
\* or [], as for a user who has nothing.
ReadSwallowed == faults < FaultBound /\ faults' = faults + 1

-----------------------------------------------------------------------------
(* social-archive: scrape, index, kick a recompute, and grow or finish     *)

\* No profile came back, or the scrape threw.
ScrapeFails(r) ==
    /\ r \in ArchiveRun /\ run[r].pc = "work"
    /\ FailJob(run[r].key) /\ LeaveJob(r)
    /\ UNCHANGED <<sent, media, archived, asset, profileVars, lost, countVars>>

\* A refresh of the sweep names no scan.
RecomputeKey(kind) == IF kind = "sweep" THEN "latest" ELSE "scan"

\* indexSocialArchive: new media are pending, known ones keep their analysis.
Index(platforms, new) ==
    /\ \A a \in new : asset[a] = "absent"
    /\ archived' = archived \cup platforms
    /\ asset' = [a \in Asset |-> IF a \in new THEN "pending" ELSE asset[a]]

\* A profile came back, with posts or none, and with the media they bring.
\* depth: moreAvailable, shortfallHasMore, or neither.
ScrapeAndIndex(r, posts, new, depth) ==
    /\ r \in ArchiveRun /\ run[r].pc = "work"
    /\ new # {} => posts
    /\ Index(IF posts THEN {run[r].key} ELSE {}, new)
    /\ run' = [run EXCEPT ![r].pc = "kick", ![r].depth = depth]
    /\ UNCHANGED <<job, sent, media, profileVars, lost, countVars>>

\* The recompute that the archive now calls for.
KickRecompute(r) ==
    LET k == RecomputeKey(run[r].kind)
    IN  /\ r \in ArchiveRun /\ run[r].pc = "kick"
        /\ Enqueue(k, "recompute", 1, FALSE)
        /\ run' = [Overtake(k, r) EXCEPT ![r].pc = "finish"]
        /\ UNCHANGED <<sent, media, archived, asset, profileVars, lost, countVars>>

\* What the route does with the job it has indexed.
Grows(i)  == i.kind = "climb" /\ i.depth = "more" /\ i.rung < TopRung
Falters(i) == i.kind = "climb" /\ i.depth = "short"

FinishArchive(r) ==
    LET i == run[r]
    IN  /\ r \in ArchiveRun /\ i.pc = "finish"
        /\ \/ Grows(i) /\ Enqueue(i.key, i.kind, i.rung + 1, TRUE)
           \/ Falters(i) /\ FailJob(i.key)
           \/ ~Grows(i) /\ ~Falters(i) /\ CompleteJob(i.key)
        /\ LeaveJob(r)
        /\ UNCHANGED <<sent, media, archived, asset, profileVars, lost, countVars>>

-----------------------------------------------------------------------------
(* preference-recompute: read, synthesize, save, finish                    *)

Analyzed == {a \in DOMAIN asset : asset[a] = "completed"}

\* Without an archive there is nothing to do; a scrape will enqueue again.
\* So ends the job as well whose read of the content items fails.
ReadNothing(r) ==
    /\ r \in RecomputeRun /\ run[r].pc = "work"
    /\ IF archived = {} THEN UNCHANGED faults ELSE ReadSwallowed
    /\ CompleteJob(run[r].key) /\ LeaveJob(r)
    /\ lost' = (lost \/ run[r].overtaken)
    /\ UNCHANGED <<sent, media, archived, asset, profileVars, requests>>

\* mediaPending is mediaTotal - mediaAnalyzed: failed and skipped ones count.
MediaOpen == \E a \in Asset : asset[a] \notin {"absent", "completed"}

\* The media analyses, the prior profile and the depth of the archive; those
\* whose read fails are none: no analysis, no prior answer, nothing pending.
ReadArchive(r) ==
    /\ r \in RecomputeRun /\ run[r].pc = "work" /\ archived # {}
    /\ \E read \in {Analyzed, {}}, answers \in {profile.answers, {}}, open \in {MediaOpen, FALSE} :
          /\ IF read = Analyzed /\ answers = profile.answers /\ open = MediaOpen
             THEN UNCHANGED faults ELSE ReadSwallowed
          /\ run' = [run EXCEPT ![r].pc = "synth", ![r].read = read, ![r].open = open,
                ![r].answers = answers, ![r].stale = (answers # profile.answers)]
    /\ UNCHANGED <<job, sent, media, archived, asset, profileVars, lost, requests>>

\* Vertex gives nothing, and at the ceiling the layer is given up as well;
\* or the route's code throws.
SynthesisFails(r) ==
    /\ run[r].pc = "synth"
    /\ FailJob(run[r].key) /\ LeaveJob(r)
    /\ layer' \in {layer, IF run[r].attempts >= AttemptCeiling THEN "failed" ELSE layer}
    /\ UNCHANGED <<sent, media, archived, asset, profile, building, fastShown, lost, countVars>>

\* Mutant of Synthesize: without keep-best.
SynthesizeAfresh(r, new) ==
    /\ run[r].pc = "synth"
    /\ run' = [run EXCEPT ![r].pc = "save", ![r].answers = new]
    /\ UNCHANGED <<job, sent, media, archived, asset, profileVars, lost, countVars>>

\* The new answers, and the prior ones where this run has none.  Not of the
\* questions of the model: the sensitive ones, and answers past the age cap.
Synthesize(r, new) ==
    /\ run[r].pc = "synth"
    /\ run' = [run EXCEPT ![r].pc = "save", ![r].answers = @ \cup new]
    /\ UNCHANGED <<job, sent, media, archived, asset, profileVars, lost, countVars>>

\* Revealed at the threshold or once the media are analyzed.
Revealed(i) == Cardinality(i.answers) >= ShowThreshold \/ ~i.open

\* The runs that have read the profile now hold an old one.
MarkStale(r) ==
    [s \in Run |-> IF s # r /\ run[s].pc \in {"synth", "save"}
                   THEN [run[s] EXCEPT !.stale = TRUE] ELSE run[s]]

SaveProfile(r) ==
    LET i == run[r]
    IN  /\ i.pc = "save"
        /\ profile' = [ version |-> "current", settled |-> Revealed(i),
                        read |-> i.read, answers |-> i.answers ]
        /\ lost' = (lost \/ i.stale)
        /\ run' = [MarkStale(r) EXCEPT ![r].pc = "finish"]
        /\ UNCHANGED <<job, sent, media, archived, asset, building, layer, fastShown, countVars>>

\* saveUserPreferenceProfile fails and returns null; the route goes on.
SaveFails(r) ==
    /\ run[r].pc = "save" /\ GoOn(r, "finish")
    /\ faults < FaultBound /\ faults' = faults + 1
    /\ UNCHANGED <<job, sent, media, archived, asset, profileVars, lost, requests>>

\* updateDeepTier, and the job is complete.
FinishRecompute(r) ==
    /\ r \in RecomputeRun /\ run[r].pc = "finish"
    /\ layer' = IF Revealed(run[r]) THEN "completed" ELSE "running"
    /\ fastShown' = FALSE
    /\ CompleteJob(run[r].key) /\ LeaveJob(r)
    /\ lost' = (lost \/ run[r].overtaken)
    /\ UNCHANGED <<sent, media, archived, asset, profile, building, countVars>>

-----------------------------------------------------------------------------
(* media-analyze: claim a batch, analyze, kick a recompute                 *)

PendingMedia == {a \in Asset : asset[a] = "pending"}

\* claimPendingMediaAssetsGlobal.
ClaimMedia(m, batch) ==
    /\ ~media[m].on /\ batch # {} /\ batch \subseteq PendingMedia
    /\ Cardinality(batch) <= MediaBatch
    /\ asset' = [a \in Asset |-> IF a \in batch THEN "processing" ELSE asset[a]]
    /\ media' = [media EXCEPT ![m] = [on |-> TRUE, batch |-> batch, affected |-> FALSE]]
    /\ UNCHANGED <<jobVars, sent, archived, profileVars, lost, countVars>>

\* processAsset, for one of the wave.
AnalyzeAsset(m, a, outcome) ==
    /\ a \in media[m].batch
    /\ asset' = [asset EXCEPT ![a] = outcome]
    /\ media' = [media EXCEPT ![m].batch = @ \ {a},
                              ![m].affected = @ \/ outcome = "completed"]
    /\ UNCHANGED <<jobVars, sent, archived, profileVars, lost, countVars>>

\* Mutant of FinishMedia: the media are analyzed, and nobody is told.
FinishMediaQuietly(m) ==
    /\ media[m].on /\ media[m].batch = {}
    /\ media' = [media EXCEPT ![m] = [on |-> FALSE, batch |-> {}, affected |-> FALSE]]
    /\ UNCHANGED <<jobVars, sent, archived, asset, profileVars, lost, countVars>>

\* After the waves, one recompute for the user whose media were completed.
FinishMedia(m) ==
    /\ media[m].on /\ media[m].batch = {}
    /\ IF media[m].affected
       THEN Enqueue("latest", "recompute", 1, FALSE) /\ run' = Overtake("latest", NoKey)
       ELSE UNCHANGED jobVars
    /\ media' = [media EXCEPT ![m] = [on |-> FALSE, batch |-> {}, affected |-> FALSE]]
    /\ UNCHANGED <<sent, archived, asset, profileVars, lost, countVars>>

KillMedia(m) ==
    /\ media[m].on
    /\ media' = [media EXCEPT ![m] = [on |-> FALSE, batch |-> {}, affected |-> FALSE]]
    /\ faults < FaultBound /\ faults' = faults + 1
    /\ UNCHANGED <<jobVars, sent, archived, asset, profileVars, lost, requests>>

-----------------------------------------------------------------------------
(* Requests                                                                *)

Ask(kind) ==
    /\ kind \in Requests
    /\ requests < RequestBound /\ requests' = requests + 1

Send(enqueues) == sent' = sent \cup enqueues

\* maybeEnqueueConnectDeepScrape, the start of a scan, a partner's scan: no gate.
Connect(p) ==
    /\ Ask("connect")
    /\ Enqueue(p, "climb", 1, FALSE) /\ run' = Overtake(p, NoKey)
    /\ UNCHANGED <<sent, media, archived, asset, profileVars, lost, faults>>

\* maybeEnqueueConnectRecompute.
ConnectLinkedIn ==
    /\ Ask("linkedin") /\ ~Pending /\ Send({<<"scan", "recompute">>})
    /\ UNCHANGED <<jobVars, media, archived, asset, profileVars, lost, faults>>

\* requeueOutdatedMediaAssets: those of an older version with a fresh URL.
RequeueMedia(old) ==
    /\ \A a \in old : asset[a] \in {"completed", "failed"}
    /\ asset' = [a \in Asset |-> IF a \in old THEN "pending" ELSE asset[a]]

\* enqueueManualRefresh: thin platforms climb, deep ones are refreshed.
ManualRefresh(thin, old) ==
    /\ Ask("manual") /\ ~Pending /\ Platform # {} /\ Platform \ archived \subseteq thin
    /\ Send({<<p, IF p \in thin THEN "climb" ELSE "refresh">> : p \in Platform}
            \cup {<<"scan", "recompute">>})
    /\ RequeueMedia(old)
    /\ UNCHANGED <<jobVars, media, archived, profileVars, lost, faults>>

\* social-refresh-sweep, of a stale archive with no deep scrape in flight.
Sweep(old) ==
    /\ Ask("sweep") /\ archived # {} /\ FeedPlatform # {} /\ ~Unfinished(FeedPlatform)
    /\ Send(FeedPlatform \X {"sweep"})
    /\ RequeueMedia(old)
    /\ UNCHANGED <<jobVars, media, archived, profileVars, lost, faults>>

\* GET preferences, the poll of the dashboard: LinkedIn is connected and none
\* of its posts are there.  The poll goes on as below.
PollLinkedIn(p) ==
    /\ Ask("poll") /\ p \in Platform \ (FeedPlatform \cup archived) /\ ~Pending
    /\ Send({<<p, "climb">>})
    /\ UNCHANGED <<jobVars, media, archived, asset, profileVars, lost, faults>>

\* It answers with the scan's result, and does nothing, once that is final.
Answered == layer = "failed" \/ fastShown

\* It serves the stored profile.  One of an old version asks for a recompute,
\* whatever is in flight; a stale archive for a refresh, if nothing is.
PollServe(refresh) ==
    /\ Ask("poll") /\ ~Answered /\ profile.version # "none"
    /\ refresh \subseteq FeedPlatform \X {"refresh"}
    /\ refresh # {} => profile.version = "current" /\ archived # {} /\ ~Pending
    /\ Send(IF profile.version = "current" THEN refresh ELSE {<<"scan", "recompute">>})
    /\ layer' = IF profile.version = "current" /\ profile.settled
                THEN "completed" ELSE "running"
    /\ fastShown' = (profile.version = "fast")
    /\ UNCHANGED <<jobVars, media, archived, asset, profile, building, lost, faults>>

\* It finds no profile, or fails to read it: it asks for the first climbs, builds
\* the fast pass from what the scan has, indexes the evidence of that ..  (A
\* profile that another poll saves in between, and that it might then reuse, is
\* left out.)
PollBuild(fill, answers, evidence, new) ==
    /\ Ask("poll") /\ ~Answered /\ ~building.on
    /\ IF profile.version = "none" THEN UNCHANGED faults ELSE ReadSwallowed
    /\ fill \subseteq FeedPlatform \X {"climb"} /\ evidence \subseteq FeedPlatform
    /\ fill # {} => archived = {} /\ ~Pending
    /\ new # {} => evidence # {}
    /\ Send(fill) /\ Index(evidence, new)
    /\ building' = [on |-> TRUE, answers |-> answers, pending |-> Pending]
    /\ UNCHANGED <<jobVars, media, profile, layer, fastShown, lost>>

\* .. and saves it as the profile.
PollSave ==
    /\ building.on /\ building' = NotBuilding
    /\ profile' = [ version |-> "fast", settled |-> TRUE,
                    read |-> {}, answers |-> building.answers ]
    /\ layer' = IF building.pending \/ Cardinality(building.answers) < ShowThreshold
                THEN "running" ELSE "completed"
    /\ fastShown' = TRUE
    /\ lost' = (lost \/ profile.version # "none")
    /\ run' = MarkStale(NoKey)
    /\ UNCHANGED <<job, sent, media, archived, asset, countVars>>

\* A new PREFERENCE_SYNTHESIS_VERSION.
Deploy ==
    /\ Ask("deploy") /\ profile.version = "current"
    /\ profile' = [profile EXCEPT !.version = "old"]
    /\ UNCHANGED <<jobVars, sent, media, archived, asset, building, layer, fastShown, lost, faults>>

-----------------------------------------------------------------------------
RunStep(r) ==
    \/ ScrapeFails(r) \/ KickRecompute(r) \/ FinishArchive(r)
    \/ \E posts \in BOOLEAN, new \in SUBSET Asset, depth \in {"more", "short", "done"} :
          ScrapeAndIndex(r, posts, new, depth)
    \/ ReadNothing(r) \/ ReadArchive(r) \/ SynthesisFails(r)
    \/ \E new \in SUBSET Question : Synthesize(r, new)
    \/ SaveProfile(r) \/ FinishRecompute(r)

MediaStep(m) ==
    \/ FinishMedia(m)
    \/ \E a \in Asset, outcome \in {"completed", "failed"} :
          AnalyzeAsset(m, a, outcome)

RequestStep ==
    \/ \E p \in Platform : Connect(p) \/ PollLinkedIn(p)
    \/ ConnectLinkedIn \/ Deploy
    \/ \E old \in SUBSET Asset :
          Sweep(old) \/ \E thin \in SUBSET Platform : ManualRefresh(thin, old)
    \/ \E refresh \in SUBSET (FeedPlatform \X {"refresh"}) : PollServe(refresh)
    \/ \E fill \in SUBSET (FeedPlatform \X {"climb"}), answers \in SUBSET Question,
          evidence \in SUBSET FeedPlatform, new \in SUBSET Asset :
          PollBuild(fill, answers, evidence, new)

Arrival == PollSave \/ \E e \in sent : Land(e)

ClaimSome(r) == \E k \in Key : ClaimJob(r, k)
ClaimMediaSome(m) == \E batch \in SUBSET Asset : ClaimMedia(m, batch)

SocialNext ==
    \/ RequestStep \/ Arrival
    \/ \E r \in Run : RunStep(r) \/ ClaimSome(r) \/ ClaimNothing(r) \/ KillRun(r) \/ SaveFails(r)
    \/ \E m \in MediaRun : MediaStep(m) \/ ClaimMediaSome(m) \/ KillMedia(m)

SocialSpec == SocialInit /\ [][SocialNext]_socialVars

\* Requests arrive, time passes, and the Scheduler calls the routes for ever;
\* nothing is asked of the user, the sweep or the deployments.
FairSocialSpec ==
    /\ SocialSpec
    /\ WF_socialVars(Arrival)
    /\ \A r \in Run : WF_socialVars(RunStep(r)) /\ WF_socialVars(ClaimSome(r))
    /\ \A m \in MediaRun : WF_socialVars(MediaStep(m)) /\ WF_socialVars(ClaimMediaSome(m))

-----------------------------------------------------------------------------
(* Properties                                                              *)

\* The invocations with a job.
Busy == {r \in DOMAIN run : run[r].pc # "idle"}

\* A job is worked on by one invocation, until a request or another invocation
\* writes over its row (claimSocialRefreshJobs: "optimistic lock").
JobsExclusive ==
    \A r \in Busy : ~run[r].overtaken =>
        /\ job[run[r].key].status = "processing"
        /\ \A s \in Busy \ {r} : run[s].key = run[r].key => run[s].overtaken

\* Nothing is in flight for the user.
Quiet ==
    /\ ~Pending /\ sent = {} /\ ~building.on
    /\ Busy = {} /\ \A m \in MediaRun : ~media[m].on

\* When nothing is in flight, no recompute was given up, and no write has gone
\* over another, the profile was made from every medium analyzed so far
\* (media-analyze "a preference recompute is enqueued so synthesis upgrades").
ProfileCoversMedia ==
    (/\ Quiet /\ ~lost /\ faults = 0
     /\ \A k \in Recompute : job[k].status # "failed") => Analyzed \subseteq profile.read

\* "pivots never drop between runs" (preference-recompute, keep-best): a question
\* once answered stays answered, until a save goes over a profile its writer does
\* not know, for it was saved since the read, or the read failed and was taken
\* for no profile (getUserPreferenceProfile, `.. catch { return null }`).
PivotsNeverDrop == [][~lost' => profile.answers \subseteq profile'.answers]_socialVars

\* Unless an invocation is killed, the work in flight comes to an end: a manual
\* refresh is not refused for ever (enqueueManualRefresh, hasPendingPreferenceWork).
WorkSettles == Pending ~> (~Pending \/ faults > 0)

\* preference-recompute/route.ts: "once media is fully analyzed -- the FLOOR
\* that prevents a sparse account from building forever".
FloorReveals ==
    (/\ Quiet /\ faults = 0 /\ ~lost /\ profile.version = "current"
     /\ \A a \in Asset : asset[a] \in {"absent", "completed", "failed"})
        => profile.settled

\* Where FloorReveals does hold: with no medium failed and no recompute given up,
\* and, as there, no fault and no lost write (preference-recompute, mediaPending).
FloorRevealsAnalyzed ==
    (/\ Quiet /\ faults = 0 /\ ~lost /\ profile.version = "current"
     /\ \A k \in Recompute : job[k].status # "failed"
     /\ \A a \in Asset : asset[a] \in {"absent", "completed"})
        => profile.settled
=============================================================================
