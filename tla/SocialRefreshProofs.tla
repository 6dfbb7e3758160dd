------------------------- MODULE SocialRefreshProofs -------------------------
(***************************************************************************)
(* Proofs about SocialRefresh, for any accounts, media, questions,         *)
(* invocations, requests and faults.                                       *)
(***************************************************************************)
EXTENDS SocialRefresh, TLAPS

\* What an invocation is to the invariants below: one that has read the profile.
Reads(r) == run[r].pc \in {"synth", "save"}

-----------------------------------------------------------------------------
(* Types                                                                   *)

\* Overtake marks invocations, and changes nothing else of them.
LEMMA OvertakeType ==
    ASSUME SocialTypeOK, NEW k, NEW by
    PROVE  Overtake(k, by) \in [Run -> Invocation]
<1>. \A r \in Run : run[r] \in Invocation
    BY DEF SocialTypeOK
<1>. \A r \in Run : [run[r] EXCEPT !.overtaken = TRUE] \in Invocation
    BY DEF Invocation
<1>. QED  BY DEF Overtake

\* MarkStale likewise.
LEMMA MarkStaleType ==
    ASSUME SocialTypeOK, NEW by
    PROVE  MarkStale(by) \in [Run -> Invocation]
<1>. \A r \in Run : run[r] \in Invocation
    BY DEF SocialTypeOK
<1>. \A r \in Run : [run[r] EXCEPT !.stale = TRUE] \in Invocation
    BY DEF Invocation
<1>. QED  BY DEF MarkStale

LEMMA NoJobType == NoJob \in Invocation
<1>. 1 \in 1 .. TopRung /\ 0 \in 0 .. AttemptCeiling
    BY SocialAssumption
<1>. QED  BY DEF NoJob, Invocation, Kind

\* An invocation that leaves its job.
LEMMA LeaveJobType ==
    ASSUME SocialTypeOK, NEW r \in Run, LeaveJob(r)
    PROVE  run' \in [Run -> Invocation]
BY OvertakeType, NoJobType DEF LeaveJob

\* The writes of a job's row.
LEMMA JobWriteType ==
    ASSUME SocialTypeOK, NEW k \in Key
    PROVE  /\ CompleteJob(k) => job' \in [Key -> Row]
           /\ FailJob(k) => job' \in [Key -> Row]
           /\ \A kind \in Kind, rung \in 1 .. TopRung, reset \in BOOLEAN :
                 Enqueue(k, kind, rung, reset) => job' \in [Key -> Row]
<1>. /\ job \in [Key -> Row] /\ job[k] \in Row
    BY DEF SocialTypeOK
<1>. 0 \in 0 .. AttemptCeiling
    BY SocialAssumption
<1>1. CompleteJob(k) => job' \in [Key -> Row]
    BY DEF CompleteJob, Row
<1>2. FailJob(k) => job' \in [Key -> Row]
    BY DEF FailJob, Row
<1>3. ASSUME NEW kind \in Kind, NEW rung \in 1 .. TopRung, NEW reset \in BOOLEAN,
             Enqueue(k, kind, rung, reset)
      PROVE  job' \in [Key -> Row]
    <2>. [ status |-> "queued", kind |-> kind, rung |-> rung,
           attempts |-> IF reset THEN 0 ELSE job[k].attempts ] \in Row
        BY DEF Row
    <2>. QED  BY <1>3 DEF Enqueue
<1>. QED  BY <1>1, <1>2, <1>3

LEMMA KeyParts == Recompute \subseteq Key /\ Platform \subseteq Key
BY DEF Key

\* A working invocation holds a job of its route, and only recomputes read the
\* profile.
KeysOwn ==
    \A r \in Run :
        /\ Working(r) => run[r].key \in Drains(r)
        /\ Reads(r) => r \in RecomputeRun

TInv == SocialTypeOK /\ KeysOwn

LEMMA InitTyped == SocialInit => TInv
<1>. SUFFICES ASSUME SocialInit PROVE TInv
    OBVIOUS
<1>1. SocialTypeOK
    <2>. 1 \in 1 .. TopRung /\ 0 \in 0 .. AttemptCeiling /\ 0 \in 0 .. FaultBound
         /\ 0 \in 0 .. RequestBound
        BY SocialAssumption
    <2>. QED  BY NoJobType DEF SocialInit, SocialTypeOK, Row, Kind, NotBuilding
<1>2. KeysOwn
    BY DEF SocialInit, KeysOwn, Working, Reads, NoJob
<1>. QED  BY <1>1, <1>2 DEF TInv

\* What Overtake and MarkStale leave as it is.
LEMMA OvertakeKeeps ==
    ASSUME SocialTypeOK, NEW k, NEW by, NEW s \in Run
    PROVE  LET new == Overtake(k, by)[s]
           IN  /\ new.pc = run[s].pc /\ new.key = run[s].key /\ new.kind = run[s].kind
               /\ new.rung = run[s].rung /\ new.attempts = run[s].attempts
               /\ new.depth = run[s].depth /\ new.read = run[s].read
               /\ new.answers = run[s].answers /\ new.open = run[s].open
               /\ new.stale = run[s].stale
               /\ new.overtaken <=> run[s].overtaken \/ (Working(s) /\ run[s].key = k /\ s # by)
<1>. run[s] \in Invocation
    BY DEF SocialTypeOK
<1>. QED  BY DEF Overtake, Invocation

LEMMA MarkStaleKeeps ==
    ASSUME SocialTypeOK, NEW by, NEW s \in Run
    PROVE  LET new == MarkStale(by)[s]
           IN  /\ new.pc = run[s].pc /\ new.key = run[s].key /\ new.read = run[s].read
               /\ new.answers = run[s].answers /\ new.overtaken = run[s].overtaken
               /\ new.open = run[s].open
               /\ new.stale <=> run[s].stale \/ (s # by /\ Reads(s))
<1>. run[s] \in Invocation
    BY DEF SocialTypeOK
<1>. QED  BY DEF MarkStale, Invocation, Reads

\* Steps after which an invocation has its old job, or none.
LEMMA KeysStay ==
    ASSUME TInv, run' \in [Run -> Invocation],
           \A s \in Run : \/ run'[s].pc = "idle"
                          \/ /\ Working(s) /\ run'[s].key = run[s].key
                             /\ Reads(s)' => Reads(s) \/ s \in RecomputeRun
    PROVE  KeysOwn'
BY DEF TInv, KeysOwn, Working, Reads, Drains

\* What an invocation has after its reads: what is stored, but for those that
\* failed.
LEMMA ArchiveRead ==
    ASSUME SocialTypeOK, NEW r \in Run, ReadArchive(r)
    PROVE  /\ run' \in [Run -> Invocation] /\ \A s \in Run \ {r} : run'[s] = run[s]
           /\ run'[r].pc = "synth" /\ run'[r].key = run[r].key
           /\ run'[r].overtaken = run[r].overtaken
           /\ run'[r].read \subseteq Analyzed /\ (run'[r].open => MediaOpen)
           /\ ~run'[r].stale => run'[r].answers = profile.answers
           /\ UNCHANGED faults => run'[r].read = Analyzed
           /\ UNCHANGED faults \/ ReadSwallowed
<1>0. run[r] \in Invocation /\ run \in [Run -> Invocation]
    BY DEF SocialTypeOK
<1>1. Analyzed \subseteq Asset /\ MediaOpen \in BOOLEAN /\ profile.answers \subseteq Question
    BY DEF Analyzed, MediaOpen, SocialTypeOK
<1>2. faults' # faults \/ ~ReadSwallowed
    BY SocialAssumption DEF ReadSwallowed, SocialTypeOK
<1>3. PICK read \in {Analyzed, {}}, answers \in {profile.answers, {}}, open \in {MediaOpen, FALSE} :
         /\ IF read = Analyzed /\ answers = profile.answers /\ open = MediaOpen
            THEN UNCHANGED faults ELSE ReadSwallowed
         /\ run' = [run EXCEPT ![r].pc = "synth", ![r].read = read, ![r].open = open,
               ![r].answers = answers, ![r].stale = (answers # profile.answers)]
    BY DEF ReadArchive
<1>4. read \subseteq Asset /\ open \in BOOLEAN /\ answers \subseteq Question
    BY <1>1
<1>5. run'[r] = [run[r] EXCEPT !.pc = "synth", !.read = read, !.open = open,
                  !.answers = answers, !.stale = (answers # profile.answers)]
    BY <1>0, <1>3
<1>6. run' \in [Run -> Invocation] /\ \A s \in Run \ {r} : run'[s] = run[s]
    BY <1>0, <1>3, <1>4 DEF Invocation
<1>7. /\ run'[r].pc = "synth" /\ run'[r].key = run[r].key /\ run'[r].overtaken = run[r].overtaken
      /\ run'[r].read = read /\ run'[r].open = open /\ run'[r].answers = answers
      /\ run'[r].stale = (answers # profile.answers)
    BY <1>0, <1>5 DEF Invocation
<1>8. UNCHANGED faults \/ ReadSwallowed
    BY <1>3
<1>9. UNCHANGED faults => read = Analyzed
    BY <1>2, <1>3
<1>. HIDE DEF ReadSwallowed
<1>. QED  BY <1>6, <1>7, <1>8, <1>9

\* The steps of an invocation.
LEMMA RunStepTyped ==
    ASSUME TInv, NEW r \in Run, RunStep(r) \/ ClaimSome(r) \/ ClaimNothing(r) \/ KillRun(r) \/ SaveFails(r)
    PROVE  TInv'
<1>. USE DEF TInv
<1>0. run[r] \in Invocation /\ run \in [Run -> Invocation]
    BY DEF SocialTypeOK
<1>1. Working(r) => run[r].key \in Key
    BY KeyParts DEF KeysOwn, Drains
<1>a. LeaveJob(r) => run' \in [Run -> Invocation] /\ KeysOwn'
    <2>. SUFFICES ASSUME LeaveJob(r) PROVE run' \in [Run -> Invocation] /\ KeysOwn'
        OBVIOUS
    <2>1. run' \in [Run -> Invocation]
        BY LeaveJobType
    <2>2. \A s \in Run : run'[s].pc = "idle" \/ (run'[s].pc = run[s].pc /\ run'[s].key = run[s].key)
        BY OvertakeKeeps, OvertakeType DEF LeaveJob, NoJob
    <2>3. KeysOwn'
        BY <2>1, <2>2, KeysStay DEF Working, Reads
    <2>. QED  BY <2>1, <2>3
<1>2. CASE ScrapeFails(r)
    <2>1. Working(r)
        BY <1>2 DEF ScrapeFails, Working
    <2>2. job' \in [Key -> Row]
        BY <1>1, <1>2, <2>1, JobWriteType DEF ScrapeFails
    <2>. QED  BY <1>2, <1>a, <2>2 DEF ScrapeFails, SocialTypeOK, profileVars, countVars
<1>3. CASE KickRecompute(r)
    <2>. DEFINE k == RecomputeKey(run[r].kind)
    <2>1. k \in Key /\ "recompute" \in Kind /\ 1 \in 1 .. TopRung
        BY KeyParts, SocialAssumption DEF RecomputeKey, Recompute, Kind
    <2>2. job' \in [Key -> Row]
        BY <1>3, <2>1, JobWriteType DEF KickRecompute
    <2>3. run' \in [Run -> Invocation]
        BY <1>3, OvertakeType DEF KickRecompute, Invocation
    <2>4. KeysOwn'
        BY <1>3, <2>3, OvertakeKeeps, OvertakeType, KeysStay DEF KickRecompute, Working, Reads
    <2>. QED  BY <1>3, <2>2, <2>3, <2>4 DEF KickRecompute, SocialTypeOK, profileVars, countVars
<1>4. CASE FinishArchive(r)
    <2>1. Working(r)
        BY <1>4 DEF FinishArchive, Working
    <2>2. Grows(run[r]) => run[r].rung + 1 \in 1 .. TopRung
        BY <1>0, SocialAssumption DEF Grows, Invocation
    <2>3. job' \in [Key -> Row]
        BY <1>0, <1>1, <1>4, <2>1, <2>2, JobWriteType DEF FinishArchive, Invocation
    <2>. QED  BY <1>4, <1>a, <2>3 DEF FinishArchive, SocialTypeOK, profileVars, countVars
<1>5. ASSUME NEW posts \in BOOLEAN, NEW new \in SUBSET Asset,
             NEW depth \in {"more", "short", "done"}, ScrapeAndIndex(r, posts, new, depth)
      PROVE  TInv'
    <2>1. run[r].key \in Platform /\ r \notin RecomputeRun
        BY <1>5, SocialAssumption DEF ScrapeAndIndex, KeysOwn, Working, Drains
    <2>2. run' \in [Run -> Invocation]
        BY <1>0, <1>5 DEF ScrapeAndIndex, Invocation
    <2>3. KeysOwn'
        BY <1>0, <1>5, <2>2, KeysStay DEF ScrapeAndIndex, Working, Reads, Invocation, KeysOwn
    <2>4. archived' \subseteq Platform /\ asset' \in [Asset -> {"absent", "pending", "processing", "completed", "failed"}]
        BY <1>5, <2>1 DEF ScrapeAndIndex, Index, SocialTypeOK
    <2>. QED  BY <1>5, <2>2, <2>3, <2>4 DEF ScrapeAndIndex, SocialTypeOK, profileVars, countVars
<1>6. CASE ReadNothing(r)
    <2>1. job' \in [Key -> Row]
        BY <1>1, <1>6, JobWriteType DEF ReadNothing, Working
    <2>2. lost' \in BOOLEAN
        BY <1>0, <1>6 DEF ReadNothing, SocialTypeOK, Invocation
    <2>3. faults' \in 0 .. FaultBound
        BY <1>6, SocialAssumption DEF ReadNothing, ReadSwallowed, SocialTypeOK
    <2>. QED  BY <1>6, <1>a, <2>1, <2>2, <2>3 DEF ReadNothing, SocialTypeOK, profileVars
<1>7. CASE ReadArchive(r)
    <2>1. KeysOwn'
        BY <1>0, <1>7, ArchiveRead, KeysStay DEF ReadArchive, Working, Reads, KeysOwn
    <2>2. faults' \in 0 .. FaultBound
        BY <1>7, ArchiveRead, SocialAssumption DEF ReadSwallowed, SocialTypeOK
    <2>. QED  BY <1>7, <2>1, <2>2, ArchiveRead DEF ReadArchive, SocialTypeOK, profileVars
<1>8. CASE SynthesisFails(r)
    <2>1. job' \in [Key -> Row]
        BY <1>1, <1>8, JobWriteType DEF SynthesisFails, Working
    <2>. QED  BY <1>8, <1>a, <2>1 DEF SynthesisFails, SocialTypeOK, countVars
<1>9. ASSUME NEW new \in SUBSET Question, Synthesize(r, new) PROVE TInv'
    <2>2. run' \in [Run -> Invocation]
        BY <1>0, <1>9 DEF Synthesize, Invocation
    <2>3. KeysOwn'
        BY <1>0, <1>9, <2>2, KeysStay DEF Synthesize, Working, Reads, Invocation, KeysOwn
    <2>. QED  BY <1>9, <2>2, <2>3 DEF Synthesize, SocialTypeOK, profileVars, countVars
<1>10. CASE SaveProfile(r)
    <2>1. Revealed(run[r]) \in BOOLEAN
        BY <1>0 DEF Revealed, Invocation
    <2>2. run' \in [Run -> Invocation]
        BY <1>10, MarkStaleType DEF SaveProfile, Invocation
    <2>3. KeysOwn'
        BY <1>10, <2>2, MarkStaleKeeps, MarkStaleType, KeysStay DEF SaveProfile, Working, Reads
    <2>4. lost' \in BOOLEAN /\ profile' \in [ version : {"none", "fast", "old", "current"}, settled : BOOLEAN,
                     read : SUBSET Asset, answers : SUBSET Question ]
        BY <1>0, <1>10, <2>1 DEF SaveProfile, SocialTypeOK, Invocation
    <2>. QED  BY <1>10, <2>2, <2>3, <2>4 DEF SaveProfile, SocialTypeOK, countVars
<1>11. CASE FinishRecompute(r)
    <2>1. job' \in [Key -> Row]
        BY <1>1, <1>11, JobWriteType DEF FinishRecompute, Working
    <2>2. lost' \in BOOLEAN
        BY <1>0, <1>11 DEF FinishRecompute, SocialTypeOK, Invocation
    <2>. QED  BY <1>11, <1>a, <2>1, <2>2 DEF FinishRecompute, SocialTypeOK, countVars
<1>12. ASSUME NEW k \in Key, ClaimJob(r, k) PROVE TInv'
    <2>. job[k] \in Row /\ job \in [Key -> Row]
        BY DEF SocialTypeOK
    <2>1. OneMore(job[k].attempts) \in 0 .. AttemptCeiling
        BY SocialAssumption DEF OneMore, Row
    <2>2. job' \in [Key -> Row]
        BY <1>12, <2>1 DEF ClaimJob, Row
    <2>3. run'[r] \in Invocation /\ run' = [run EXCEPT ![r] = run'[r]]
          /\ run'[r].key = k /\ run'[r].pc = "work"
        BY <1>0, <1>12, <2>1, NoJobType DEF ClaimJob, Invocation, Row
    <2>4. KeysOwn'
        BY <1>0, <1>12, <2>3 DEF ClaimJob, KeysOwn, Working, Reads, Drains
    <2>. QED  BY <1>0, <1>12, <2>2, <2>3, <2>4 DEF ClaimJob, SocialTypeOK, profileVars, countVars
<1>13. CASE ClaimNothing(r)
    BY <1>13 DEF ClaimNothing, socialVars, jobVars, profileVars, countVars, SocialTypeOK, KeysOwn, Working, Reads, Drains
<1>14. CASE KillRun(r)
    <2>2. run' \in [Run -> Invocation]
        BY <1>0, <1>14, NoJobType DEF KillRun
    <2>3. KeysOwn'
        BY <1>0, <1>14, <2>2, KeysStay DEF KillRun, NoJob, Working, Reads, KeysOwn
    <2>. QED  BY <1>14, <2>2, <2>3, SocialAssumption DEF KillRun, SocialTypeOK, profileVars
<1>15. CASE SaveFails(r)
    <2>2. run' \in [Run -> Invocation]
        BY <1>0, <1>15 DEF SaveFails, GoOn, Invocation
    <2>3. KeysOwn'
        BY <1>0, <1>15, <2>2, KeysStay DEF SaveFails, GoOn, Working, Reads, Invocation, KeysOwn
    <2>. QED  BY <1>15, <2>2, <2>3, SocialAssumption DEF SaveFails, SocialTypeOK, profileVars
<1>. QED  BY <1>2, <1>3, <1>4, <1>5, <1>6, <1>7, <1>8, <1>9, <1>10, <1>11, <1>12, <1>13, <1>14, <1>15 DEF RunStep, ClaimSome

\* A job is enqueued by another than its invocation.
LEMMA EnqueueTyped ==
    ASSUME TInv, NEW k \in Key, NEW kind \in Kind,
           Enqueue(k, kind, 1, FALSE), run' = Overtake(k, NoKey)
    PROVE  job' \in [Key -> Row] /\ run' \in [Run -> Invocation] /\ KeysOwn'
<1>. USE DEF TInv
<1>1. job' \in [Key -> Row]
    <2>. 1 \in 1 .. TopRung
        BY SocialAssumption
    <2>. QED  BY JobWriteType
<1>2. run' \in [Run -> Invocation]
    BY OvertakeType
<1>3. \A s \in Run : run'[s].pc = run[s].pc /\ run'[s].key = run[s].key
    BY OvertakeKeeps
<1>4. KeysOwn'
    BY <1>2, <1>3, KeysStay DEF Working, Reads
<1>. QED  BY <1>1, <1>2, <1>4

\* The steps of a media invocation.
LEMMA MediaStepTyped ==
    ASSUME TInv, NEW m \in MediaRun, MediaStep(m) \/ ClaimMediaSome(m) \/ KillMedia(m)
    PROVE  TInv'
<1>. USE DEF TInv
<1>. DEFINE MediaRow == [on : BOOLEAN, batch : SUBSET Asset, affected : BOOLEAN]
<1>0. media[m] \in MediaRow /\ media \in [MediaRun -> MediaRow]
    BY DEF SocialTypeOK
<1>1. CASE FinishMedia(m)
    <2>1. media' \in [MediaRun -> MediaRow]
        BY <1>0, <1>1 DEF FinishMedia
    <2>2. job' \in [Key -> Row] /\ run' \in [Run -> Invocation] /\ KeysOwn'
        <3>1. CASE UNCHANGED jobVars
            BY <3>1 DEF jobVars, SocialTypeOK, KeysOwn, Working, Reads, Drains
        <3>2. CASE Enqueue("latest", "recompute", 1, FALSE) /\ run' = Overtake("latest", NoKey)
            <4>1. "latest" \in Key /\ "recompute" \in Kind /\ 1 \in 1 .. TopRung
                BY KeyParts, SocialAssumption DEF Recompute, Kind
            <4>. QED  BY <3>2, <4>1, EnqueueTyped
        <3>. QED  BY <1>1, <3>1, <3>2 DEF FinishMedia
    <2>. QED  BY <1>1, <2>1, <2>2 DEF FinishMedia, SocialTypeOK, profileVars, countVars
<1>2. ASSUME NEW a \in Asset, NEW outcome \in {"completed", "failed"}, AnalyzeAsset(m, a, outcome)
      PROVE  TInv'
    <2>1. media' \in [MediaRun -> MediaRow]
        BY <1>0, <1>2 DEF AnalyzeAsset
    <2>2. UNCHANGED KeysOwn
        BY <1>2 DEF AnalyzeAsset, jobVars, KeysOwn, Working, Reads, Drains
    <2>. QED  BY <1>2, <2>1, <2>2 DEF AnalyzeAsset, SocialTypeOK, jobVars, profileVars, countVars
<1>3. ASSUME NEW batch \in SUBSET Asset, ClaimMedia(m, batch) PROVE TInv'
    <2>1. media' \in [MediaRun -> MediaRow]
        BY <1>0, <1>3 DEF ClaimMedia
    <2>2. UNCHANGED KeysOwn
        BY <1>3 DEF ClaimMedia, jobVars, KeysOwn, Working, Reads, Drains
    <2>. QED  BY <1>3, <2>1, <2>2 DEF ClaimMedia, SocialTypeOK, jobVars, profileVars, countVars
<1>4. CASE KillMedia(m)
    <2>1. media' \in [MediaRun -> MediaRow]
        BY <1>0, <1>4 DEF KillMedia
    <2>2. UNCHANGED KeysOwn
        BY <1>4 DEF KillMedia, jobVars, KeysOwn, Working, Reads, Drains
    <2>. QED  BY <1>4, <2>1, <2>2, SocialAssumption DEF KillMedia, SocialTypeOK, jobVars, profileVars
<1>. QED  BY <1>1, <1>2, <1>3, <1>4 DEF MediaStep, ClaimMediaSome

\* The requests and the arrival of what they send.
LEMMA RequestTyped ==
    ASSUME TInv, RequestStep \/ Arrival
    PROVE  TInv'
<1>. USE DEF TInv
<1>0. FeedPlatform \subseteq Key /\ Platform \subseteq Key /\ "scan" \in Key
    BY KeyParts, SocialAssumption DEF Recompute
<1>a. ASSUME NEW kind, Ask(kind) PROVE requests' \in 0 .. RequestBound
    BY <1>a, SocialAssumption DEF Ask, SocialTypeOK
<1>b. UNCHANGED jobVars => job' \in [Key -> Row] /\ run' \in [Run -> Invocation] /\ KeysOwn'
    BY DEF jobVars, SocialTypeOK, KeysOwn, Working, Reads, Drains
<1>c. ASSUME NEW new \in SUBSET (Key \X Kind), Send(new) PROVE sent' \in SUBSET (Key \X Kind)
    BY <1>c DEF Send, SocialTypeOK
<1>d. ASSUME NEW old, RequeueMedia(old)
      PROVE  asset' \in [Asset -> {"absent", "pending", "processing", "completed", "failed"}]
    BY <1>d DEF RequeueMedia, SocialTypeOK
<1>e. ASSUME NEW k \in Key, NEW kind \in Kind, Enqueue(k, kind, 1, FALSE), run' = Overtake(k, NoKey)
      PROVE  job' \in [Key -> Row] /\ run' \in [Run -> Invocation] /\ KeysOwn'
    BY <1>e, EnqueueTyped
<1>1. ASSUME NEW p \in Platform, Connect(p) PROVE TInv'
    <2>1. "climb" \in Kind /\ p \in Key
        BY <1>0 DEF Kind
    <2>. QED  BY <1>1, <1>a, <1>e, <2>1 DEF Connect, SocialTypeOK, profileVars
<1>2. ASSUME NEW p \in Platform, PollLinkedIn(p) PROVE TInv'
    <2>1. {<<p, "climb">>} \in SUBSET (Key \X Kind)
        BY <1>0 DEF Kind
    <2>. QED  BY <1>2, <1>a, <1>b, <1>c, <2>1 DEF PollLinkedIn, SocialTypeOK, profileVars
<1>3. CASE ConnectLinkedIn
    <2>1. {<<"scan", "recompute">>} \in SUBSET (Key \X Kind)
        BY <1>0 DEF Kind
    <2>. QED  BY <1>3, <1>a, <1>b, <1>c, <2>1 DEF ConnectLinkedIn, SocialTypeOK, profileVars
<1>4. CASE Deploy
    BY <1>4, <1>a, <1>b DEF Deploy, SocialTypeOK
<1>5. ASSUME NEW old \in SUBSET Asset, Sweep(old) PROVE TInv'
    <2>1. FeedPlatform \X {"sweep"} \in SUBSET (Key \X Kind)
        BY <1>0 DEF Kind
    <2>. QED  BY <1>5, <1>a, <1>b, <1>c, <1>d, <2>1 DEF Sweep, SocialTypeOK, profileVars
<1>6. ASSUME NEW old \in SUBSET Asset, NEW thin \in SUBSET Platform, ManualRefresh(thin, old)
      PROVE  TInv'
    <2>1. {<<p, IF p \in thin THEN "climb" ELSE "refresh">> : p \in Platform}
              \cup {<<"scan", "recompute">>} \in SUBSET (Key \X Kind)
        BY <1>0 DEF Kind
    <2>. QED  BY <1>6, <1>a, <1>b, <1>c, <1>d, <2>1 DEF ManualRefresh, SocialTypeOK, profileVars
<1>7. ASSUME NEW refresh \in SUBSET (FeedPlatform \X {"refresh"}), PollServe(refresh) PROVE TInv'
    <2>1. (IF profile.version = "current" THEN refresh ELSE {<<"scan", "recompute">>})
              \in SUBSET (Key \X Kind)
        BY <1>0 DEF Kind
    <2>. QED  BY <1>7, <1>a, <1>b, <1>c, <2>1 DEF PollServe, SocialTypeOK
<1>8. ASSUME NEW fill \in SUBSET (FeedPlatform \X {"climb"}), NEW answers \in SUBSET Question,
             NEW evidence \in SUBSET FeedPlatform, NEW new \in SUBSET Asset,
             PollBuild(fill, answers, evidence, new)
      PROVE  TInv'
    <2>1. fill \in SUBSET (Key \X Kind)
        BY <1>0 DEF Kind
    <2>2. archived' \subseteq Platform
          /\ asset' \in [Asset -> {"absent", "pending", "processing", "completed", "failed"}]
        BY <1>8, SocialAssumption DEF PollBuild, Index, SocialTypeOK
    <2>3. building' \in [ on : BOOLEAN, answers : SUBSET Question, pending : BOOLEAN ]
        BY <1>8 DEF PollBuild, Pending, Unfinished
    <2>4. faults' \in 0 .. FaultBound
        BY <1>8, SocialAssumption DEF PollBuild, ReadSwallowed, SocialTypeOK
    <2>. QED  BY <1>8, <1>a, <1>b, <1>c, <2>1, <2>2, <2>3, <2>4 DEF PollBuild, SocialTypeOK
<1>9. CASE PollSave
    <2>1. run' \in [Run -> Invocation] /\ KeysOwn'
        BY <1>9, MarkStaleType, MarkStaleKeeps, KeysStay DEF PollSave, Working, Reads
    <2>. QED  BY <1>9, <2>1 DEF PollSave, NotBuilding, SocialTypeOK, countVars
<1>10. ASSUME NEW e \in sent, Land(e) PROVE TInv'
    <2>1. e[1] \in Key /\ e[2] \in Kind
        BY DEF SocialTypeOK
    <2>. QED  BY <1>10, <1>e, <2>1 DEF Land, SocialTypeOK, profileVars, countVars
<1>. QED  BY <1>1, <1>2, <1>3, <1>4, <1>5, <1>6, <1>7, <1>8, <1>9, <1>10 DEF RequestStep, Arrival

\* Every step of SocialSpec keeps the types, and the invocations their jobs.
LEMMA StepTyped == TInv /\ [SocialNext]_socialVars => TInv'
<1>. SUFFICES ASSUME TInv, [SocialNext]_socialVars PROVE TInv'
    OBVIOUS
<1>1. CASE UNCHANGED socialVars
    BY <1>1 DEF TInv, socialVars, jobVars, profileVars, countVars, SocialTypeOK, KeysOwn, Working, Reads, Drains
<1>2. CASE SocialNext
    BY <1>2, RunStepTyped, MediaStepTyped, RequestTyped DEF SocialNext
<1>. QED  BY <1>1, <1>2

\* Every variable keeps its type: a job stays within its rungs and attempts, an
\* invocation works on a job of its route (scan-store.ts).
THEOREM SocialTypeCorrect == SocialSpec => []SocialTypeOK
<1>1. SocialSpec => []TInv
    BY InitTyped, StepTyped, PTL DEF SocialSpec
<1>. QED  BY <1>1, PTL DEF TInv

-----------------------------------------------------------------------------
(* One invocation at a time                                                *)

\* JobsExclusive, over the invocations of the specification.
OneWorker ==
    \A r \in Run : Working(r) /\ ~run[r].overtaken =>
        /\ job[run[r].key].status = "processing"
        /\ \A s \in Run \ {r} : Working(s) /\ run[s].key = run[r].key => run[s].overtaken

LEMMA OneWorkerIs == SocialTypeOK => (OneWorker <=> JobsExclusive)
<1>. SUFFICES ASSUME SocialTypeOK PROVE OneWorker <=> JobsExclusive
    OBVIOUS
<1>. DOMAIN run = Run
    BY DEF SocialTypeOK
<1>. QED  BY DEF OneWorker, JobsExclusive, Busy, Working

\* What is asked of a step that claims nothing: it writes the rows of K alone,
\* and the invocations that go on with one of these are overtaken.
WritesOnly(K) ==
    /\ \A k \in Key \ K : job'[k] = job[k]
    /\ \A s \in Run : \/ run'[s].pc = "idle"
                      \/ /\ Working(s) /\ run'[s].key = run[s].key
                         /\ (run'[s].overtaken <=> run[s].overtaken \/ run[s].key \in K)

LEMMA WritesKeep ==
    ASSUME TInv, OneWorker, NEW K, WritesOnly(K)
    PROVE  OneWorker'
<1>1. \A s \in Run : Working(s) => run[s].key \in Key
    BY KeyParts DEF TInv, KeysOwn, Drains
<1>. SUFFICES ASSUME NEW r \in Run, Working(r)', ~run'[r].overtaken
              PROVE  /\ job'[run'[r].key].status = "processing"
                     /\ \A s \in Run \ {r} : Working(s)' /\ run'[s].key = run'[r].key => run'[s].overtaken
    BY DEF OneWorker
<1>2. /\ Working(r) /\ run'[r].key = run[r].key
      /\ ~run[r].overtaken /\ run[r].key \notin K
    BY DEF WritesOnly, Working
<1>3. job'[run'[r].key].status = "processing"
    BY <1>1, <1>2 DEF WritesOnly, OneWorker
<1>4. ASSUME NEW s \in Run \ {r}, Working(s)', run'[s].key = run'[r].key
      PROVE  run'[s].overtaken
    BY <1>2, <1>4 DEF WritesOnly, OneWorker, Working
<1>. QED  BY <1>3, <1>4

\* The steps that only touch one invocation, or none.
LEMMA LeaveWrites ==
    ASSUME TInv, NEW r \in Run, Working(r), LeaveJob(r),
           \A k \in Key \ {run[r].key} : job'[k] = job[k]
    PROVE  WritesOnly({run[r].key})
<1>1. run' = [Overtake(run[r].key, r) EXCEPT ![r] = NoJob]
    BY DEF LeaveJob
<1>2. run'[r].pc = "idle"
    BY <1>1, OvertakeType DEF TInv, NoJob
<1>3. ASSUME NEW s \in Run \ {r}
      PROVE  \/ run'[s].pc = "idle"
             \/ /\ Working(s) /\ run'[s].key = run[s].key
                /\ (run'[s].overtaken <=> run[s].overtaken \/ run[s].key \in {run[r].key})
    <2>1. run'[s] = Overtake(run[r].key, r)[s]
        BY <1>1, OvertakeType DEF TInv
    <2>. QED  BY <2>1, OvertakeKeeps DEF TInv, Working
<1>. QED  BY <1>2, <1>3 DEF WritesOnly

LEMMA EnqueueWrites ==
    ASSUME TInv, NEW k \in Key, NEW kind, NEW rung, NEW reset, Enqueue(k, kind, rung, reset),
           run' = Overtake(k, NoKey)
    PROVE  WritesOnly({k})
<1>1. \A j \in Key \ {k} : job'[j] = job[j]
    BY DEF Enqueue, TInv, SocialTypeOK
<1>2. ASSUME NEW s \in Run
      PROVE  \/ run'[s].pc = "idle"
             \/ /\ Working(s) /\ run'[s].key = run[s].key
                /\ (run'[s].overtaken <=> run[s].overtaken \/ run[s].key \in {k})
    <2>1. s # NoKey
        BY SocialAssumption DEF Run
    <2>. QED  BY <2>1, OvertakeKeeps DEF TInv, Working
<1>. QED  BY <1>1, <1>2 DEF WritesOnly

\* An invocation that goes on with its job, and every step without a job.
LEMMA SameJobs ==
    ASSUME job' = job,
           \A s \in Run : \/ run'[s].pc = "idle"
                          \/ /\ Working(s) /\ run'[s].key = run[s].key
                             /\ run'[s].overtaken = run[s].overtaken
    PROVE  WritesOnly({})
BY DEF WritesOnly

LEMMA RunStepOneWorker ==
    ASSUME TInv, OneWorker, NEW r \in Run,
           RunStep(r) \/ ClaimSome(r) \/ ClaimNothing(r) \/ KillRun(r) \/ SaveFails(r)
    PROVE  OneWorker'
<1>0. run[r] \in Invocation /\ run \in [Run -> Invocation] /\ job \in [Key -> Row]
    BY DEF TInv, SocialTypeOK
<1>1. CASE ScrapeFails(r)
    <2>1. \A k \in Key \ {run[r].key} : job'[k] = job[k]
        BY <1>0, <1>1 DEF ScrapeFails, FailJob
    <2>. QED  BY <1>1, <2>1, LeaveWrites, WritesKeep DEF ScrapeFails, Working
<1>2. CASE KickRecompute(r)
    <2>. DEFINE k == RecomputeKey(run[r].kind)
    <2>1. k \in Recompute /\ run[r].key \in Platform /\ k # run[r].key
        BY <1>2, SocialAssumption DEF RecomputeKey, Recompute, KickRecompute, TInv, KeysOwn, Working, Drains
    <2>2. \A j \in Key \ {k} : job'[j] = job[j]
        BY <1>0, <1>2 DEF KickRecompute, Enqueue
    <2>3. ASSUME NEW s \in Run
          PROVE  \/ run'[s].pc = "idle"
                 \/ /\ Working(s) /\ run'[s].key = run[s].key
                    /\ (run'[s].overtaken <=> run[s].overtaken \/ run[s].key \in {k})
        <3>1. run' = [Overtake(k, r) EXCEPT ![r].pc = "finish"] /\ Overtake(k, r) \in [Run -> Invocation]
            BY <1>2, OvertakeType DEF KickRecompute, TInv
        <3>2. /\ run'[s].key = Overtake(k, r)[s].key
              /\ run'[s].overtaken = Overtake(k, r)[s].overtaken
              /\ s # r => run'[s].pc = Overtake(k, r)[s].pc
            BY <3>1 DEF Invocation
        <3>. QED  BY <1>2, <2>1, <3>2, OvertakeKeeps DEF KickRecompute, TInv, Working
    <2>4. WritesOnly({k})
        BY <2>2, <2>3 DEF WritesOnly
    <2>. QED  BY <2>4, WritesKeep
<1>3. CASE FinishArchive(r)
    <2>1. \A k \in Key \ {run[r].key} : job'[k] = job[k]
        BY <1>0, <1>3 DEF FinishArchive, FailJob, CompleteJob, Enqueue
    <2>. QED  BY <1>3, <2>1, LeaveWrites, WritesKeep DEF FinishArchive, Working
<1>4. ASSUME NEW posts \in BOOLEAN, NEW new \in SUBSET Asset,
             NEW depth \in {"more", "short", "done"}, ScrapeAndIndex(r, posts, new, depth)
      PROVE  OneWorker'
    <2>1. WritesOnly({})
        BY <1>0, <1>4, SameJobs DEF ScrapeAndIndex, Working, Invocation
    <2>. QED  BY <2>1, WritesKeep
<1>5. CASE ReadNothing(r)
    <2>1. \A k \in Key \ {run[r].key} : job'[k] = job[k]
        BY <1>0, <1>5 DEF ReadNothing, CompleteJob
    <2>. QED  BY <1>5, <2>1, LeaveWrites, WritesKeep DEF ReadNothing, Working
<1>6. CASE ReadArchive(r)
    <2>1. WritesOnly({})
        BY <1>0, <1>6, SameJobs DEF ReadArchive, Working, Invocation
    <2>. QED  BY <2>1, WritesKeep
<1>7. CASE SynthesisFails(r)
    <2>1. \A k \in Key \ {run[r].key} : job'[k] = job[k]
        BY <1>0, <1>7 DEF SynthesisFails, FailJob
    <2>. QED  BY <1>7, <2>1, LeaveWrites, WritesKeep DEF SynthesisFails, Working
<1>8. ASSUME NEW new \in SUBSET Question, Synthesize(r, new) PROVE OneWorker'
    <2>1. WritesOnly({})
        BY <1>0, <1>8, SameJobs DEF Synthesize, Working, Invocation
    <2>. QED  BY <2>1, WritesKeep
<1>9. CASE SaveProfile(r)
    <2>1. ASSUME NEW s \in Run
          PROVE  \/ run'[s].pc = "idle"
                 \/ /\ Working(s) /\ run'[s].key = run[s].key
                    /\ run'[s].overtaken = run[s].overtaken
        <3>1. run' = [MarkStale(r) EXCEPT ![r].pc = "finish"] /\ MarkStale(r) \in [Run -> Invocation]
            BY <1>9, MarkStaleType DEF SaveProfile, TInv
        <3>2. /\ run'[s].key = MarkStale(r)[s].key
              /\ run'[s].overtaken = MarkStale(r)[s].overtaken
              /\ s # r => run'[s].pc = MarkStale(r)[s].pc
            BY <3>1 DEF Invocation
        <3>. QED  BY <1>9, <3>2, MarkStaleKeeps DEF SaveProfile, TInv, Working
    <2>2. WritesOnly({})
        BY <1>9, <2>1, SameJobs DEF SaveProfile
    <2>. QED  BY <2>2, WritesKeep
<1>10. CASE FinishRecompute(r)
    <2>1. \A k \in Key \ {run[r].key} : job'[k] = job[k]
        BY <1>0, <1>10 DEF FinishRecompute, CompleteJob
    <2>. QED  BY <1>10, <2>1, LeaveWrites, WritesKeep DEF FinishRecompute, Working
<1>11. ASSUME NEW k \in Key, ClaimJob(r, k) PROVE OneWorker'
    <2>1. /\ job'[k].status = "processing" /\ \A j \in Key \ {k} : job'[j] = job[j]
          /\ run'[r].key = k /\ ~run'[r].overtaken
          /\ \A s \in Run \ {r} : run'[s] = run[s]
        BY <1>0, <1>11 DEF ClaimJob, NoJob, Row
    <2>2. \A s \in Run : Working(s) => run[s].key \in Key
        BY KeyParts DEF TInv, KeysOwn, Drains
    <2>3. job[k].status = "queued"
        BY <1>11 DEF ClaimJob
    <2>4. \A s \in Run \ {r} : Working(s) /\ run[s].key = k => run[s].overtaken
        BY <2>3 DEF OneWorker
    <2>. SUFFICES ASSUME NEW q \in Run, Working(q)', ~run'[q].overtaken
                  PROVE  /\ job'[run'[q].key].status = "processing"
                         /\ \A s \in Run \ {q} : Working(s)' /\ run'[s].key = run'[q].key => run'[s].overtaken
        BY DEF OneWorker
    <2>5. CASE q = r
        BY <2>1, <2>4, <2>5 DEF Working
    <2>6. CASE q # r
        BY <2>1, <2>2, <2>4, <2>6 DEF Working, OneWorker
    <2>. QED  BY <2>5, <2>6
<1>12. CASE ClaimNothing(r)
    BY <1>12 DEF ClaimNothing, socialVars, jobVars, OneWorker, Working
<1>13. CASE KillRun(r)
    <2>1. WritesOnly({})
        BY <1>0, <1>13, SameJobs DEF KillRun, Working, NoJob
    <2>. QED  BY <2>1, WritesKeep
<1>14. CASE SaveFails(r)
    <2>1. WritesOnly({})
        BY <1>0, <1>14, SameJobs DEF SaveFails, GoOn, Working, Invocation
    <2>. QED  BY <2>1, WritesKeep
<1>. QED  BY <1>1, <1>2, <1>3, <1>4, <1>5, <1>6, <1>7, <1>8, <1>9, <1>10, <1>11, <1>12, <1>13, <1>14 DEF RunStep, ClaimSome

LEMMA RequestsOneWorker ==
    ASSUME TInv, OneWorker, RequestStep \/ Arrival
    PROVE  OneWorker'
<1>1. ASSUME NEW p \in Platform, Connect(p) PROVE OneWorker'
    BY <1>1, KeyParts, EnqueueWrites, WritesKeep DEF Connect
<1>2. ASSUME NEW e \in sent, Land(e) PROVE OneWorker'
    <2>1. e[1] \in Key
        BY DEF TInv, SocialTypeOK
    <2>. QED  BY <1>2, <2>1, EnqueueWrites, WritesKeep DEF Land
<1>3. CASE PollSave
    <2>1. \A s \in Run : run'[s].pc = run[s].pc /\ run'[s].key = run[s].key
                         /\ run'[s].overtaken = run[s].overtaken
        BY <1>3, MarkStaleKeeps DEF PollSave, TInv
    <2>2. WritesOnly({})
        BY <1>3, <2>1, SameJobs DEF PollSave, Working
    <2>. QED  BY <2>2, WritesKeep
<1>4. RequestStep => UNCHANGED jobVars \/ \E p \in Platform : Connect(p)
    BY DEF RequestStep, PollLinkedIn, ConnectLinkedIn, Deploy, Sweep, ManualRefresh, PollServe, PollBuild
<1>5. UNCHANGED jobVars => OneWorker'
    BY DEF jobVars, OneWorker, Working
<1>. QED  BY <1>1, <1>2, <1>3, <1>4, <1>5 DEF Arrival

LEMMA MediaOneWorker ==
    ASSUME TInv, OneWorker, NEW m \in MediaRun, MediaStep(m) \/ ClaimMediaSome(m) \/ KillMedia(m)
    PROVE  OneWorker'
<1>1. CASE UNCHANGED jobVars
    BY <1>1 DEF jobVars, OneWorker, Working
<1>2. CASE Enqueue("latest", "recompute", 1, FALSE) /\ run' = Overtake("latest", NoKey)
    BY <1>2, KeyParts, EnqueueWrites, WritesKeep DEF Recompute
<1>. QED  BY <1>1, <1>2 DEF ClaimMediaSome, ClaimMedia, KillMedia, MediaStep, AnalyzeAsset, FinishMedia

XInv == TInv /\ OneWorker

LEMMA StepOneWorker == XInv /\ [SocialNext]_socialVars => XInv'
<1>. SUFFICES ASSUME XInv, [SocialNext]_socialVars PROVE XInv'
    OBVIOUS
<1>1. TInv'
    BY StepTyped DEF XInv
<1>2. CASE UNCHANGED socialVars
    BY <1>1, <1>2 DEF XInv, socialVars, jobVars, OneWorker, Working
<1>3. CASE SocialNext
    BY <1>1, <1>3, RunStepOneWorker, RequestsOneWorker, MediaOneWorker DEF XInv, SocialNext
<1>. QED  BY <1>2, <1>3

\* The types and the invocations' jobs hold throughout.
LEMMA Workers == SocialSpec => []XInv
<1>1. SocialInit => XInv
    BY InitTyped DEF XInv, OneWorker, SocialInit, Working, NoJob
<1>. QED  BY <1>1, StepOneWorker, PTL DEF SocialSpec

\* A job is worked on by one invocation, until its row is written again by
\* another: the claims' "optimistic lock" is enough, whatever the invocations that
\* overlap, and an invocation that is not overtaken finishes its own claim.
THEOREM JobsAreExclusive == SocialSpec => []JobsExclusive
<1>1. XInv => JobsExclusive
    BY OneWorkerIs DEF XInv, TInv
<1>. QED  BY <1>1, Workers, PTL

-----------------------------------------------------------------------------
(* The answers                                                             *)

\* A profile that is not there has nothing, and an invocation whose profile was
\* not saved over has all its answers.
PriorKept ==
    /\ profile.version = "none" => profile.answers = {} /\ profile.read = {}
    /\ \A r \in Run : Reads(r) /\ ~run[r].stale => profile.answers \subseteq run[r].answers

\* Steps that change neither the profile nor what the invocations have read.
ReadsStay ==
    \A s \in Run : Reads(s)' => /\ Reads(s) /\ run'[s].stale = run[s].stale
                                /\ run'[s].answers = run[s].answers /\ run'[s].read = run[s].read
                                /\ run'[s].open = run[s].open

LEMMA LeaveReads ==
    ASSUME TInv, NEW r \in Run, LeaveJob(r)
    PROVE  ReadsStay
<1>1. run' = [Overtake(run[r].key, r) EXCEPT ![r] = NoJob]
    BY DEF LeaveJob
<1>2. run'[r].pc = "idle"
    BY <1>1, OvertakeType DEF TInv, NoJob
<1>3. \A s \in Run \ {r} : run'[s] = Overtake(run[r].key, r)[s]
    BY <1>1, OvertakeType DEF TInv
<1>. QED  BY <1>2, <1>3, OvertakeKeeps DEF TInv, Reads, ReadsStay

LEMMA EnqueueReads ==
    ASSUME TInv, NEW k, run' = Overtake(k, NoKey)
    PROVE  ReadsStay
BY OvertakeKeeps DEF TInv, Reads, ReadsStay

\* The steps of an invocation that leave the profile and the media alone.
LEMMA RunReads ==
    ASSUME TInv, NEW r \in Run,
           \/ ScrapeFails(r) \/ KickRecompute(r) \/ FinishArchive(r)
           \/ \E posts, new, depth : ScrapeAndIndex(r, posts, new, depth)
           \/ ReadNothing(r) \/ SynthesisFails(r) \/ FinishRecompute(r)
           \/ ClaimSome(r) \/ ClaimNothing(r) \/ KillRun(r) \/ SaveFails(r)
    PROVE  ReadsStay /\ profile' = profile
<1>0. run[r] \in Invocation /\ run \in [Run -> Invocation]
    BY DEF TInv, SocialTypeOK
<1>1. CASE ScrapeFails(r) \/ FinishArchive(r) \/ ReadNothing(r) \/ SynthesisFails(r) \/ FinishRecompute(r)
    <2>1. LeaveJob(r) /\ profile' = profile
        BY <1>1 DEF ScrapeFails, FinishArchive, ReadNothing, SynthesisFails, FinishRecompute, profileVars
    <2>. QED  BY <2>1, LeaveReads
<1>2. CASE KickRecompute(r)
    <2>. DEFINE k == RecomputeKey(run[r].kind)
    <2>1. run' = [Overtake(k, r) EXCEPT ![r].pc = "finish"] /\ Overtake(k, r) \in [Run -> Invocation]
        BY <1>2, OvertakeType DEF KickRecompute, TInv
    <2>2. run'[r].pc = "finish" /\ \A s \in Run \ {r} : run'[s] = Overtake(k, r)[s]
        BY <2>1 DEF Invocation
    <2>. QED  BY <1>2, <2>2, OvertakeKeeps DEF KickRecompute, TInv, profileVars, Reads, ReadsStay
<1>3. ASSUME NEW posts, NEW new, NEW depth, ScrapeAndIndex(r, posts, new, depth)
      PROVE  ReadsStay /\ profile' = profile
    BY <1>0, <1>3 DEF ScrapeAndIndex, Reads, ReadsStay, profileVars, Invocation
<1>4. ASSUME NEW k \in Key, ClaimJob(r, k) PROVE ReadsStay /\ profile' = profile
    BY <1>0, <1>4 DEF ClaimJob, NoJob, Reads, ReadsStay, profileVars
<1>5. CASE ClaimNothing(r)
    BY <1>5 DEF ClaimNothing, socialVars, jobVars, profileVars, Reads, ReadsStay
<1>6. CASE KillRun(r)
    BY <1>0, <1>6 DEF KillRun, NoJob, Reads, ReadsStay, profileVars
<1>7. CASE SaveFails(r)
    BY <1>0, <1>7 DEF SaveFails, GoOn, Reads, ReadsStay, profileVars, Invocation
<1>. QED  BY <1>1, <1>2, <1>3, <1>4, <1>5, <1>6, <1>7 DEF ClaimSome

\* The steps of the others that do, the save of a poll and a deployment apart.
LEMMA OtherReads ==
    ASSUME TInv,
           \/ RequestStep /\ ~Deploy
           \/ \E e \in sent : Land(e)
           \/ \E m \in MediaRun : MediaStep(m) \/ ClaimMediaSome(m) \/ KillMedia(m)
    PROVE  ReadsStay /\ profile' = profile
<1>1. \/ UNCHANGED <<jobVars, profile>>
      \/ profile' = profile /\ \E k : run' = Overtake(k, NoKey)
    BY DEF RequestStep, Connect, PollLinkedIn, ConnectLinkedIn, Sweep, ManualRefresh, PollServe,
           PollBuild, Land, MediaStep, FinishMedia, AnalyzeAsset, ClaimMediaSome, ClaimMedia,
           KillMedia, profileVars
<1>2. UNCHANGED jobVars => ReadsStay
    BY DEF jobVars, Reads, ReadsStay
<1>. QED  BY <1>1, <1>2, EnqueueReads

\* After MarkStale, every invocation that has read the profile is stale.
LEMMA SaveMarks ==
    ASSUME TInv, NEW r \in Run, SaveProfile(r)
    PROVE  \A s \in Run : Reads(s)' => run'[s].stale
<1>1. run' = [MarkStale(r) EXCEPT ![r].pc = "finish"] /\ MarkStale(r) \in [Run -> Invocation]
    BY MarkStaleType DEF SaveProfile, TInv
<1>2. run'[r].pc = "finish" /\ \A s \in Run \ {r} : run'[s] = MarkStale(r)[s]
    BY <1>1 DEF Invocation
<1>. QED  BY <1>2, MarkStaleKeeps DEF TInv, Reads

LEMMA PollSaveMarks ==
    ASSUME TInv, PollSave
    PROVE  \A s \in Run : Reads(s)' => run'[s].stale
<1>1. \A s \in Run : s # NoKey
    BY SocialAssumption DEF Run
<1>. QED  BY <1>1, MarkStaleKeeps DEF TInv, Reads, PollSave

LEMMA StepPriorKept == TInv /\ PriorKept /\ [SocialNext]_socialVars => PriorKept'
<1>. SUFFICES ASSUME TInv, PriorKept, [SocialNext]_socialVars PROVE PriorKept'
    OBVIOUS
<1>0. run \in [Run -> Invocation]
    BY DEF TInv, SocialTypeOK
<1>a. ReadsStay /\ profile' = profile => PriorKept'
    BY DEF ReadsStay, PriorKept
<1>1. CASE UNCHANGED socialVars
    BY <1>1 DEF socialVars, jobVars, profileVars, PriorKept, Reads
<1>2. ASSUME NEW r \in Run, ReadArchive(r) PROVE PriorKept'
    <2>1. profile' = profile
        BY <1>2 DEF ReadArchive, profileVars
    <2>. QED  BY <1>2, <2>1, ArchiveRead DEF TInv, PriorKept, Reads
<1>3. ASSUME NEW r \in Run, NEW new \in SUBSET Question, Synthesize(r, new) PROVE PriorKept'
    <2>1. /\ run'[r].answers = run[r].answers \cup new /\ run'[r].stale = run[r].stale
          /\ \A s \in Run \ {r} : run'[s] = run[s]
        BY <1>0, <1>3 DEF Synthesize, Invocation
    <2>. QED  BY <1>3, <2>1 DEF Synthesize, profileVars, PriorKept, Reads
<1>4. ASSUME NEW r \in Run, SaveProfile(r) PROVE PriorKept'
    <2>1. profile'.version = "current"
        BY <1>4 DEF SaveProfile
    <2>. QED  BY <1>4, <2>1, SaveMarks DEF PriorKept
<1>5. CASE PollSave
    <2>1. profile'.version = "fast"
        BY <1>5 DEF PollSave
    <2>. QED  BY <1>5, <2>1, PollSaveMarks DEF PriorKept
<1>6. CASE Deploy
    <2>1. /\ profile'.version = "old" /\ profile'.answers = profile.answers
        BY <1>6 DEF Deploy, TInv, SocialTypeOK
    <2>. QED  BY <1>6, <2>1 DEF Deploy, jobVars, PriorKept, Reads
<1>7. ASSUME NEW r \in Run,
             RunStep(r) \/ ClaimSome(r) \/ ClaimNothing(r) \/ KillRun(r) \/ SaveFails(r)
      PROVE  PriorKept'
    BY <1>7, <1>a, <1>2, <1>3, <1>4, RunReads DEF RunStep
<1>. QED  BY <1>1, <1>5, <1>6, <1>7, <1>a, OtherReads DEF SocialNext, Arrival

\* A question once answered stays answered: whatever overlaps, a profile loses an
\* answer only in a save over a profile its writer does not know, for it was saved
\* since or its read failed (preference-recompute, keep-best).
THEOREM PivotsAreKept == SocialSpec => PivotsNeverDrop
<1>1. SocialInit => PriorKept
    BY DEF SocialInit, PriorKept, Reads, NoJob
<1>2. TInv /\ PriorKept /\ [SocialNext]_socialVars
          => [~lost' => profile.answers \subseteq profile'.answers]_socialVars
    <2>. SUFFICES ASSUME TInv, PriorKept, SocialNext, ~lost'
                  PROVE  profile.answers \subseteq profile'.answers
        BY DEF socialVars, profileVars
    <2>1. ASSUME NEW r \in Run, SaveProfile(r) PROVE profile.answers \subseteq profile'.answers
        BY <2>1 DEF SaveProfile, PriorKept, Reads
    <2>2. PollSave => profile.answers \subseteq profile'.answers
        BY DEF PollSave, PriorKept
    <2>3. Deploy => profile.answers \subseteq profile'.answers
        BY DEF Deploy, TInv, SocialTypeOK
    <2>4. ASSUME NEW r \in Run,
                 RunStep(r) \/ ClaimSome(r) \/ ClaimNothing(r) \/ KillRun(r) \/ SaveFails(r)
          PROVE  profile.answers \subseteq profile'.answers
        <3>1. \/ SaveProfile(r) \/ ReadArchive(r) \/ \E new \in SUBSET Question : Synthesize(r, new)
              \/ profile' = profile
            BY <2>4, RunReads DEF RunStep
        <3>2. ReadArchive(r) \/ (\E new \in SUBSET Question : Synthesize(r, new)) => profile' = profile
            BY DEF ReadArchive, Synthesize, profileVars
        <3>. QED  BY <2>1, <3>1, <3>2
    <2>. QED  BY <2>2, <2>3, <2>4, OtherReads DEF SocialNext, Arrival
<1>3. SocialSpec => []TInv
    BY InitTyped, StepTyped, PTL DEF SocialSpec
<1>. QED  BY <1>1, <1>2, <1>3, StepPriorKept, PTL DEF SocialSpec, PivotsNeverDrop

-----------------------------------------------------------------------------
(* The media                                                               *)

\* Media come with an archive, and only what is there is analyzed.
MediaThere ==
    /\ archived = {} => \A a \in Asset : asset[a] = "absent"
    /\ \A m \in MediaRun : \A a \in media[m].batch : media[m].on /\ asset[a] # "absent"

\* A recompute is still to come, or under way with a in hand.
Awaits(r, a) ==
    ~run[r].overtaken /\ (run[r].pc = "work" \/ (Reads(r) /\ a \in run[r].read))
Awaited(a) ==
    \/ \E m \in MediaRun : media[m].on /\ media[m].affected
    \/ \E k \in Recompute : job[k].status \in {"queued", "failed"}
    \/ \E r \in RecomputeRun : Awaits(r, a)

\* As long as nothing was lost or failed, an analyzed medium is awaited, or it is
\* in the profile and in what every save to come has read.
Followed ==
    (~lost /\ faults = 0) =>
        \A a \in Asset : asset[a] = "completed" /\ ~Awaited(a) =>
            /\ a \in profile.read
            /\ \A r \in Run : Reads(r) /\ ~run[r].stale => a \in run[r].read

SInv == XInv /\ PriorKept /\ MediaThere /\ Followed

\* Losses and faults are for good.
LEMMA Lasting ==
    ASSUME TInv, SocialNext
    PROVE  /\ ~lost' => ~lost
           /\ faults' = 0 => faults = 0
<1>1. faults' = faults \/ faults' = faults + 1
    <2>1. ASSUME NEW r \in Run, RunStep(r) \/ ClaimSome(r) \/ ClaimNothing(r) \/ KillRun(r) \/ SaveFails(r)
          PROVE  faults' = faults \/ faults' = faults + 1
        BY <2>1 DEF RunStep, ScrapeFails, KickRecompute, FinishArchive, ScrapeAndIndex, ReadNothing,
           ReadArchive, SynthesisFails, Synthesize, SaveProfile, FinishRecompute, ClaimSome, ClaimJob,
           ClaimNothing, KillRun, SaveFails, ReadSwallowed, socialVars, countVars
    <2>2. ASSUME NEW m \in MediaRun, MediaStep(m) \/ ClaimMediaSome(m) \/ KillMedia(m)
          PROVE  faults' = faults \/ faults' = faults + 1
        BY <2>2 DEF MediaStep, FinishMedia, AnalyzeAsset, ClaimMediaSome, ClaimMedia, KillMedia, countVars
    <2>3. RequestStep \/ Arrival => faults' = faults \/ faults' = faults + 1
        BY DEF ReadSwallowed, RequestStep, Arrival, Connect, PollLinkedIn, ConnectLinkedIn, Deploy, Sweep,
           ManualRefresh, PollServe, PollBuild, PollSave, Land, countVars
    <2>. QED  BY <2>1, <2>2, <2>3 DEF SocialNext
<1>2. lost' = lost \/ \E x : lost' = (lost \/ x)
    <2>1. ASSUME NEW r \in Run, RunStep(r) \/ ClaimSome(r) \/ ClaimNothing(r) \/ KillRun(r) \/ SaveFails(r)
          PROVE  lost' = lost \/ \E x : lost' = (lost \/ x)
        BY <2>1 DEF RunStep, ScrapeFails, KickRecompute, FinishArchive, ScrapeAndIndex, ReadNothing,
           ReadArchive, SynthesisFails, Synthesize, SaveProfile, FinishRecompute, ClaimSome, ClaimJob,
           ClaimNothing, KillRun, SaveFails, socialVars
    <2>2. ASSUME NEW m \in MediaRun, MediaStep(m) \/ ClaimMediaSome(m) \/ KillMedia(m)
          PROVE  lost' = lost
        BY <2>2 DEF MediaStep, FinishMedia, AnalyzeAsset, ClaimMediaSome, ClaimMedia, KillMedia
    <2>3. RequestStep \/ Arrival => lost' = lost \/ \E x : lost' = (lost \/ x)
        BY DEF RequestStep, Arrival, Connect, PollLinkedIn, ConnectLinkedIn, Deploy, Sweep,
           ManualRefresh, PollServe, PollBuild, PollSave, Land
    <2>. QED  BY <2>1, <2>2, <2>3 DEF SocialNext
<1>3. ~lost' => ~lost
    BY <1>2
<1>4. faults' = 0 => faults = 0
    <2>. faults \in Nat
        BY SocialAssumption DEF TInv, SocialTypeOK
    <2>. QED  BY <1>1
<1>. QED  BY <1>3, <1>4

\* A step that leaves the profile alone, after which the media that are analyzed
\* and not awaited were so before.
LEMMA FollowKeeps ==
    ASSUME TInv, SocialNext, Followed, ReadsStay, profile' = profile,
           \A a \in Asset : asset'[a] = "completed" /\ ~Awaited(a)'
                                => asset[a] = "completed" /\ ~Awaited(a)
    PROVE  Followed'
<1>1. (~lost' => ~lost) /\ (faults' = 0 => faults = 0)
    BY Lasting
<1>. QED  BY <1>1 DEF Followed, ReadsStay

\* What keeps a medium awaited.
LEMMA AwaitedKeeps ==
    ASSUME \A m \in MediaRun : media[m].on /\ media[m].affected => media'[m].on /\ media'[m].affected,
           \A k \in Recompute : job[k].status \in {"queued", "failed"}
                                    => job'[k].status \in {"queued", "failed"},
           \A r \in RecomputeRun : run'[r] = run[r], NEW a
    PROVE  Awaited(a) => Awaited(a)'
<1>1. \A r \in RecomputeRun : Awaits(r, a) => Awaits(r, a)'
    BY DEF Awaits, Reads
<1>. QED  BY <1>1 DEF Awaited

\* The jobs of the accounts are no concern of the recomputes.
LEMMA OvertakeApart ==
    ASSUME TInv, NEW k \in Platform, NEW by, NEW r \in RecomputeRun
    PROVE  Overtake(k, by)[r] = run[r]
<1>1. r \in Run /\ (Working(r) => run[r].key # k)
    BY SocialAssumption DEF Run, TInv, KeysOwn, Drains, Recompute
<1>. QED  BY <1>1 DEF Overtake

\* The steps of social-archive.
LEMMA ArchiveFollowed ==
    ASSUME SInv, SocialNext, NEW r \in Run,
           \/ ScrapeFails(r) \/ KickRecompute(r) \/ FinishArchive(r)
           \/ \E posts \in BOOLEAN, new \in SUBSET Asset, depth \in {"more", "short", "done"} :
                 ScrapeAndIndex(r, posts, new, depth)
    PROVE  MediaThere' /\ Followed'
<1>. USE DEF SInv, XInv
<1>0. run \in [Run -> Invocation] /\ job \in [Key -> Row] /\ asset \in [Asset -> {"absent", "pending", "processing", "completed", "failed"}]
    BY DEF TInv, SocialTypeOK
<1>1. r \in ArchiveRun /\ r \notin RecomputeRun /\ run[r].key \in Platform
    BY SocialAssumption DEF ScrapeFails, KickRecompute, FinishArchive, ScrapeAndIndex, TInv, KeysOwn,
       Working, Drains
<1>2. ReadsStay /\ profile' = profile
    BY RunReads
<1>3. CASE ScrapeFails(r) \/ FinishArchive(r)
    <2>1. \A k \in Recompute : job'[k] = job[k]
        BY <1>0, <1>1, <1>3, KeyParts, SocialAssumption
           DEF ScrapeFails, FinishArchive, FailJob, CompleteJob, Enqueue, Recompute
    <2>2. \A s \in RecomputeRun : run'[s] = run[s]
        <3>1. run' = [Overtake(run[r].key, r) EXCEPT ![r] = NoJob]
            BY <1>3 DEF ScrapeFails, FinishArchive, LeaveJob
        <3>2. Overtake(run[r].key, r) \in [Run -> Invocation]
            BY OvertakeType DEF TInv
        <3>. QED  BY <1>1, <3>1, <3>2, OvertakeApart DEF Run
    <2>3. UNCHANGED <<media, archived, asset>>
        BY <1>3 DEF ScrapeFails, FinishArchive
    <2>4. Followed'
        BY <1>2, <2>1, <2>2, <2>3, AwaitedKeeps, FollowKeeps
    <2>. QED  BY <2>3, <2>4 DEF MediaThere
<1>4. CASE KickRecompute(r)
    <2>1. \A a : Awaited(a)'
        <3>. DEFINE k == RecomputeKey(run[r].kind)
        <3>1. k \in Recompute /\ job'[k].status = "queued"
            BY <1>0, <1>4, KeyParts DEF KickRecompute, Enqueue, RecomputeKey, Recompute
        <3>. QED  BY <3>1 DEF Awaited
    <2>2. UNCHANGED <<media, archived, asset>>
        BY <1>4 DEF KickRecompute
    <2>. QED  BY <1>2, <2>1, <2>2, FollowKeeps DEF MediaThere
<1>5. ASSUME NEW posts \in BOOLEAN, NEW new \in SUBSET Asset,
             NEW depth \in {"more", "short", "done"}, ScrapeAndIndex(r, posts, new, depth)
      PROVE  MediaThere' /\ Followed'
    <2>1. \A s \in RecomputeRun : run'[s] = run[s]
        BY <1>0, <1>1, <1>5 DEF ScrapeAndIndex, Run
    <2>2. UNCHANGED <<job, media>>
        BY <1>5 DEF ScrapeAndIndex
    <2>3. \A a \in Asset : asset'[a] = "completed" => asset[a] = "completed"
        BY <1>0, <1>5 DEF ScrapeAndIndex, Index
    <2>4. Followed'
        BY <1>2, <2>1, <2>2, <2>3, AwaitedKeeps, FollowKeeps
    <2>5. MediaThere'
        <3>1. archived' = {} => archived = {} /\ new = {}
            BY <1>1, <1>5 DEF ScrapeAndIndex, Index
        <3>2. new = {} => asset' = asset
            BY <1>0, <1>5 DEF ScrapeAndIndex, Index
        <3>3. \A a \in Asset : asset[a] # "absent" => asset'[a] # "absent"
            BY <1>0, <1>5 DEF ScrapeAndIndex, Index
        <3>4. \A m \in MediaRun : media[m].batch \subseteq Asset
            BY DEF TInv, SocialTypeOK
        <3>. QED  BY <2>2, <3>1, <3>2, <3>3, <3>4 DEF MediaThere
    <2>. QED  BY <2>4, <2>5
<1>. QED  BY <1>3, <1>4, <1>5

\* The steps of preference-recompute.
LEMMA RecomputeFollowed ==
    ASSUME SInv, SocialNext, NEW r \in Run,
           \/ ReadNothing(r) \/ ReadArchive(r) \/ SynthesisFails(r)
           \/ \E new \in SUBSET Question : Synthesize(r, new)
           \/ SaveProfile(r) \/ FinishRecompute(r)
    PROVE  MediaThere' /\ Followed'
<1>. USE DEF SInv, XInv
<1>0. run \in [Run -> Invocation] /\ job \in [Key -> Row] /\ run[r] \in Invocation
    BY DEF TInv, SocialTypeOK
<1>1. UNCHANGED <<media, archived, asset>>
    BY DEF ReadNothing, ReadArchive, SynthesisFails, Synthesize, SaveProfile, FinishRecompute
<1>2. MediaThere'
    BY <1>1 DEF MediaThere
<1>3. CASE ReadNothing(r)
    <2>1. CASE archived = {}
        <3>1. \A a \in Asset : asset[a] # "completed"
            BY <2>1 DEF MediaThere
        <3>. QED  BY <1>1, <1>2, <3>1 DEF Followed
    <2>2. CASE archived # {}
        <3>1. faults' # 0
            BY <1>3, <2>2, SocialAssumption DEF ReadNothing, ReadSwallowed, TInv, SocialTypeOK
        <3>. QED  BY <1>2, <3>1 DEF Followed
    <2>. QED  BY <2>1, <2>2
<1>4. CASE ReadArchive(r)
    <2>0. CASE ~UNCHANGED faults
        <3>1. faults' # 0
            BY <1>4, <2>0, ArchiveRead, SocialAssumption DEF ReadSwallowed, TInv, SocialTypeOK
        <3>. QED  BY <1>2, <3>1 DEF Followed
    <2>. SUFFICES ASSUME UNCHANGED faults PROVE MediaThere' /\ Followed'
        BY <2>0
    <2>1. /\ Analyzed = {a \in Asset : asset[a] = "completed"}
          /\ \A s \in Run \ {r} : run'[s] = run[s]
        BY <1>4, ArchiveRead DEF Analyzed, TInv, SocialTypeOK
    <2>2. run'[r].pc = "synth" /\ run'[r].read = Analyzed /\ run'[r].overtaken = run[r].overtaken
        BY <1>4, ArchiveRead DEF TInv
    <2>3. ASSUME NEW a \in Asset, asset[a] = "completed", ~Awaited(a)' PROVE ~Awaited(a)
        <3>1. Awaits(r, a) => Awaits(r, a)'
            BY <2>1, <2>2, <2>3 DEF Awaits, Reads
        <3>2. \A s \in RecomputeRun : Awaits(s, a) => Awaits(s, a)'
            BY <2>1, <3>1 DEF Awaits, Reads, Run
        <3>. QED  BY <1>1, <1>4, <2>3, <3>2 DEF ReadArchive, Awaited
    <2>4. \A s \in Run \ {r} : (Reads(s) /\ ~run[s].stale)' => Reads(s) /\ ~run[s].stale
        BY <2>1 DEF Reads
    <2>5. (~lost' => ~lost) /\ (faults' = 0 => faults = 0) /\ profile' = profile
        BY <1>4, Lasting DEF ReadArchive, profileVars
    <2>6. SUFFICES ASSUME ~lost, faults = 0, NEW a \in Asset, asset[a] = "completed", ~Awaited(a)'
                   PROVE  /\ a \in profile.read
                          /\ \A s \in Run : (Reads(s) /\ ~run[s].stale)' => a \in run'[s].read
        BY <1>1, <1>2, <2>5 DEF Followed
    <2>7. /\ a \in profile.read
          /\ \A s \in Run : Reads(s) /\ ~run[s].stale => a \in run[s].read
        BY <2>3, <2>6 DEF Followed
    <2>. QED  BY <2>1, <2>2, <2>4, <2>6, <2>7
<1>5. CASE SynthesisFails(r)
    <2>1. run[r].key \in Recompute
        BY <1>5, SocialAssumption DEF SynthesisFails, TInv, KeysOwn, Working, Reads, Drains
    <2>2. \A a : Awaited(a)'
        BY <1>0, <1>5, <2>1, KeyParts DEF SynthesisFails, FailJob, Awaited
    <2>. QED  BY <1>2, <1>5, <2>2, RunReads, FollowKeeps
<1>6. ASSUME NEW new \in SUBSET Question, Synthesize(r, new) PROVE MediaThere' /\ Followed'
    <2>1. /\ run'[r].pc = "save" /\ run'[r].read = run[r].read
          /\ run'[r].stale = run[r].stale /\ run'[r].overtaken = run[r].overtaken
          /\ \A s \in Run \ {r} : run'[s] = run[s]
        BY <1>0, <1>6 DEF Synthesize, Invocation
    <2>2. \A s \in Run : /\ Reads(s)' <=> Reads(s)
                         /\ run'[s].read = run[s].read /\ run'[s].stale = run[s].stale
                         /\ \A a : Awaits(s, a) => Awaits(s, a)'
        BY <1>6, <2>1 DEF Synthesize, Reads, Awaits
    <2>3. \A a : Awaited(a) => Awaited(a)'
        BY <1>1, <1>6, <2>2 DEF Synthesize, Awaited, Run
    <2>4. (~lost' => ~lost) /\ (faults' = 0 => faults = 0) /\ profile' = profile
        BY <1>6, Lasting DEF Synthesize, profileVars
    <2>5. Followed'
        BY <1>1, <2>2, <2>3, <2>4 DEF Followed
    <2>. QED  BY <1>2, <2>5
<1>7. CASE SaveProfile(r)
    <2>1. /\ run' = [MarkStale(r) EXCEPT ![r].pc = "finish"]
          /\ MarkStale(r) \in [Run -> Invocation]
          /\ profile'.read = run[r].read /\ Reads(r) /\ job' = job
        BY <1>7, MarkStaleType DEF SaveProfile, TInv, Reads
    <2>2. \A s \in Run \ {r} : run'[s] = MarkStale(r)[s]
        BY <2>1
    <2>3. \A s \in Run \ {r}, a \in Asset : Awaits(s, a) => Awaits(s, a)'
        BY <2>2, MarkStaleKeeps DEF Awaits, Reads, TInv
    <2>4. ASSUME NEW a \in Asset, Awaited(a), ~Awaited(a)' PROVE a \in run[r].read
        <3>1. PICK s \in RecomputeRun : Awaits(s, a)
            BY <1>1, <2>1, <2>4 DEF Awaited
        <3>2. s = r
            BY <2>3, <2>4, <3>1 DEF Awaited, Run
        <3>. QED  BY <2>1, <3>1, <3>2 DEF Awaits, Reads
    <2>5. (~lost' => ~lost /\ ~run[r].stale) /\ (faults' = 0 => faults = 0)
        BY <1>7, Lasting DEF SaveProfile
    <2>6. SUFFICES ASSUME ~lost, ~run[r].stale, faults = 0,
                          NEW a \in Asset, asset[a] = "completed", ~Awaited(a)'
                   PROVE  a \in run[r].read
        BY <1>1, <1>2, <1>7, <2>1, <2>5, SaveMarks DEF Followed
    <2>. QED  BY <2>1, <2>4, <2>6 DEF Followed
<1>8. CASE FinishRecompute(r)
    <2>1. CASE lost'
        BY <1>2, <2>1 DEF Followed
    <2>2. CASE ~lost'
        <3>1. ~run[r].overtaken /\ Working(r) /\ run[r].pc = "finish" /\ r \in RecomputeRun
            BY <1>8, <2>2 DEF FinishRecompute, Working
        <3>2. job[run[r].key].status = "processing" /\ run[r].key \in Key
            BY <3>1, KeyParts DEF OneWorker, TInv, KeysOwn, Drains
        <3>3. \A k \in Recompute : job[k].status \in {"queued", "failed"}
                                      => job'[k].status \in {"queued", "failed"}
            BY <1>0, <1>8, <3>2, KeyParts DEF FinishRecompute, CompleteJob
        <3>4. ASSUME NEW s \in RecomputeRun, NEW a, Awaits(s, a) PROVE Awaits(s, a)'
            <4>1. s \in Run \ {r}
                BY <3>1, <3>4 DEF Awaits, Reads, Run
            <4>2. run'[s] = Overtake(run[r].key, r)[s]
                BY <1>8, <4>1, OvertakeType DEF FinishRecompute, LeaveJob, TInv
            <4>3. ~(Working(s) /\ run[s].key = run[r].key)
                BY <3>1, <3>4, <4>1 DEF OneWorker, Awaits
            <4>. QED  BY <3>4, <4>1, <4>2, <4>3 DEF Overtake, Awaits, Reads
        <3>5. \A a : Awaited(a) => Awaited(a)'
            BY <1>1, <3>3, <3>4 DEF Awaited
        <3>. QED  BY <1>1, <1>2, <1>8, <3>5, RunReads, FollowKeeps
    <2>. QED  BY <2>1, <2>2
<1>. QED  BY <1>3, <1>4, <1>5, <1>6, <1>7, <1>8

\* The claims, and the faults.
LEMMA ClaimFollowed ==
    ASSUME SInv, SocialNext, NEW r \in Run,
           ClaimSome(r) \/ ClaimNothing(r) \/ KillRun(r) \/ SaveFails(r)
    PROVE  MediaThere' /\ Followed'
<1>. USE DEF SInv, XInv
<1>0. run \in [Run -> Invocation] /\ job \in [Key -> Row]
    BY DEF TInv, SocialTypeOK
<1>1. UNCHANGED <<media, archived, asset>>
    BY DEF ClaimSome, ClaimJob, ClaimNothing, KillRun, SaveFails, socialVars
<1>2. MediaThere'
    BY <1>1 DEF MediaThere
<1>3. CASE KillRun(r) \/ SaveFails(r)
    <2>1. faults \in Nat /\ faults' = faults + 1
        BY <1>3, SocialAssumption DEF KillRun, SaveFails, TInv, SocialTypeOK
    <2>2. faults' # 0
        BY <2>1
    <2>. QED  BY <1>2, <2>2 DEF Followed
<1>4. CASE ClaimNothing(r)
    BY <1>1, <1>2, <1>4
       DEF ClaimNothing, socialVars, jobVars, profileVars, countVars, Followed, Awaited, Awaits, Reads
<1>5. ASSUME NEW k \in Key, ClaimJob(r, k) PROVE Followed'
    <2>1. /\ run[r].pc = "idle" /\ run'[r].pc = "work" /\ ~run'[r].overtaken
          /\ \A s \in Run \ {r} : run'[s] = run[s]
          /\ \A j \in Key \ {k} : job'[j] = job[j]
        BY <1>0, <1>5 DEF ClaimJob, NoJob
    <2>2. CASE r \in RecomputeRun
        <3>1. \A a : Awaited(a)'
            <4>1. \A a : Awaits(r, a)'
                BY <2>1 DEF Awaits
            <4>. QED  BY <2>2, <4>1 DEF Awaited
        <3>. QED  BY <1>5, <3>1, RunReads, FollowKeeps DEF ClaimSome
    <2>3. CASE r \notin RecomputeRun
        <3>1. k \notin Recompute
            BY <1>5, <2>3, SocialAssumption DEF ClaimJob, Drains, Run, Recompute
        <3>2. (\A j \in Recompute : job'[j] = job[j]) /\ \A s \in RecomputeRun : run'[s] = run[s]
            BY <2>1, <2>3, <3>1, KeyParts DEF Run
        <3>3. \A a : Awaited(a) => Awaited(a)'
            BY <1>1, <3>2, AwaitedKeeps
        <3>. QED  BY <1>1, <1>5, <3>3, RunReads, FollowKeeps DEF ClaimSome
    <2>. QED  BY <2>2, <2>3
<1>. QED  BY <1>2, <1>3, <1>4, <1>5 DEF ClaimSome

\* The steps of media-analyze.
LEMMA MediaRunFollowed ==
    ASSUME SInv, SocialNext, NEW m \in MediaRun, MediaStep(m) \/ ClaimMediaSome(m) \/ KillMedia(m)
    PROVE  MediaThere' /\ Followed'
<1>. USE DEF SInv, XInv
<1>0. /\ media \in [MediaRun -> [on : BOOLEAN, batch : SUBSET Asset, affected : BOOLEAN]]
      /\ asset \in [Asset -> {"absent", "pending", "processing", "completed", "failed"}]
      /\ job \in [Key -> Row]
    BY DEF TInv, SocialTypeOK
<1>1. ReadsStay /\ profile' = profile
    BY OtherReads
<1>2. CASE FinishMedia(m)
    <2>1. media' = [media EXCEPT ![m] = [on |-> FALSE, batch |-> {}, affected |-> FALSE]]
          /\ UNCHANGED <<archived, asset>>
        BY <1>2 DEF FinishMedia
    <2>2. MediaThere'
        BY <1>0, <2>1 DEF MediaThere
    <2>3. \A a : Awaited(a) => Awaited(a)'
        <3>1. CASE media[m].affected
            <4>1. "latest" \in Recompute /\ job'["latest"].status = "queued"
                BY <1>0, <1>2, <3>1, KeyParts DEF FinishMedia, Enqueue, Recompute
            <4>. QED  BY <4>1 DEF Awaited
        <3>2. CASE ~media[m].affected
            BY <1>0, <1>2, <2>1, <3>2, AwaitedKeeps DEF FinishMedia, jobVars
        <3>. QED  BY <3>1, <3>2
    <2>. QED  BY <1>1, <2>1, <2>2, <2>3, FollowKeeps
<1>3. ASSUME NEW a \in Asset, NEW outcome \in {"completed", "failed"}, AnalyzeAsset(m, a, outcome)
      PROVE  MediaThere' /\ Followed'
    <2>1. /\ a \in media[m].batch /\ asset' = [asset EXCEPT ![a] = outcome]
          /\ archived' = archived /\ job' = job /\ run' = run
          /\ \A n \in MediaRun \ {m} : media'[n] = media[n]
          /\ media'[m].batch = media[m].batch \ {a} /\ media'[m].on = media[m].on
          /\ (media'[m].affected <=> media[m].affected \/ outcome = "completed")
        BY <1>0, <1>3 DEF AnalyzeAsset, jobVars
    <2>2. media[m].on /\ archived # {}
        BY <2>1 DEF MediaThere
    <2>3. MediaThere'
        BY <1>0, <2>1, <2>2 DEF MediaThere
    <2>4. \A b : Awaited(b) => Awaited(b)'
        BY <2>1, AwaitedKeeps
    <2>5. outcome = "completed" => \A b : Awaited(b)'
        BY <2>1, <2>2 DEF Awaited
    <2>6. outcome # "completed" => \A b \in Asset : asset'[b] = "completed" => asset[b] = "completed"
        BY <1>0, <2>1
    <2>. QED  BY <1>1, <2>3, <2>4, <2>5, <2>6, FollowKeeps
<1>4. ASSUME NEW batch \in SUBSET Asset, ClaimMedia(m, batch) PROVE MediaThere' /\ Followed'
    <2>1. /\ ~media[m].on /\ batch \subseteq PendingMedia
          /\ asset' = [a \in Asset |-> IF a \in batch THEN "processing" ELSE asset[a]]
          /\ media' = [media EXCEPT ![m] = [on |-> TRUE, batch |-> batch, affected |-> FALSE]]
          /\ UNCHANGED <<archived, job, run>>
        BY <1>4 DEF ClaimMedia, jobVars
    <2>2. archived = {} => batch = {}
        BY <2>1 DEF MediaThere, PendingMedia
    <2>3. \A n \in MediaRun : media[n].batch \subseteq Asset
        BY <1>0
    <2>4. MediaThere'
        BY <1>0, <2>1, <2>2, <2>3 DEF MediaThere
    <2>5. \A b : Awaited(b) => Awaited(b)'
        BY <1>0, <2>1, AwaitedKeeps
    <2>6. \A b \in Asset : asset'[b] = "completed" => asset[b] = "completed"
        BY <1>0, <2>1
    <2>. QED  BY <1>1, <2>4, <2>5, <2>6, FollowKeeps
<1>5. CASE KillMedia(m)
    <2>1. faults \in Nat /\ faults' = faults + 1
        BY <1>5, SocialAssumption DEF KillMedia, TInv, SocialTypeOK
    <2>2. Followed'
        BY <2>1 DEF Followed
    <2>3. MediaThere'
        BY <1>0, <1>5 DEF KillMedia, MediaThere
    <2>. QED  BY <2>2, <2>3
<1>. QED  BY <1>2, <1>3, <1>4, <1>5 DEF MediaStep, ClaimMediaSome

\* The requests, and what they send.
LEMMA RequestFollowed ==
    ASSUME SInv, SocialNext, RequestStep \/ Arrival
    PROVE  MediaThere' /\ Followed'
<1>. USE DEF SInv, XInv
<1>0. /\ asset \in [Asset -> {"absent", "pending", "processing", "completed", "failed"}]
      /\ job \in [Key -> Row]
      /\ \A m \in MediaRun : media[m].batch \subseteq Asset
    BY DEF TInv, SocialTypeOK
<1>a. (~lost' => ~lost) /\ (faults' = 0 => faults = 0)
    BY Lasting
<1>1. ASSUME NEW k \in Key, NEW kind, Enqueue(k, kind, 1, FALSE), run' = Overtake(k, NoKey),
             UNCHANGED <<media, archived, asset, profile>>
      PROVE  MediaThere' /\ Followed'
    <2>1. job'[k].status = "queued" /\ \A j \in Key \ {k} : job'[j] = job[j]
        BY <1>0, <1>1 DEF Enqueue
    <2>2. CASE k \in Recompute
        <3>1. \A a : Awaited(a)'
            BY <2>1, <2>2 DEF Awaited
        <3>. QED  BY <1>1, <3>1, EnqueueReads, FollowKeeps DEF MediaThere
    <2>3. CASE k \notin Recompute
        <3>1. \A s \in RecomputeRun : run'[s] = run[s]
            BY <1>1, <2>3, OvertakeApart DEF Key
        <3>2. \A j \in Recompute : job'[j] = job[j]
            BY <2>1, <2>3, KeyParts
        <3>3. \A a : Awaited(a) => Awaited(a)'
            BY <1>1, <3>1, <3>2, AwaitedKeeps
        <3>. QED  BY <1>1, <3>3, EnqueueReads, FollowKeeps DEF MediaThere
    <2>. QED  BY <2>2, <2>3
<1>2. ASSUME UNCHANGED <<jobVars, media>>, profile'.read = profile.read,
             \A a \in Asset : asset'[a] = "completed" => asset[a] = "completed"
      PROVE  Followed'
    <2>1. /\ \A a : Awaited(a)' <=> Awaited(a)
          /\ \A s \in Run : Reads(s)' <=> Reads(s)
          /\ run' = run
        BY <1>2 DEF jobVars, Awaited, Awaits, Reads
    <2>. QED  BY <1>2, <1>a, <2>1 DEF Followed
<1>3. ASSUME NEW p \in Platform, Connect(p) PROVE MediaThere' /\ Followed'
    BY <1>1, <1>3, KeyParts DEF Connect, profileVars
<1>4. ASSUME NEW e \in sent, Land(e) PROVE MediaThere' /\ Followed'
    <2>1. e[1] \in Key
        BY DEF TInv, SocialTypeOK
    <2>. QED  BY <1>1, <1>4, <2>1 DEF Land, profileVars
<1>5. CASE PollSave
    <2>1. UNCHANGED <<job, media, archived, asset>> /\ profile'.read = {}
          /\ (~lost' => profile.version = "none")
        BY <1>5 DEF PollSave
    <2>2. \A s \in Run : /\ run'[s].pc = run[s].pc /\ run'[s].read = run[s].read
                         /\ run'[s].overtaken = run[s].overtaken
        BY <1>5, MarkStaleKeeps DEF PollSave, TInv
    <2>3. \A a : Awaited(a) => Awaited(a)'
        BY <2>1, <2>2 DEF Awaited, Awaits, Reads, Run
    <2>4. ~lost' => profile.read = {}
        BY <2>1 DEF PriorKept
    <2>5. Followed'
        BY <1>5, <1>a, <2>1, <2>3, <2>4, PollSaveMarks DEF Followed
    <2>. QED  BY <2>1, <2>5 DEF MediaThere
<1>6. ASSUME NEW old \in SUBSET Asset, RequeueMedia(old), UNCHANGED <<jobVars, media, archived, profile>>
      PROVE  MediaThere' /\ Followed'
    <2>1. /\ \A a \in Asset : asset'[a] = "completed" => asset[a] = "completed"
          /\ \A a \in Asset : asset[a] = "absent" <=> asset'[a] = "absent"
        BY <1>0, <1>6 DEF RequeueMedia
    <2>2. Followed'
        BY <1>2, <1>6, <2>1
    <2>3. MediaThere'
        BY <1>0, <1>6, <2>1 DEF MediaThere
    <2>. QED  BY <2>2, <2>3
<1>7. ASSUME UNCHANGED <<jobVars, media, archived, asset>>, profile'.read = profile.read
      PROVE  MediaThere' /\ Followed'
    BY <1>2, <1>7 DEF MediaThere
<1>8. ASSUME NEW old \in SUBSET Asset, Sweep(old) PROVE MediaThere' /\ Followed'
    BY <1>6, <1>8 DEF Sweep, profileVars
<1>9. ASSUME NEW old \in SUBSET Asset, NEW thin \in SUBSET Platform, ManualRefresh(thin, old)
      PROVE  MediaThere' /\ Followed'
    BY <1>6, <1>9 DEF ManualRefresh, profileVars
<1>10. ASSUME NEW p, PollLinkedIn(p) \/ ConnectLinkedIn PROVE MediaThere' /\ Followed'
    BY <1>7, <1>10 DEF PollLinkedIn, ConnectLinkedIn, profileVars
<1>11. ASSUME NEW refresh, PollServe(refresh) PROVE MediaThere' /\ Followed'
    BY <1>7, <1>11 DEF PollServe
<1>12. CASE Deploy
    <2>1. profile'.read = profile.read
        BY <1>12 DEF Deploy, TInv, SocialTypeOK
    <2>. QED  BY <1>7, <1>12, <2>1 DEF Deploy
<1>13. ASSUME NEW fill, NEW answers, NEW evidence \in SUBSET FeedPlatform, NEW new \in SUBSET Asset,
              PollBuild(fill, answers, evidence, new)
       PROVE  MediaThere' /\ Followed'
    <2>1. /\ \A a \in new : asset[a] = "absent"
          /\ archived' = archived \cup evidence
          /\ asset' = [a \in Asset |-> IF a \in new THEN "pending" ELSE asset[a]]
          /\ new # {} => evidence # {}
          /\ UNCHANGED <<jobVars, media, profile>>
        BY <1>13 DEF PollBuild, Index
    <2>2. Followed'
        BY <1>2, <2>1
    <2>3. \A a \in Asset : asset[a] # "absent" => asset'[a] # "absent"
        BY <2>1
    <2>4. archived' = {} => archived = {} /\ \A a \in Asset : asset'[a] = asset[a]
        BY <2>1
    <2>5. MediaThere'
        BY <1>0, <2>1, <2>3, <2>4 DEF MediaThere
    <2>. QED  BY <2>2, <2>5
<1>. QED  BY <1>3, <1>4, <1>5, <1>8, <1>9, <1>10, <1>11, <1>12, <1>13 DEF RequestStep, Arrival

\* The inductive invariant of the social refresh.
LEMMA StepFollowed == SInv /\ [SocialNext]_socialVars => SInv'
<1>. SUFFICES ASSUME SInv, [SocialNext]_socialVars PROVE SInv'
    OBVIOUS
<1>1. XInv' /\ PriorKept'
    BY StepOneWorker, StepPriorKept DEF SInv, XInv
<1>2. CASE UNCHANGED socialVars
    <2>1. MediaThere' /\ Followed'
        BY <1>2 DEF SInv, socialVars, jobVars, profileVars, countVars, MediaThere, Followed,
                    Awaited, Awaits, Reads
    <2>. QED  BY <1>1, <2>1 DEF SInv
<1>3. CASE SocialNext
    <2>1. ASSUME NEW r \in Run,
                 RunStep(r) \/ ClaimSome(r) \/ ClaimNothing(r) \/ KillRun(r) \/ SaveFails(r)
          PROVE  MediaThere' /\ Followed'
        BY <1>3, <2>1, ArchiveFollowed, RecomputeFollowed, ClaimFollowed DEF RunStep
    <2>2. MediaThere' /\ Followed'
        BY <1>3, <2>1, MediaRunFollowed, RequestFollowed DEF SocialNext
    <2>. QED  BY <1>1, <2>2 DEF SInv
<1>. QED  BY <1>2, <1>3

\* Every medium that is analyzed is followed by a recompute that reads it.
LEMMA FollowedAlways == SocialSpec => []SInv
<1>1. SocialInit => SInv
    <2>. SUFFICES ASSUME SocialInit PROVE SInv
        OBVIOUS
    <2>1. XInv
        BY InitTyped DEF XInv, OneWorker, SocialInit, Working, NoJob
    <2>2. PriorKept /\ MediaThere /\ Followed
        BY DEF SocialInit, PriorKept, MediaThere, Followed, Reads, NoJob
    <2>. QED  BY <2>1, <2>2 DEF SInv
<1>. QED  BY <1>1, StepFollowed, PTL DEF SocialSpec

\* At rest the profile has them all.
LEMMA QuietCovers == SInv => ProfileCoversMedia
<1>. SUFFICES ASSUME SInv, Quiet, ~lost, faults = 0,
                     \A k \in Recompute : job[k].status # "failed", NEW a \in Analyzed
              PROVE  a \in profile.read
    BY DEF ProfileCoversMedia
<1>1. DOMAIN job = Key /\ DOMAIN run = Run /\ DOMAIN asset = Asset
    BY DEF SInv, XInv, TInv, SocialTypeOK
<1>2. \A k \in Recompute : job[k].status \notin {"queued", "failed"}
    BY <1>1, KeyParts DEF Quiet, Pending, Unfinished
<1>3. \A r \in RecomputeRun : run[r].pc = "idle"
    BY <1>1 DEF Quiet, Busy, Run
<1>4. ~Awaited(a)
    BY <1>2, <1>3 DEF Awaited, Awaits, Reads, Quiet
<1>. QED  BY <1>1, <1>4 DEF SInv, Followed, Analyzed

\* When nothing is in flight, no recompute was given up and nothing was lost, the
\* profile was made from every medium analyzed so far: every one that finishes is
\* followed by a recompute that reads it (media-analyze).
THEOREM ProfileCatchesUp == SocialSpec => []ProfileCoversMedia
BY FollowedAlways, QuietCovers, PTL

-----------------------------------------------------------------------------
(* The floor                                                               *)

\* A medium that is there and was not analyzed when `read` was.
Missed(read) == \E a \in Asset : a \notin read /\ asset[a] # "absent"

\* What is not revealed has missed one: an invocation that saw media open, and
\* the profile it saved.
Withheld ==
    /\ \A r \in Run : Reads(r) /\ run[r].open => Missed(run[r].read)
    /\ profile.version \in {"current", "old"} /\ ~profile.settled => Missed(profile.read)

\* Media do not go away.
MediaStay == \A a \in Asset : asset[a] # "absent" => asset'[a] # "absent"

LEMMA IndexStays ==
    ASSUME SocialTypeOK, NEW platforms, NEW new, Index(platforms, new)
    PROVE  MediaStay
BY DEF Index, MediaStay

LEMMA RequeueStays ==
    ASSUME SocialTypeOK, NEW old, RequeueMedia(old)
    PROVE  MediaStay
BY DEF RequeueMedia, MediaStay

LEMMA StepMediaStay ==
    ASSUME TInv, [SocialNext]_socialVars
    PROVE  MediaStay
<1>0. SocialTypeOK /\ asset \in [Asset -> {"absent", "pending", "processing", "completed", "failed"}]
    BY DEF TInv, SocialTypeOK
<1>1. asset' = asset => MediaStay
    BY DEF MediaStay
<1>2. ASSUME NEW r \in Run,
             RunStep(r) \/ ClaimSome(r) \/ ClaimNothing(r) \/ KillRun(r) \/ SaveFails(r)
      PROVE  MediaStay
    <2>1. ASSUME NEW posts, NEW new, NEW depth, ScrapeAndIndex(r, posts, new, depth) PROVE MediaStay
        BY <1>0, <2>1, IndexStays DEF ScrapeAndIndex
    <2>2. asset' = asset \/ \E posts, new, depth : ScrapeAndIndex(r, posts, new, depth)
        BY <1>2 DEF RunStep, ScrapeFails, KickRecompute, FinishArchive, ReadNothing, ReadArchive,
           SynthesisFails, Synthesize, SaveProfile, FinishRecompute, ClaimSome, ClaimJob,
           ClaimNothing, KillRun, SaveFails, socialVars
    <2>. QED  BY <1>1, <2>1, <2>2
<1>3. ASSUME NEW m \in MediaRun, MediaStep(m) \/ ClaimMediaSome(m) \/ KillMedia(m) PROVE MediaStay
    <2>1. ASSUME NEW batch, ClaimMedia(m, batch) PROVE MediaStay
        BY <1>0, <2>1 DEF ClaimMedia, MediaStay
    <2>2. ASSUME NEW a \in Asset, NEW outcome \in {"completed", "failed"}, AnalyzeAsset(m, a, outcome)
          PROVE  MediaStay
        BY <1>0, <2>2 DEF AnalyzeAsset, MediaStay
    <2>3. FinishMedia(m) \/ KillMedia(m) => asset' = asset
        BY DEF FinishMedia, KillMedia
    <2>. QED  BY <1>1, <1>3, <2>1, <2>2, <2>3 DEF MediaStep, ClaimMediaSome
<1>4. ASSUME RequestStep \/ Arrival PROVE MediaStay
    <2>1. \/ asset' = asset \/ (\E old : RequeueMedia(old))
          \/ (\E platforms, new : Index(platforms, new))
        BY <1>4 DEF RequestStep, Arrival, Connect, PollLinkedIn, ConnectLinkedIn, Deploy, Sweep,
           ManualRefresh, PollServe, PollBuild, PollSave, Land
    <2>. QED  BY <1>0, <1>1, <2>1, RequeueStays, IndexStays
<1>5. UNCHANGED socialVars => asset' = asset
    BY DEF socialVars
<1>. QED  BY <1>1, <1>2, <1>3, <1>4, <1>5 DEF SocialNext

LEMMA StepWithheld ==
    ASSUME TInv, Withheld, [SocialNext]_socialVars
    PROVE  Withheld'
<1>0. run \in [Run -> Invocation] /\ MediaStay
    BY StepMediaStay DEF TInv, SocialTypeOK
<1>1. ASSUME NEW read, Missed(read) PROVE \E a \in Asset : a \notin read /\ asset'[a] # "absent"
    BY <1>0, <1>1 DEF Missed, MediaStay
<1>2. ASSUME ReadsStay, profile' = profile PROVE Withheld'
    BY <1>1, <1>2 DEF ReadsStay, Withheld, Missed
<1>3. CASE UNCHANGED socialVars
    BY <1>2, <1>3 DEF socialVars, jobVars, profileVars, ReadsStay, Reads
<1>4. ASSUME NEW r \in Run, ReadArchive(r) PROVE Withheld'
    <2>1. /\ run'[r].read \subseteq Analyzed /\ (run'[r].open => MediaOpen) /\ asset' = asset
          /\ \A s \in Run \ {r} : run'[s] = run[s]
        BY <1>4, ArchiveRead DEF ReadArchive, TInv
    <2>2. MediaOpen => \E a \in Asset : a \notin Analyzed /\ asset[a] # "absent"
        BY DEF MediaOpen, Analyzed
    <2>3. profile' = profile
        BY <1>4 DEF ReadArchive, profileVars
    <2>4. ASSUME run'[r].open PROVE \E a \in Asset : a \notin run'[r].read /\ asset'[a] # "absent"
        BY <2>1, <2>2, <2>4
    <2>5. \A s \in Run \ {r} : Reads(s)' => Reads(s) /\ run'[s] = run[s]
        BY <2>1 DEF Reads
    <2>. QED  BY <2>1, <2>3, <2>4, <2>5 DEF Withheld, Missed
<1>5. ASSUME NEW r \in Run, NEW new \in SUBSET Question, Synthesize(r, new) PROVE Withheld'
    <2>1. /\ run'[r].read = run[r].read /\ run'[r].open = run[r].open
          /\ \A s \in Run \ {r} : run'[s] = run[s]
        BY <1>0, <1>5 DEF Synthesize, Invocation
    <2>. QED  BY <1>5, <2>1 DEF Synthesize, profileVars, Withheld, Reads, Missed
<1>6. ASSUME NEW r \in Run, SaveProfile(r) PROVE Withheld'
    <2>1. /\ profile'.read = run[r].read /\ Reads(r) /\ asset' = asset
          /\ ~profile'.settled => run[r].open
        BY <1>6 DEF SaveProfile, Reads, Revealed
    <2>2. run' = [MarkStale(r) EXCEPT ![r].pc = "finish"] /\ MarkStale(r) \in [Run -> Invocation]
        BY <1>6, MarkStaleType DEF SaveProfile, TInv
    <2>3. run'[r].pc = "finish" /\ \A s \in Run \ {r} : run'[s] = MarkStale(r)[s]
        BY <2>2 DEF Invocation
    <2>4. \A s \in Run : Reads(s)' => Reads(s) /\ run'[s].open = run[s].open /\ run'[s].read = run[s].read
        BY <2>3, MarkStaleKeeps DEF TInv, Reads
    <2>. QED  BY <2>1, <2>4 DEF Withheld, Missed
<1>7. CASE PollSave
    <2>1. profile'.version = "fast" /\ asset' = asset
        BY <1>7 DEF PollSave
    <2>2. \A s \in Run : Reads(s)' => Reads(s) /\ run'[s].open = run[s].open /\ run'[s].read = run[s].read
        BY <1>7, MarkStaleKeeps DEF PollSave, TInv, Reads
    <2>. QED  BY <2>1, <2>2 DEF Withheld, Missed
<1>8. CASE Deploy
    <2>1. /\ profile.version = "current" /\ profile'.settled = profile.settled
          /\ profile'.read = profile.read /\ asset' = asset /\ run' = run
        BY <1>8 DEF Deploy, TInv, SocialTypeOK, jobVars
    <2>. QED  BY <2>1 DEF Withheld, Missed, Reads
<1>9. ASSUME NEW r \in Run,
             RunStep(r) \/ ClaimSome(r) \/ ClaimNothing(r) \/ KillRun(r) \/ SaveFails(r)
      PROVE  Withheld'
    BY <1>2, <1>4, <1>5, <1>6, <1>9, RunReads DEF RunStep
<1>. QED  BY <1>2, <1>3, <1>7, <1>8, <1>9, OtherReads DEF SocialNext, Arrival

\* An account with a current profile is revealed when nothing is in flight, no
\* medium failed, no recompute was given up, and no write was lost and no call
\* failed before (preference-recompute/route.ts).
THEOREM FloorHoldsWithoutFailures == SocialSpec => []FloorRevealsAnalyzed
<1>1. SocialInit => Withheld
    BY DEF SocialInit, Withheld, Reads, NoJob
<1>2. SInv => TInv
    BY DEF SInv, XInv
<1>3. SInv /\ Withheld => FloorRevealsAnalyzed
    <2>. SUFFICES ASSUME SInv, Withheld, Quiet, faults = 0, ~lost, profile.version = "current",
                         \A k \in Recompute : job[k].status # "failed",
                         \A a \in Asset : asset[a] \in {"absent", "completed"}
                  PROVE  profile.settled
        BY DEF FloorRevealsAnalyzed
    <2>1. Analyzed \subseteq profile.read
        BY QuietCovers DEF ProfileCoversMedia
    <2>2. \A a \in Asset : asset[a] # "absent" => a \in Analyzed
        BY DEF Analyzed, SInv, XInv, TInv, SocialTypeOK
    <2>. QED  BY <2>1, <2>2 DEF Withheld, Missed
<1>. QED  BY <1>1, <1>2, <1>3, StepWithheld, FollowedAlways, PTL DEF SocialSpec
=============================================================================
