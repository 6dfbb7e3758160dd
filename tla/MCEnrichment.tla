---------------------------- MODULE MCEnrichment ----------------------------
(***************************************************************************)
(* Two pipelines that enrich records, for TLC: one pass of the hotel       *)
(* websites (WebsiteBackfill, whose row `run` is `pass` here), and the     *)
(* social refresh on three instances that share its variables: a user's    *)
(* media; the climbs and retries of a LinkedIn member; and the answers of  *)
(* recomputes that overlap, are killed or race with a poll.  A behaviour   *)
(* is about one of them, `part`, and the rest stands still.                *)
(***************************************************************************)
EXTENDS SocialRefresh

CONSTANTS LinkedIn, FirstRun  \* another platform; one of RecomputeRun

VARIABLES part, pass, jobs, scan, fetching, late, applying, up, abandoned,
          maxId, seen, incomplete, steady

Website == INSTANCE WebsiteBackfill WITH
    run <- pass, MaxHotel <- 2, MaxSeen <- 1, Unusable <- {}, Hostless <- {},
    BatchSize <- 2, MaxPending <- 1, MaxAttempts <- 2, Collectors <- 1,
    Delays <- TRUE, AutoStart <- TRUE, Interruptions <- {"crash"}, MaxRuns <- 1

Media == INSTANCE SocialRefresh WITH
    Question <- {}, RecomputeRun <- {FirstRun},
    Requests <- {"connect", "sweep"}, FaultBound <- 0
Ladder == INSTANCE SocialRefresh WITH
    Platform <- {LinkedIn}, FeedPlatform <- {}, Asset <- {}, Question <- {},
    RecomputeRun <- {FirstRun}, TopRung <- 2, AttemptCeiling <- 2,
    Requests <- {"connect", "linkedin", "manual", "poll"}, FaultBound <- 0
Answers == INSTANCE SocialRefresh WITH Asset <- {}

websiteVars == <<pass, jobs, scan, fetching, late, applying, up, abandoned, maxId,
                 seen, incomplete, steady>>
allVars == <<websiteVars, socialVars, part>>

Init ==
    /\ Website!BackfillInit
    /\ \/ part = "website" /\ SocialInit
       \/ part = "media"   /\ Media!SocialInit
       \/ part = "ladder"  /\ Ladder!SocialInit
       \/ part = "answers" /\ Answers!SocialInit
    /\ part # "website" => maxId = 2

Next ==
    /\ \/ part = "website" /\ Website!BackfillNext /\ UNCHANGED socialVars
       \/ /\ \/ part = "media"   /\ Media!SocialNext
             \/ part = "ladder"  /\ Ladder!SocialNext
             \/ part = "answers" /\ Answers!SocialNext
          /\ UNCHANGED websiteVars
    /\ UNCHANGED part

\* The steps that FairSocialSpec has fairness for, of the part that runs.
SomeArrival ==
    \/ part = "media"   /\ Media!Arrival
    \/ part = "ladder"  /\ Ladder!Arrival
    \/ part = "answers" /\ Answers!Arrival
SomeRunStep(r) ==
    \/ part = "media"   /\ r \in Media!Run  /\ Media!RunStep(r)
    \/ part = "ladder"  /\ r \in Ladder!Run /\ Ladder!RunStep(r)
    \/ part = "answers" /\ Answers!RunStep(r)
SomeClaim(r) ==
    \/ part = "media"   /\ r \in Media!Run  /\ Media!ClaimSome(r)
    \/ part = "ladder"  /\ r \in Ladder!Run /\ Ladder!ClaimSome(r)
    \/ part = "answers" /\ Answers!ClaimSome(r)

\* The fairness of each part, while it is the one that runs.
FairSpec ==
    /\ Init /\ [][Next]_allVars
    /\ WF_websiteVars(part = "website" /\ Website!ScanBegin)
    /\ \A s \in Website!Scanner : WF_websiteVars(part = "website" /\ Website!ScanWorks(s))
    /\ \A j \in Website!JobId : WF_websiteVars(part = "website" /\ Website!BackoffElapses(j))
    /\ SF_websiteVars(part = "website" /\ \E j \in Website!JobId : Website!Launch(j))
    /\ WF_websiteVars(part = "website" /\ \E j \in Website!JobId : Website!SaveResult(j))
    /\ WF_websiteVars(part = "website" /\ \E j \in Website!JobId : Website!Apply(j))
    /\ WF_websiteVars(part = "website" /\ Website!Finish)
    /\ WF_socialVars(SomeArrival)
    /\ \A r \in Run : WF_socialVars(SomeRunStep(r)) /\ WF_socialVars(SomeClaim(r))
    /\ \A m \in MediaRun :
          /\ WF_socialVars(part = "media" /\ Media!MediaStep(m))
          /\ WF_socialVars(part = "media" /\ Media!ClaimMediaSome(m))

-----------------------------------------------------------------------------
\* PassCompletes of the website pass, in the behaviours in which it runs.
PassCompletes == part = "website" => Website!PassCompletes
=============================================================================
