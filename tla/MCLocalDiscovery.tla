-------------------------- MODULE MCLocalDiscovery --------------------------
(***************************************************************************)
(* Local Discovery for TLC: the guards of its paid calls and its search    *)
(* sessions.  They share no state, so a behaviour takes one of the two,    *)
(* `part`, and the other stands still.                                     *)
(***************************************************************************)
EXTENDS ProviderGuard, SearchSession

VARIABLE part

allVars == <<guardVars, sessionVars, part>>

Init ==
    /\ part \in {"guard", "session"}
    /\ GuardInit /\ SessionInit

Next ==
    /\ \/ part = "guard"   /\ GuardNext   /\ UNCHANGED sessionVars
       \/ part = "session" /\ SessionNext /\ UNCHANGED guardVars
    /\ UNCHANGED part

Spec == Init /\ [][Next]_allVars

\* The fairness of each part, while it is the one that runs.
FairSpec ==
    /\ Spec
    /\ WF_guardVars(part = "guard" /\ Tick) /\ WF_guardVars(part = "guard" /\ NewDay)
    /\ \A r \in Request : WF_guardVars(part = "guard" /\ NewRequest(r))
    /\ \A r \in Request, a \in Adapter : WF_guardVars(part = "guard" /\ CallStep(r, a))
    /\ \A o \in Object :
          WF_sessionVars(part = "session" /\ o \in DOMAIN session /\ SearchStep(o))

-----------------------------------------------------------------------------
\* The types of the guards' and of the sessions' state: a bucket never above
\* its capacity, a registry entry that is of its id (reliability.ts TokenBucket,
\* orchestrator.ts registerSession).
DiscoveryTypeOK == GuardTypeOK /\ SessionTypeOK
=============================================================================
