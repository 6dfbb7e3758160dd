----------------------------- MODULE StateSweep -----------------------------
(***************************************************************************)
(* The insurance directory's sweep: the table state_progress as a queue    *)
(* (db.mjs), the 24/7 collector (worker.mjs) and the manual runs of its    *)
(* control API (server.mjs) that claim from it.  Adapters that are blocked *)
(* are never claimed and left out.                                         *)
(***************************************************************************)
EXTENDS Naturals, FiniteSets

CONSTANTS
    State,       \* states with a working adapter
    Run,         \* requests to the control API's POST /run
    Nobody,
    CrashBound   \* bound on crashes and failed writes of an error

ASSUME SweepAssumption == IsFiniteSet(State) /\ Nobody \notin State /\ CrashBound \in Nat

\* The orders in which the states may stand in the queue.
Orders == {q \in [1..Cardinality(State) -> State] : \A s \in State : \E i \in DOMAIN q : q[i] = s}

TheWorker == "worker"
Collector == {TheWorker} \cup Run

VARIABLES
    status,    \* per state
    queue,     \* the states by last_run_finished_at, the never finished first
    aged,      \* states whose last run is older than the refresh window, or never was
    old,       \* running states whose last_run_started_at is past staleRunningMinutes
    up,        \* the worker is past its start
    holds,     \* per collector: the state it collects, or Nobody
    overrun,   \* history: a run has outlived staleRunningMinutes
    crashes    \* crashes and failed writes so far

sweepVars == <<status, queue, aged, old, up, holds, overrun, crashes>>

SweepTypeOK ==
    /\ status \in [State -> {"pending", "running", "done", "error"}]
    /\ queue \in Orders
    /\ aged \subseteq State /\ old \subseteq State
    /\ up \in BOOLEAN /\ overrun \in BOOLEAN
    /\ holds \in [Collector -> State \cup {Nobody}]
    /\ crashes \in 0..CrashBound

SweepInit ==
    /\ status = [s \in State |-> "pending"] /\ queue \in Orders
    /\ aged = State /\ old = {} /\ up = FALSE
    /\ holds = [c \in Collector |-> Nobody]
    /\ overrun = FALSE /\ crashes = 0

-----------------------------------------------------------------------------
(* state_progress                                                          *)

\* The first of the candidates in the queue's order.
FirstOf(candidates) ==
    LET places == {i \in DOMAIN queue : queue[i] \in candidates}
    IN  queue[CHOOSE i \in places : \A j \in places : i <= j]

\* What claimNextState picks from: pending and failed states before those due
\* for a refresh.
Claimables ==
    LET unsettled == {s \in State : status[s] \in {"pending", "error"}}
    IN  IF unsettled # {} THEN unsettled ELSE {s \in aged : status[s] = "done"}

\* Mutant of requeueStaleRunning: running states of any age.
requeueRunning ==
    /\ status' = [s \in State |-> IF status[s] = "running" THEN "pending" ELSE status[s]]
    /\ old' = {}

\* requeueStaleRunning.
requeueStaleRunning ==
    /\ status' = [s \in State |-> IF status[s] = "running" /\ s \in old THEN "pending"
                                  ELSE status[s]]
    /\ old' = {}

\* status = 'running', last_run_started_at = now(): of claimNextState and
\* markStateRunning.
MarkRunning(c, s) ==
    /\ status' = [status EXCEPT ![s] = "running"]
    /\ old' = old \ {s}
    /\ holds' = [holds EXCEPT ![c] = s]

\* Mutant of MarkFinished: last_run_finished_at is not set.
MarkUnfinished(s, outcome) ==
    /\ status' = [status EXCEPT ![s] = outcome]
    /\ queue' = queue
    /\ aged' = aged \ {s}

\* last_run_finished_at = now(): the state goes to the end of the queue.
ToTheEnd(s) ==
    LET place == CHOOSE i \in DOMAIN queue : queue[i] = s
    IN  [i \in DOMAIN queue |-> IF i = Cardinality(State) THEN s
                                ELSE queue[IF i < place THEN i ELSE i + 1]]

\* markStateDone and markStateError, by state alone.
MarkFinished(s, outcome) ==
    /\ status' = [status EXCEPT ![s] = outcome]
    /\ queue' = ToTheEnd(s)
    /\ aged' = aged \ {s}

-----------------------------------------------------------------------------
(* Collectors                                                              *)

\* main(): seedStateProgress changes nothing that is there; requeue once.
WorkerStart ==
    /\ ~up /\ up' = TRUE
    /\ requeueStaleRunning
    /\ UNCHANGED <<queue, aged, holds, overrun, crashes>>

\* claimNextState; a worker's next round or a manual run.
ClaimState(c) ==
    /\ holds[c] = Nobody /\ (c = TheWorker => up)
    /\ Claimables # {}
    /\ MarkRunning(c, FirstOf(Claimables))
    /\ UNCHANGED <<queue, aged, up, overrun, crashes>>

\* POST /run {state}: markStateRunning asks nobody.
RunState(c, s) ==
    /\ c \in Run /\ holds[c] = Nobody
    /\ MarkRunning(c, s)
    /\ overrun' = (overrun \/ \E d \in Collector : holds[d] = s)
    /\ UNCHANGED <<queue, aged, up, crashes>>

\* runStateAdapter returned or threw, and the outcome is written.
Collected(c, outcome) ==
    /\ holds[c] # Nobody
    /\ MarkFinished(holds[c], outcome)
    /\ holds' = [holds EXCEPT ![c] = Nobody]
    /\ UNCHANGED <<old, up, overrun, crashes>>

\* markStateError failed too and was swallowed; or the process died.
Lost(c) ==
    /\ crashes < CrashBound /\ crashes' = crashes + 1
    /\ holds' = [holds EXCEPT ![c] = Nobody]
    /\ up' \in IF c = TheWorker THEN {up, FALSE} ELSE {up}
    /\ UNCHANGED <<status, queue, aged, old, overrun>>

\* Time passes: a state comes due for a refresh; a run gets old.
DueAgain(s) ==
    /\ aged' = aged \cup {s} /\ aged' # aged
    /\ UNCHANGED <<status, queue, old, up, holds, overrun, crashes>>

RunGetsOld(s) ==
    /\ status[s] = "running" /\ s \notin old
    /\ old' = old \cup {s}
    /\ overrun' = (overrun \/ \E c \in Collector : holds[c] = s)
    /\ UNCHANGED <<status, queue, aged, up, holds, crashes>>

WorkerRound ==
    \/ WorkerStart \/ ClaimState(TheWorker)
    \/ \E outcome \in {"done", "error"} : Collected(TheWorker, outcome)

SweepNext ==
    \/ WorkerRound
    \/ \E c \in Collector :
          \/ ClaimState(c) \/ Lost(c)
          \/ \E s \in State : RunState(c, s)
          \/ \E outcome \in {"done", "error"} : Collected(c, outcome)
    \/ \E s \in State : DueAgain(s) \/ RunGetsOld(s)

SweepSpec == SweepInit /\ [][SweepNext]_sweepVars

\* The worker runs and its adapters return; nothing is asked of manual runs.
FairSweepSpec == SweepSpec /\ WF_sweepVars(WorkerRound)

-----------------------------------------------------------------------------
(* Properties                                                              *)

\* Unless a run outlives staleRunningMinutes or an operator names a state that
\* is being collected, no state is collected by two at once, whatever crashes
\* (claimNextState, requeueStaleRunning).
CollectsExclusive ==
    ~overrun => \A c, d \in Collector :
        (c # d /\ holds[c] # Nobody) => holds[c] # holds[d] /\ status[holds[c]] = "running"

\* However often the adapters of other states fail, a state that waits or has
\* failed gets its next turn: those that failed last go to the end of the queue
\* (claimNextState ORDER BY last_run_finished_at).
EveryStateHasItsTurn ==
    \A s \in State : status[s] \in {"pending", "error"} ~> status[s] \in {"running", "done"}
=============================================================================
