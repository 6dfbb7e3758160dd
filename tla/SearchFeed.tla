----------------------------- MODULE SearchFeed -----------------------------
(***************************************************************************)
(* What one discovery search promises, whoever listens to it: it begins,   *)
(* every category it began is settled exactly once, by results or by an    *)
(* error of its own, and only then, and once, the search is complete.      *)
(***************************************************************************)
CONSTANTS Search, Category

VARIABLES
    phase,   \* of each search: "new", "running", "complete"
    status   \* of each search's categories: "pending", "loading", "settled"

feedVars == <<phase, status>>

FeedInit ==
    /\ phase = [s \in Search |-> "new"]
    /\ status = [s \in Search |-> [c \in Category |-> "pending"]]

\* The fan-out begins; a category the cache can answer is settled at once.
Begin(s) ==
    /\ phase[s] = "new" /\ phase' = [phase EXCEPT ![s] = "running"]
    /\ \E first \in [Category -> {"loading", "settled"}] :
          status' = [status EXCEPT ![s] = first]

\* One category resolves, whatever the others do.
Settle(s, c) ==
    /\ phase[s] = "running" /\ status[s][c] = "loading"
    /\ status' = [status EXCEPT ![s][c] = "settled"]
    /\ UNCHANGED phase

\* The terminal event, after the last category.
Finish(s) ==
    /\ phase[s] = "running" /\ \A c \in Category : status[s][c] = "settled"
    /\ phase' = [phase EXCEPT ![s] = "complete"]
    /\ UNCHANGED status

FeedNext == \E s \in Search :
    Begin(s) \/ (\E c \in Category : Settle(s, c)) \/ Finish(s)

FeedSpec == FeedInit /\ [][FeedNext]_feedVars
=============================================================================
