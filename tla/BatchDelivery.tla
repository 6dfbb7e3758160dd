---------------------------- MODULE BatchDelivery ----------------------------
(***************************************************************************)
(* What the durable outbox promises for one machine's Maps batches, told   *)
(* without leases, processes or failures: a batch that reached the disk is *)
(* never forgotten, the disk holds one unsettled batch at a time, and a    *)
(* batch is settled as delivered only after its hotels are in Cloud SQL,   *)
(* as quarantined only after its ZIP is set aside there.                   *)
(***************************************************************************)
CONSTANTS Machine, Batch

VARIABLES
    queue,     \* per machine, the batches waiting on its disk
    recorded   \* per machine, <<batch, outcome>> that Cloud SQL already has

vars == <<queue, recorded>>

Outcome == {"delivered", "quarantined"}

Init ==
    /\ queue = [m \in Machine |-> {}]
    /\ recorded = [m \in Machine |-> {}]

\* A new batch is made durable before any Cloud SQL write, and only when
\* nothing older waits.
Persist(m, x) ==
    /\ queue[m] = {}
    /\ queue' = [queue EXCEPT ![m] = {x}]
    /\ UNCHANGED recorded

Record(m, x, outcome) ==
    /\ x \in queue[m]
    /\ recorded' = [recorded EXCEPT ![m] = @ \cup {<<x, outcome>>}]
    /\ UNCHANGED queue

Settle(m, x, outcome) ==
    /\ x \in queue[m]
    /\ <<x, outcome>> \in recorded[m]
    /\ queue' = [queue EXCEPT ![m] = @ \ {x}]
    /\ recorded' = [recorded EXCEPT ![m] = @ \ ({x} \X Outcome)]

Next ==
    \E m \in Machine, x \in Batch :
        \/ Persist(m, x)
        \/ \E outcome \in Outcome : Record(m, x, outcome) \/ Settle(m, x, outcome)

Spec == Init /\ [][Next]_vars

=============================================================================
