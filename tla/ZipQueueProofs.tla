--------------------------- MODULE ZipQueueProofs ---------------------------
(***************************************************************************)
(* Proofs about ZipQueue, for any sets of ZIPs, crawlers, browser workers  *)
(* and markers and for any lease length.  The argument rests on markers:   *)
(* no two machines ever know the same one (MarkersPrivate), and a row in   *)
(* progress under a marker some machine knows was put there by that        *)
(* machine, or claimed by a crawler that left the marker (KnownMarkerHolds)*)
(***************************************************************************)
EXTENDS ZipQueue, TLAPS

-----------------------------------------------------------------------------
(* Rows and tables keep their types                                        *)

\* Every statement of either service turns a row of the table into one.
LEMMA RowTypes ==
    ASSUME NEW row \in ZipRow
    PROVE  /\ VmClaimed(row) \in ZipRow
           /\ VmRequeued(row) \in ZipRow
           /\ DoneRow(row) \in ZipRow
           /\ \A status \in PlacesStatus : ParkedRow(row, status) \in ZipRow
           /\ \A t \in Token : BrowserClaimed(row, t) \in ZipRow
           /\ Released(row) \in ZipRow
           /\ [row EXCEPT !.age = 0] \in ZipRow
           /\ [row EXCEPT !.refreshDue = TRUE] \in ZipRow
           /\ row.age < StaleAfter => [row EXCEPT !.age = @ + 1] \in ZipRow
<1> USE ZipTableAssumption DEF ZipRow, PlacesStatus
<1>0. 0 \in 0 .. StaleAfter
  OBVIOUS
<1>1. VmClaimed(row) \in ZipRow /\ VmRequeued(row) \in ZipRow
  BY <1>0 DEF VmClaimed, VmRequeued
<1>2. DoneRow(row) \in ZipRow
  BY <1>0 DEF DoneRow
<1>3. ASSUME NEW status \in PlacesStatus
      PROVE  ParkedRow(row, status) \in ZipRow
  BY <1>0 DEF ParkedRow
<1>4. ASSUME NEW t \in Token
      PROVE  BrowserClaimed(row, t) \in ZipRow
  BY <1>0 DEF BrowserClaimed
<1>5. Released(row) \in ZipRow
  BY <1>0 DEF Released
<1>6. [row EXCEPT !.age = 0] \in ZipRow /\ [row EXCEPT !.refreshDue = TRUE] \in ZipRow
  BY <1>0
<1>7. ASSUME row.age < StaleAfter
      PROVE  [row EXCEPT !.age = @ + 1] \in ZipRow
  <2>1. row.age + 1 \in 0 .. StaleAfter
    BY <1>7
  <2>. QED
    BY <2>1
<1>. QED
  BY <1>1, <1>2, <1>3, <1>4, <1>5, <1>6, <1>7

\* A crawler's start and a browser's recovery keep the table a table.
LEMMA RecoveryTypes ==
    ASSUME NEW table \in [Zip -> ZipRow]
    PROVE  /\ requeueStaleInProgress(table) \in [Zip -> ZipRow]
           /\ RequeueExpiredMarkers(table) \in [Zip -> ZipRow]
  BY RowTypes DEF requeueStaleInProgress, RequeueExpiredMarkers

\* A transaction that claims nothing keeps the types of the table and of the
\* recorded holders.
LEMMA WriteTypes ==
    ASSUME TypeOK, NEW t \in [Zip -> ZipRow], Write(t)
    PROVE  zips' \in [Zip -> ZipRow] /\ holder' \in [Zip -> Worker \cup {Null}]
  BY DEF TypeOK, Write

\* So does one that claims a row.
LEMMA WriteHeldTypes ==
    ASSUME TypeOK, NEW t \in [Zip -> ZipRow], NEW z \in Zip, NEW row \in ZipRow,
           NEW w \in Worker, WriteHeld(t, z, row, w)
    PROVE  zips' \in [Zip -> ZipRow] /\ holder' \in [Zip -> Worker \cup {Null}]
  BY DEF TypeOK, WriteHeld

-----------------------------------------------------------------------------
(* Type correctness                                                        *)

LEMMA InitTypes == Init => TypeOK
  BY ZipTableAssumption DEF Init, TypeOK, LoadedRow, ZipRow, PlacesStatus, Worker

\* What a crawler does keeps the types.
LEMMA VmTypes ==
    ASSUME TypeOK, NEW v \in Vm, VmStep(v)
    PROVE  TypeOK'
<1> USE DEF vmVars, browserVars
<1>1. CASE VmStart(v)
  BY <1>1, RecoveryTypes, WriteTypes DEF TypeOK, VmStart
<1>2. CASE \E reply \in Replies : VmMarkDone(v, reply)
  <2>1. PICK reply \in Replies : VmMarkDone(v, reply)
    BY <1>2
  <2>2. [zips EXCEPT ![vm_zip[v]] = DoneRow(@)] \in [Zip -> ZipRow]
    BY <2>1, RowTypes DEF TypeOK, VmMarkDone
  <2>3. zips' \in [Zip -> ZipRow] /\ holder' \in [Zip -> Worker \cup {Null}]
    BY <2>1, <2>2, WriteTypes DEF VmMarkDone
  <2>. QED
    BY <2>1, <2>3, ZipQueueAssumption DEF TypeOK, VmMarkDone
<1>3. CASE VmMarkError(v)
  <2>1. [zips EXCEPT ![vm_zip[v]] = ParkedRow(@, "error")] \in [Zip -> ZipRow]
    BY <1>3, RowTypes DEF TypeOK, VmMarkError, PlacesStatus
  <2>. QED
    BY <1>3, <2>1, WriteTypes DEF TypeOK, VmMarkError
<1>4. CASE VmMarkErrorFailed(v)
  BY <1>4 DEF TypeOK, VmMarkErrorFailed
<1>5. CASE VmDown(v)
  BY <1>5 DEF TypeOK, VmDown
<1>6. CASE \E z \in Zip, reply \in Replies : VmClaim(v, z, reply)
  <2>1. PICK z \in Zip, reply \in Replies : VmClaim(v, z, reply)
    BY <1>6
  <2>2. VmClaimed(zips[z]) \in ZipRow
    BY RowTypes DEF TypeOK
  <2>3. zips' \in [Zip -> ZipRow] /\ holder' \in [Zip -> Worker \cup {Null}]
    BY <2>1, <2>2, WriteHeldTypes DEF VmClaim, Worker, TypeOK
  <2>. QED
    BY <2>1, <2>3 DEF TypeOK, VmClaim
<1>. QED
  BY <1>1, <1>2, <1>3, <1>4, <1>5, <1>6 DEF VmStep

\* What a browser worker does keeps the types.
LEMMA BrowserTypes ==
    ASSUME TypeOK, NEW b \in Browser, BrowserStep(b)
    PROVE  TypeOK'
<1> USE DEF vmVars
<1>1. CASE HeartbeatClaims(b)
  <2>1. [z \in Zip |-> IF Owned(b, z) THEN [zips[z] EXCEPT !.age = 0] ELSE zips[z]]
           \in [Zip -> ZipRow]
    BY RowTypes DEF TypeOK
  <2>. QED
    BY <1>1, <2>1, WriteTypes DEF TypeOK, HeartbeatClaims, browserVars
<1>2. CASE ReleaseZipClaims(b)
  <2>1. [z \in Zip |-> IF Owned(b, z) THEN Released(zips[z]) ELSE zips[z]]
           \in [Zip -> ZipRow]
    BY RowTypes DEF TypeOK
  <2>. QED
    BY <1>2, <2>1, WriteTypes DEF TypeOK, ReleaseZipClaims
<1>3. CASE BrowserDown(b)
  BY <1>3 DEF TypeOK, BrowserDown
<1>4. ASSUME NEW z \in Zip, NEW t \in Token, NEW reply \in Replies,
             ClaimNextZip(b, z, t, reply)
      PROVE  TypeOK'
  <2>1. RequeueExpiredMarkers(zips) \in [Zip -> ZipRow]
    BY RecoveryTypes DEF TypeOK
  <2>2. BrowserClaimed(RequeueExpiredMarkers(zips)[z], t) \in ZipRow
    BY <2>1, RowTypes
  <2>3. zips' \in [Zip -> ZipRow] /\ holder' \in [Zip -> Worker \cup {Null}]
    BY <1>4, <2>1, <2>2, WriteHeldTypes DEF ClaimNextZip, Worker
  <2>. QED
    BY <1>4, <2>3 DEF TypeOK, ClaimNextZip
<1>5. ASSUME NEW z \in Zip, NEW status \in {"done", "error", "quarantined"},
             NEW reply \in Replies, SetZipState(b, z, status, reply)
      PROVE  TypeOK'
  <2>1. [zips EXCEPT ![z] = IF status = "done" THEN DoneRow(@)
                            ELSE ParkedRow(@, status)] \in [Zip -> ZipRow]
    BY RowTypes DEF TypeOK, PlacesStatus
  <2>. QED
    BY <1>5, <2>1, WriteTypes DEF TypeOK, SetZipState
<1>6. ASSUME NEW z \in Zip, EnqueueOutboxBatch(b, z)
      PROVE  TypeOK'
  BY <1>6 DEF TypeOK, EnqueueOutboxBatch
<1>7. ASSUME NEW e \in outbox_claims[b], NEW t \in Token, NEW reply \in Replies,
             ClaimOutboxZip(b, e, t, reply)
      PROVE  TypeOK'
  <2>1. e[1] \in Zip
    BY DEF TypeOK
  <2>2. BrowserClaimed(zips[e[1]], t) \in ZipRow
    BY <2>1, RowTypes DEF TypeOK
  <2>3. zips' \in [Zip -> ZipRow] /\ holder' \in [Zip -> Worker \cup {Null}]
    BY <1>7, <2>1, <2>2, WriteHeldTypes DEF ClaimOutboxZip, Worker, TypeOK
  <2>. QED
    BY <1>7, <2>1, <2>3 DEF TypeOK, ClaimOutboxZip
<1>8. ASSUME NEW e \in outbox_claims[b], SettleOutboxBatch(b, e)
      PROVE  TypeOK'
  BY <1>8 DEF TypeOK, SettleOutboxBatch
<1>. QED
  BY <1>1, <1>2, <1>3, <1>4, <1>5, <1>6, <1>7, <1>8 DEF BrowserStep

\* Operators, loaders and the passing of time keep the types.
LEMMA TableTypes ==
    ASSUME TypeOK, TableStep \/ Tick
    PROVE  TypeOK'
<1>1. CASE RetryFailedZips
  <2>1. [z \in Zip |-> IF zips[z].places_status \in {"error", "quarantined"}
                       THEN Released(zips[z]) ELSE zips[z]] \in [Zip -> ZipRow]
    BY RowTypes DEF TypeOK
  <2>. QED
    BY <1>1, <2>1, WriteTypes DEF TypeOK, RetryFailedZips, vmVars, browserVars
<1>2. ASSUME NEW z \in Zip, TouchZip(z)
      PROVE  TypeOK'
  <2>1. [zips EXCEPT ![z].age = 0] \in [Zip -> ZipRow]
    BY RowTypes DEF TypeOK
  <2>. QED
    BY <1>2, <2>1, WriteTypes DEF TypeOK, TouchZip, vmVars, browserVars
<1>3. ASSUME NEW z \in Zip, RefreshDue(z)
      PROVE  TypeOK'
  <2>1. [zips EXCEPT ![z].refreshDue = TRUE] \in [Zip -> ZipRow]
    BY RowTypes DEF TypeOK
  <2>. QED
    BY <1>3, <2>1, WriteTypes DEF TypeOK, RefreshDue, vmVars, browserVars
<1>4. CASE Tick
  <2>1. [z \in Zip |-> IF zips[z].age < StaleAfter
                       THEN [zips[z] EXCEPT !.age = @ + 1] ELSE zips[z]]
           \in [Zip -> ZipRow]
    BY RowTypes DEF TypeOK
  <2>. QED
    BY <1>4, <2>1, WriteTypes DEF TypeOK, Tick, vmVars, browserVars
<1>. QED
  BY <1>1, <1>2, <1>3, <1>4 DEF TableStep

LEMMA StepTypes == TypeOK /\ [Next]_vars => TypeOK'
<1> SUFFICES ASSUME TypeOK, [Next]_vars
             PROVE  TypeOK'
  OBVIOUS
<1>1. CASE UNCHANGED vars
  BY <1>1 DEF TypeOK, vars, vmVars, browserVars
<1>2. CASE Next
  BY <1>2, VmTypes, BrowserTypes, TableTypes DEF Next
<1>. QED
  BY <1>1, <1>2

\* The shared table only ever holds well-formed rows, whichever service wrote
\* them last.
THEOREM TypeCorrect == Spec => []TypeOK
  BY InitTypes, StepTypes, PTL DEF Spec

-----------------------------------------------------------------------------
(* Markers                                                                 *)

\* No two machines know the same marker.
MarkersPrivate ==
    \A b, c \in Browser : b # c => Known(b) \cap Known(c) = {}

\* A row in progress under a marker machine b knows was put there by b, or by
\* a crawler that left b's marker on the row.
KnownMarkerHolds ==
    \A z \in Zip : \A b \in Browser :
        InProgress(zips[z]) /\ zips[z].last_error \in Known(b)
            => holder[z] \in {b} \cup Vm

\* Only a row in progress has a holder.
HeldInProgress ==
    \A z \in Zip : holder[z] # Null => InProgress(zips[z])

LeaseInv ==
    /\ TypeOK
    /\ MarkersPrivate
    /\ KnownMarkerHolds
    /\ HeldInProgress

\* Nobody learns a marker.
NothingLearnt == \A b \in Browser : Known(b)' \subseteq Known(b)

\* Every row left in progress was so before, under the same marker and holder.
NothingClaimed ==
    \A z \in Zip : InProgress(zips'[z]) =>
        /\ InProgress(zips[z])
        /\ zips'[z].last_error = zips[z].last_error
        /\ holder'[z] = holder[z]

\* A row that leaves in_progress loses its holder.
NothingHeldIdle ==
    \A z \in Zip : ~InProgress(zips'[z]) => holder'[z] = Null

\* A transaction that claims nothing and teaches nobody a marker keeps the
\* invariant.
LEMMA QuietStep ==
    ASSUME LeaseInv, TypeOK', NothingLearnt, NothingClaimed, NothingHeldIdle
    PROVE  LeaseInv'
<1>1. MarkersPrivate'
  BY DEF LeaseInv, MarkersPrivate, NothingLearnt
<1>2. KnownMarkerHolds'
  BY DEF LeaseInv, KnownMarkerHolds, NothingLearnt, NothingClaimed
<1>3. HeldInProgress'
  BY DEF HeldInProgress, NothingHeldIdle
<1>. QED
  BY <1>1, <1>2, <1>3 DEF LeaseInv

\* A row is claimed by browser worker b under marker t, which no other machine
\* knows and which no other row in progress carries; b may have learnt t.
LEMMA ClaimStep ==
    ASSUME LeaseInv, TypeOK',
           NEW b \in Browser, NEW z \in Zip, NEW t \in Token,
           \A c \in Browser \ {b} : t \notin Known(c),
           \/ t \in Known(b)
           \/ \A y \in Zip : zips[y].last_error # t,
           InProgress(zips'[z]), zips'[z].last_error = t, holder'[z] = b,
           \A y \in Zip \ {z} :
              IF InProgress(zips'[y])
              THEN /\ InProgress(zips[y])
                   /\ zips'[y].last_error = zips[y].last_error
                   /\ holder'[y] = holder[y]
              ELSE holder'[y] = Null,
           \A c \in Browser : Known(c)' \subseteq Known(c) \cup (IF c = b THEN {t} ELSE {})
    PROVE  LeaseInv'
<1>1. MarkersPrivate'
  BY DEF LeaseInv, MarkersPrivate
<1>2. KnownMarkerHolds'
  <2> SUFFICES ASSUME NEW y \in Zip, NEW c \in Browser,
                      InProgress(zips'[y]), zips'[y].last_error \in Known(c)'
               PROVE  holder'[y] \in {c} \cup Vm
    BY DEF KnownMarkerHolds
  <2>1. CASE y = z
    BY <2>1
  <2>2. CASE y # z
    BY <2>2 DEF LeaseInv, KnownMarkerHolds
  <2>. QED
    BY <2>1, <2>2
<1>3. HeldInProgress'
  BY DEF HeldInProgress
<1>. QED
  BY <1>1, <1>2, <1>3 DEF LeaseInv

\* Write claims nothing when rows in progress in t were so before, with the
\* same marker.
LEMMA WriteQuiet ==
    ASSUME TypeOK, NEW t \in [Zip -> ZipRow], Write(t),
           \A z \in Zip : InProgress(t[z]) =>
               InProgress(zips[z]) /\ t[z].last_error = zips[z].last_error
    PROVE  NothingClaimed /\ NothingHeldIdle
  BY DEF Write, NothingClaimed, NothingHeldIdle

\* What the statements do to places_status and to the marker.
LEMMA RowFacts ==
    ASSUME NEW row \in ZipRow
    PROVE  /\ InProgress(VmClaimed(row)) /\ VmClaimed(row).last_error = row.last_error
           /\ ~InProgress(VmRequeued(row))
           /\ ~InProgress(DoneRow(row))
           /\ \A status \in {"done", "error", "quarantined"} :
                  ~InProgress(ParkedRow(row, status))
           /\ \A t \in Token : /\ InProgress(BrowserClaimed(row, t))
                              /\ BrowserClaimed(row, t).last_error = t
           /\ ~InProgress(Released(row))
  BY DEF ZipRow, InProgress, VmClaimed, VmRequeued, DoneRow, ParkedRow,
         BrowserClaimed, Released

\* Changing a row's age or its refresh date changes neither its status nor
\* its marker.
LEMMA TouchFacts ==
    ASSUME NEW row \in ZipRow, NEW n
    PROVE  /\ InProgress([row EXCEPT !.age = n]) <=> InProgress(row)
           /\ [row EXCEPT !.age = n].last_error = row.last_error
           /\ InProgress([row EXCEPT !.refreshDue = n]) <=> InProgress(row)
           /\ [row EXCEPT !.refreshDue = n].last_error = row.last_error
  BY DEF ZipRow, InProgress

\* A claim takes a row that is not in progress.
LEMMA ClaimableIdle ==
    ASSUME NEW table \in [Zip -> ZipRow], NEW z \in Claimable(table)
    PROVE  z \in Zip /\ ~InProgress(table[z])
  BY DEF Claimable, InProgress

\* What a machine knows depends on its claims and its outbox alone.
LEMMA KnownFrame ==
    ASSUME UNCHANGED browserVars
    PROVE  NothingLearnt
  BY DEF browserVars, NothingLearnt, Known

LEMMA InitLease == Init => LeaseInv
<1> SUFFICES ASSUME Init
             PROVE  LeaseInv
  OBVIOUS
<1>1. TypeOK
  BY InitTypes
<1>2. \A b \in Browser : Known(b) = {}
  BY DEF Init, Known
<1>3. MarkersPrivate /\ KnownMarkerHolds
  BY <1>2 DEF MarkersPrivate, KnownMarkerHolds
<1>4. HeldInProgress
  BY DEF Init, HeldInProgress
<1>. QED
  BY <1>1, <1>3, <1>4 DEF LeaseInv

\* Crawlers write by ZIP alone, and yet no browser worker gains from it.
LEMMA VmLease ==
    ASSUME LeaseInv, NEW v \in Vm, VmStep(v)
    PROVE  LeaseInv'
<1> TypeOK /\ TypeOK'
  BY VmTypes DEF LeaseInv
<1>0. UNCHANGED browserVars
  BY DEF VmStep, VmStart, VmMarkDone, VmMarkError, VmMarkErrorFailed, VmDown, VmClaim
<1>1. NothingLearnt
  BY <1>0, KnownFrame
<1>2. CASE VmStart(v)
  <2>1. \A z \in Zip : InProgress(requeueStaleInProgress(zips)[z]) =>
            /\ InProgress(zips[z])
            /\ requeueStaleInProgress(zips)[z].last_error = zips[z].last_error
    BY RowFacts DEF TypeOK, requeueStaleInProgress
  <2>. QED
    BY <1>1, <1>2, <2>1, RecoveryTypes, WriteQuiet, QuietStep DEF TypeOK, VmStart
<1>3. CASE \E reply \in Replies : VmMarkDone(v, reply)
  <2> DEFINE t == [zips EXCEPT ![vm_zip[v]] = DoneRow(@)]
  <2>1. Write(t) /\ t \in [Zip -> ZipRow]
    BY <1>3, RowTypes DEF TypeOK, VmMarkDone
  <2>2. \A z \in Zip : InProgress(t[z]) =>
            InProgress(zips[z]) /\ t[z].last_error = zips[z].last_error
    <3>1. \A z \in Zip : z # vm_zip[v] => t[z] = zips[z]
      BY DEF TypeOK
    <3>2. \A z \in Zip : z = vm_zip[v] => t[z] = DoneRow(zips[z])
      BY DEF TypeOK
    <3>3. \A z \in Zip : ~InProgress(DoneRow(zips[z]))
      BY RowFacts DEF TypeOK
    <3>. QED
      BY <3>1, <3>2, <3>3
  <2>. QED
    BY <1>1, <2>1, <2>2, WriteQuiet, QuietStep
<1>4. CASE VmMarkError(v)
  <2> DEFINE t == [zips EXCEPT ![vm_zip[v]] = ParkedRow(@, "error")]
  <2>1. Write(t) /\ t \in [Zip -> ZipRow]
    BY <1>4, RowTypes DEF TypeOK, VmMarkError, PlacesStatus
  <2>2. \A z \in Zip : InProgress(t[z]) =>
            InProgress(zips[z]) /\ t[z].last_error = zips[z].last_error
    <3>1. \A z \in Zip : z # vm_zip[v] => t[z] = zips[z]
      BY DEF TypeOK
    <3>2. \A z \in Zip : z = vm_zip[v] => t[z] = ParkedRow(zips[z], "error")
      BY DEF TypeOK
    <3>3. \A z \in Zip : ~InProgress(ParkedRow(zips[z], "error"))
      BY RowFacts DEF TypeOK
    <3>. QED
      BY <3>1, <3>2, <3>3
  <2>. QED
    BY <1>1, <2>1, <2>2, WriteQuiet, QuietStep
<1>5. CASE VmMarkErrorFailed(v) \/ VmDown(v)
  <2>1. UNCHANGED <<zips, holder>>
    BY <1>5 DEF VmMarkErrorFailed, VmDown
  <2>2. NothingClaimed /\ NothingHeldIdle
    BY <2>1 DEF NothingClaimed, NothingHeldIdle, LeaseInv, HeldInProgress
  <2>. QED
    BY <1>1, <2>2, QuietStep
<1>6. ASSUME NEW z \in Zip, NEW reply \in Replies, VmClaim(v, z, reply)
      PROVE  LeaseInv'
  <2>1. /\ InProgress(zips'[z])
        /\ zips'[z].last_error = zips[z].last_error
        /\ holder'[z] = v
    <3>1. zips'[z] = VmClaimed(zips[z]) /\ holder'[z] = v
      BY <1>6 DEF TypeOK, VmClaim, WriteHeld
    <3>2. zips[z] \in ZipRow
      BY DEF TypeOK
    <3>3. /\ InProgress(VmClaimed(zips[z]))
          /\ VmClaimed(zips[z]).last_error = zips[z].last_error
      BY <3>2, RowFacts
    <3>. QED
      BY <3>1, <3>3
  <2>2. \A y \in Zip \ {z} :
            /\ zips'[y] = zips[y]
            /\ holder'[y] = IF InProgress(zips[y]) THEN holder[y] ELSE Null
    BY <1>6 DEF TypeOK, VmClaim, WriteHeld
  <2>3. MarkersPrivate'
    BY <1>1 DEF LeaseInv, MarkersPrivate, NothingLearnt
  <2>4. KnownMarkerHolds'
    BY <1>1, <2>1, <2>2 DEF LeaseInv, KnownMarkerHolds, NothingLearnt
  <2>5. HeldInProgress'
    BY <2>1, <2>2 DEF HeldInProgress
  <2>. QED
    BY <2>3, <2>4, <2>5 DEF LeaseInv
<1>. QED
  BY <1>2, <1>3, <1>4, <1>5, <1>6 DEF VmStep

\* Recovery of expired markers leaves the rows that stay in progress alone.
LEMMA RecoveryQuiet ==
    ASSUME TypeOK
    PROVE  \A z \in Zip : InProgress(RequeueExpiredMarkers(zips)[z]) =>
               RequeueExpiredMarkers(zips)[z] = zips[z]
<1> SUFFICES ASSUME NEW z \in Zip, Expired(zips[z]) /\ Marked(zips[z])
             PROVE  ~InProgress(Released(zips[z]))
  BY DEF RequeueExpiredMarkers
<1>. QED
  BY RowFacts DEF TypeOK

\* A ZIP claimed under a fresh marker.
LEMMA ClaimNextLease ==
    ASSUME LeaseInv, NEW b \in Browser, NEW z \in Zip, NEW t \in Token,
           NEW reply \in Replies, ClaimNextZip(b, z, t, reply), TypeOK'
    PROVE  LeaseInv'
<1> DEFINE recovered == RequeueExpiredMarkers(zips)
<1>1. TypeOK /\ recovered \in [Zip -> ZipRow]
  BY RecoveryTypes DEF LeaseInv, TypeOK
<1>2. zips'[z] = BrowserClaimed(recovered[z], t) /\ holder'[z] = b
  BY <1>1 DEF TypeOK, ClaimNextZip, WriteHeld
<1>3. InProgress(zips'[z]) /\ zips'[z].last_error = t
  <2>1. /\ InProgress(BrowserClaimed(recovered[z], t))
        /\ BrowserClaimed(recovered[z], t).last_error = t
    BY <1>1, RowFacts
  <2>. QED
    BY <1>2, <2>1
<1>4. \A y \in Zip \ {z} :
          /\ zips'[y] = recovered[y]
          /\ holder'[y] = IF InProgress(recovered[y]) THEN holder[y] ELSE Null
  BY <1>1 DEF ClaimNextZip, WriteHeld
<1>5. \A y \in Zip \ {z} :
          IF InProgress(zips'[y])
          THEN /\ InProgress(zips[y])
               /\ zips'[y].last_error = zips[y].last_error
               /\ holder'[y] = holder[y]
          ELSE holder'[y] = Null
  BY <1>1, <1>4, RecoveryQuiet
<1>6. \A c \in Browser : Known(c)' \subseteq Known(c) \cup (IF c = b THEN {t} ELSE {})
  BY <1>1 DEF TypeOK, ClaimNextZip, Known
<1>7. /\ \A c \in Browser : t \notin Known(c)
      /\ \A y \in Zip : zips[y].last_error # t
  BY DEF ClaimNextZip, Fresh
<1>. QED
  BY <1>2, <1>3, <1>5, <1>6, <1>7, ClaimStep

\* A ZIP claimed again for a batch of the outbox, under the batch's own marker
\* or under a fresh one.
LEMMA ClaimOutboxLease ==
    ASSUME LeaseInv, NEW b \in Browser, NEW e \in outbox_claims[b],
           NEW t \in Token, NEW reply \in Replies,
           ClaimOutboxZip(b, e, t, reply), TypeOK'
    PROVE  LeaseInv'
<1> DEFINE z == e[1]
<1>1. TypeOK /\ z \in Zip
  BY DEF LeaseInv, TypeOK
<1>2. zips'[z] = BrowserClaimed(zips[z], t) /\ holder'[z] = b
  BY <1>1 DEF TypeOK, ClaimOutboxZip, WriteHeld
<1>3. InProgress(zips'[z]) /\ zips'[z].last_error = t
  <2>1. zips[z] \in ZipRow
    BY <1>1 DEF TypeOK
  <2>2. /\ InProgress(BrowserClaimed(zips[z], t))
        /\ BrowserClaimed(zips[z], t).last_error = t
    BY <2>1, RowFacts
  <2>. QED
    BY <1>2, <2>2
<1>4. \A y \in Zip \ {z} :
          IF InProgress(zips'[y])
          THEN /\ InProgress(zips[y])
               /\ zips'[y].last_error = zips[y].last_error
               /\ holder'[y] = holder[y]
          ELSE holder'[y] = Null
  BY <1>1 DEF TypeOK, ClaimOutboxZip, WriteHeld
<1>5. \A c \in Browser : Known(c)' \subseteq Known(c) \cup (IF c = b THEN {t} ELSE {})
  BY <1>1 DEF TypeOK, ClaimOutboxZip, Known
<1>6. CASE e[2] = t
  <2>1. t \in Known(b)
    BY <1>6, ZipTableAssumption DEF Known
  <2>2. \A c \in Browser \ {b} : t \notin Known(c)
    BY <2>1 DEF LeaseInv, MarkersPrivate
  <2>. QED
    BY <1>1, <1>2, <1>3, <1>4, <1>5, <2>1, <2>2, ClaimStep
<1>7. CASE Fresh(t)
  <2>1. /\ \A c \in Browser : t \notin Known(c)
        /\ \A y \in Zip : zips[y].last_error # t
    BY <1>7 DEF Fresh
  <2>. QED
    BY <1>1, <1>2, <1>3, <1>4, <1>5, <2>1, ClaimStep
<1>. QED
  BY <1>6, <1>7 DEF ClaimOutboxZip

\* Heartbeats, releases, results and local bookkeeping claim nothing.
LEMMA BrowserLease ==
    ASSUME LeaseInv, NEW b \in Browser, BrowserStep(b)
    PROVE  LeaseInv'
<1> TypeOK /\ TypeOK'
  BY BrowserTypes DEF LeaseInv
<1>1. CASE HeartbeatClaims(b)
  <2> DEFINE t == [z \in Zip |-> IF Owned(b, z) THEN [zips[z] EXCEPT !.age = 0]
                                 ELSE zips[z]]
  <2>1. Write(t) /\ t \in [Zip -> ZipRow] /\ UNCHANGED browserVars
    BY <1>1, RowTypes DEF TypeOK, HeartbeatClaims
  <2>2. \A z \in Zip : InProgress(t[z]) =>
            InProgress(zips[z]) /\ t[z].last_error = zips[z].last_error
    BY TouchFacts DEF TypeOK
  <2>. QED
    BY <2>1, <2>2, KnownFrame, WriteQuiet, QuietStep
<1>2. CASE ReleaseZipClaims(b)
  <2> DEFINE t == [z \in Zip |-> IF Owned(b, z) THEN Released(zips[z]) ELSE zips[z]]
  <2>1. Write(t) /\ t \in [Zip -> ZipRow]
    BY <1>2, RowTypes DEF TypeOK, ReleaseZipClaims
  <2>2. \A z \in Zip : InProgress(t[z]) =>
            InProgress(zips[z]) /\ t[z].last_error = zips[z].last_error
    BY RowFacts DEF TypeOK
  <2>3. NothingLearnt
    BY <1>2 DEF TypeOK, ReleaseZipClaims, NothingLearnt, Known
  <2>. QED
    BY <2>1, <2>2, <2>3, WriteQuiet, QuietStep
<1>3. ASSUME NEW z \in Zip, NEW status \in {"done", "error", "quarantined"},
             NEW reply \in Replies, SetZipState(b, z, status, reply)
      PROVE  LeaseInv'
  <2> DEFINE row == IF status = "done" THEN DoneRow(zips[z])
                    ELSE ParkedRow(zips[z], status)
             t == [zips EXCEPT ![z] = row]
  <2>1. zips[z] \in ZipRow /\ row \in ZipRow
    BY RowTypes DEF TypeOK, PlacesStatus
  <2>2. Write(t) /\ t \in [Zip -> ZipRow]
    BY <1>3, <2>1 DEF TypeOK, SetZipState
  <2>3. ~InProgress(row)
    BY <2>1, RowFacts
  <2>4. \A y \in Zip : InProgress(t[y]) =>
            InProgress(zips[y]) /\ t[y].last_error = zips[y].last_error
    <3> HIDE DEF row
    <3>. QED
      BY <2>3 DEF TypeOK
  <2>5. NothingLearnt
    BY <1>3 DEF TypeOK, SetZipState, NothingLearnt, Known
  <2>. QED
    BY <2>2, <2>4, <2>5, WriteQuiet, QuietStep
<1>4. ASSUME \/ BrowserDown(b)
             \/ \E z \in Zip : EnqueueOutboxBatch(b, z)
             \/ \E e \in outbox_claims[b] : SettleOutboxBatch(b, e)
      PROVE  LeaseInv'
  <2>1. UNCHANGED <<zips, holder>>
    BY <1>4 DEF BrowserDown, EnqueueOutboxBatch, SettleOutboxBatch
  <2>2. NothingClaimed /\ NothingHeldIdle
    BY <2>1 DEF NothingClaimed, NothingHeldIdle, LeaseInv, HeldInProgress
  <2>3. NothingLearnt
    <3>1. CASE BrowserDown(b)
      BY <3>1 DEF TypeOK, BrowserDown, NothingLearnt, Known
    <3>2. CASE \E z \in Zip : EnqueueOutboxBatch(b, z)
      <4>1. PICK z \in Zip : EnqueueOutboxBatch(b, z)
        BY <3>2
      <4>2. <<z, zip_claims[b][z]>>[2] = zip_claims[b][z]
        OBVIOUS
      <4>. QED
        BY <4>1, <4>2 DEF TypeOK, EnqueueOutboxBatch, NothingLearnt, Known
    <3>3. CASE \E e \in outbox_claims[b] : SettleOutboxBatch(b, e)
      BY <3>3 DEF TypeOK, SettleOutboxBatch, NothingLearnt, Known
    <3>. QED
      BY <1>4, <3>1, <3>2, <3>3
  <2>. QED
    BY <2>2, <2>3, QuietStep
<1>. QED
  BY <1>1, <1>2, <1>3, <1>4, ClaimNextLease, ClaimOutboxLease DEF BrowserStep

\* Operators, loaders and time claim nothing.
LEMMA TableLease ==
    ASSUME LeaseInv, TableStep \/ Tick
    PROVE  LeaseInv'
<1> TypeOK /\ TypeOK'
  BY TableTypes DEF LeaseInv
<1>1. NothingLearnt
  <2>1. UNCHANGED browserVars
    BY DEF TableStep, RetryFailedZips, TouchZip, RefreshDue, Tick
  <2>. QED
    BY <2>1, KnownFrame
<1>2. CASE RetryFailedZips
  <2> DEFINE t == [z \in Zip |-> IF zips[z].places_status \in {"error", "quarantined"}
                                 THEN Released(zips[z]) ELSE zips[z]]
  <2>1. Write(t) /\ t \in [Zip -> ZipRow]
    BY <1>2, RowTypes DEF TypeOK, RetryFailedZips
  <2>2. \A z \in Zip : InProgress(t[z]) =>
            InProgress(zips[z]) /\ t[z].last_error = zips[z].last_error
    BY RowFacts DEF TypeOK
  <2>. QED
    BY <1>1, <2>1, <2>2, WriteQuiet, QuietStep
<1>3. ASSUME NEW z \in Zip, TouchZip(z) \/ RefreshDue(z)
      PROVE  LeaseInv'
  <2> DEFINE touched == [zips[z] EXCEPT !.age = 0]
             due     == [zips[z] EXCEPT !.refreshDue = TRUE]
  <2>1. touched \in ZipRow /\ due \in ZipRow
    BY RowTypes DEF TypeOK
  <2>2. PICK row \in {touched, due} : Write([zips EXCEPT ![z] = row])
    BY <1>3 DEF TypeOK, TouchZip, RefreshDue
  <2>3. /\ InProgress(row) <=> InProgress(zips[z])
        /\ row.last_error = zips[z].last_error
    <3>1. zips[z] \in ZipRow
      BY DEF TypeOK
    <3>2. CASE row = touched
      BY <3>1, <3>2, TouchFacts
    <3>3. CASE row = due
      BY <3>1, <3>3, TouchFacts
    <3>. QED
      BY <2>2, <3>2, <3>3
  <2> DEFINE t == [zips EXCEPT ![z] = row]
  <2>4. Write(t) /\ t \in [Zip -> ZipRow]
    BY <2>1, <2>2 DEF TypeOK
  <2>5. \A y \in Zip : InProgress(t[y]) =>
            InProgress(zips[y]) /\ t[y].last_error = zips[y].last_error
    BY <2>3 DEF TypeOK
  <2>. QED
    BY <1>1, <2>4, <2>5, WriteQuiet, QuietStep
<1>4. CASE Tick
  <2> DEFINE t == [z \in Zip |-> IF zips[z].age < StaleAfter
                                 THEN [zips[z] EXCEPT !.age = @ + 1] ELSE zips[z]]
  <2>1. Write(t) /\ t \in [Zip -> ZipRow]
    BY <1>4, RowTypes DEF TypeOK, Tick
  <2>2. \A z \in Zip : InProgress(t[z]) =>
            InProgress(zips[z]) /\ t[z].last_error = zips[z].last_error
    <3>1. \A z \in Zip : t[z] = zips[z] \/ t[z] = [zips[z] EXCEPT !.age = zips[z].age + 1]
      OBVIOUS
    <3>. QED
      BY <3>1, TouchFacts DEF TypeOK
  <2>. QED
    BY <1>1, <2>1, <2>2, WriteQuiet, QuietStep
<1>. QED
  BY <1>2, <1>3, <1>4 DEF TableStep

LEMMA StepLease == LeaseInv /\ [Next]_vars => LeaseInv'
<1> SUFFICES ASSUME LeaseInv, [Next]_vars
             PROVE  LeaseInv'
  OBVIOUS
<1>1. CASE UNCHANGED vars
  <2>1. TypeOK'
    BY StepTypes DEF LeaseInv
  <2>2. NothingLearnt /\ NothingClaimed /\ NothingHeldIdle
    BY <1>1, KnownFrame
       DEF vars, NothingClaimed, NothingHeldIdle, LeaseInv, HeldInProgress
  <2>. QED
    BY <2>1, <2>2, QuietStep
<1>2. CASE Next
  BY <1>2, VmLease, BrowserLease, TableLease DEF Next
<1>. QED
  BY <1>1, <1>2

\* Markers stay private to the machine that made them, whatever replies are
\* lost and in whatever order a machine's calls run.
THEOREM MarkersStayPrivate == Spec => []LeaseInv
  BY InitLease, StepLease, PTL DEF Spec

-----------------------------------------------------------------------------
(* The lease                                                               *)

\* Whoever passes the check knows the row's marker.
LEMMA OwnedKnows ==
    ASSUME NEW z \in Zip, NEW b \in Browser, Owned(b, z)
    PROVE  InProgress(zips[z]) /\ zips[z].last_error \in Known(b)
  BY DEF Owned, Leased, Known

\* The ownership check never passes for two browser workers on one ZIP.
THEOREM LeaseIsExclusive == Spec => []LeaseExclusive
<1>1. LeaseInv => LeaseExclusive
  BY OwnedKnows DEF LeaseInv, MarkersPrivate, LeaseExclusive
<1>. QED
  BY <1>1, MarkersStayPrivate, PTL

\* A worker that passes the ownership check holds the row; another browser
\* worker has not claimed it since.
THEOREM LeaseNamesHolder == Spec => []LeaseMeansHolder
<1>1. LeaseInv => LeaseMeansHolder
  BY OwnedKnows DEF LeaseInv, KnownMarkerHolds, LeaseMeansHolder
<1>. QED
  BY <1>1, MarkersStayPrivate, PTL

\* A row that stays in progress through an unclaiming transaction keeps its
\* holder.
LEMMA WriteKeepsHolder ==
    ASSUME NEW t, Write(t), NEW z \in Zip, InProgress(t[z])
    PROVE  holder'[z] = holder[z]
  BY DEF Write

\* So does a row that is not the one being claimed.
LEMMA WriteHeldKeepsHolder ==
    ASSUME NEW t, NEW y \in Zip, NEW row, NEW w, WriteHeld(t, y, row, w),
           NEW z \in Zip, z # y, InProgress(t[z])
    PROVE  holder'[z] = holder[z]
  BY DEF WriteHeld

\* Only a row's holder passes the check on it or knows its marker.
LEMMA HolderOnly ==
    ASSUME LeaseInv, NEW z \in Zip, NEW b \in Browser, holder[z] = b
    PROVE  /\ InProgress(zips[z])
           /\ \A c \in Browser : zips[z].last_error \in Known(c) => c = b
           /\ \A c \in Browser : Owned(c, z) => c = b
<1>1. b # Null /\ b \notin Vm
  BY ZipQueueAssumption
<1>2. InProgress(zips[z])
  BY <1>1 DEF LeaseInv, HeldInProgress
<1>3. ASSUME NEW c \in Browser, zips[z].last_error \in Known(c)
      PROVE  c = b
  BY <1>1, <1>2, <1>3 DEF LeaseInv, KnownMarkerHolds
<1>. QED
  BY <1>2, <1>3, OwnedKnows

\* No step of a crawler ends a live lease, unless the crawler works on the ZIP.
LEMMA VmKeepsLease ==
    ASSUME LeaseInv, NEW v \in Vm, VmStep(v), NEW z \in Zip, NEW b \in Browser,
           holder[z] = b, zips[z].age < StaleAfter, holder'[z] # b
    PROVE  vm_zip[v] = z
<1>1. TypeOK /\ InProgress(zips[z])
  BY HolderOnly DEF LeaseInv
<1>2. ASSUME VmStart(v)
      PROVE  FALSE
  <2>1. zips[z].age # StaleAfter
    BY <1>1, ZipTableAssumption DEF TypeOK, ZipRow
  <2>2. requeueStaleInProgress(zips)[z] = zips[z]
    BY <2>1 DEF requeueStaleInProgress, Expired
  <2>. QED
    BY <1>1, <1>2, <2>2, WriteKeepsHolder DEF VmStart
<1>3. ASSUME NEW row, Write([zips EXCEPT ![vm_zip[v]] = row]), vm_zip[v] # z
      PROVE  FALSE
  <2>1. [zips EXCEPT ![vm_zip[v]] = row][z] = zips[z]
    BY <1>1, <1>3 DEF TypeOK
  <2>. QED
    BY <1>1, <1>3, <2>1, WriteKeepsHolder
<1>4. CASE \E reply \in Replies : VmMarkDone(v, reply)
  BY <1>3, <1>4 DEF VmMarkDone
<1>5. CASE VmMarkError(v)
  BY <1>3, <1>5 DEF VmMarkError
<1>6. ASSUME VmMarkErrorFailed(v) \/ VmDown(v)
      PROVE  FALSE
  BY <1>6 DEF VmMarkErrorFailed, VmDown
<1>7. ASSUME NEW y \in Zip, NEW reply \in Replies, VmClaim(v, y, reply)
      PROVE  FALSE
  <2>1. y # z
    BY <1>1, <1>7, ClaimableIdle DEF VmClaim, TypeOK
  <2>. QED
    BY <1>1, <1>7, <2>1, WriteHeldKeepsHolder DEF VmClaim
<1>. QED
  BY <1>2, <1>4, <1>5, <1>6, <1>7 DEF VmStep

\* No step of another browser worker ends a live lease.
LEMMA BrowserKeepsLease ==
    ASSUME LeaseInv, NEW c \in Browser, BrowserStep(c), NEW z \in Zip,
           NEW b \in Browser,
           holder[z] = b, zips[z].age < StaleAfter, holder'[z] # b
    PROVE  Owned(b, z)
<1>1. TypeOK /\ InProgress(zips[z]) /\ zips[z] \in ZipRow
  BY HolderOnly DEF LeaseInv, TypeOK
<1>2. ASSUME HeartbeatClaims(c)
      PROVE  FALSE
  <2> DEFINE t == [y \in Zip |-> IF Owned(c, y) THEN [zips[y] EXCEPT !.age = 0]
                                 ELSE zips[y]]
  <2>1. InProgress(t[z])
    BY <1>1, TouchFacts
  <2>. QED
    BY <1>2, <2>1, WriteKeepsHolder DEF HeartbeatClaims
<1>3. CASE ReleaseZipClaims(c)
  <2> DEFINE t == [y \in Zip |-> IF Owned(c, y) THEN Released(zips[y]) ELSE zips[y]]
  <2>1. CASE Owned(c, z)
    BY <2>1, HolderOnly
  <2>2. ASSUME ~Owned(c, z)
        PROVE  FALSE
    <3>1. t[z] = zips[z] /\ Write(t)
      BY <1>3, <2>2 DEF ReleaseZipClaims
    <3>. QED
      BY <1>1, <3>1, WriteKeepsHolder
  <2>. QED
    BY <2>1, <2>2
<1>4. ASSUME NEW y \in Zip, NEW t \in Token, NEW reply \in Replies,
             ClaimNextZip(c, y, t, reply)
      PROVE  FALSE
  <2> DEFINE recovered == RequeueExpiredMarkers(zips)
  <2>1. zips[z].age # StaleAfter
    BY <1>1, ZipTableAssumption DEF ZipRow
  <2>2. recovered[z] = zips[z]
    BY <2>1 DEF RequeueExpiredMarkers, Expired
  <2>3. y # z
    BY <1>1, <1>4, <2>2, ClaimableIdle, RecoveryTypes DEF ClaimNextZip, TypeOK
  <2>4. WriteHeld(recovered, y, BrowserClaimed(recovered[y], t), c)
    BY <1>4 DEF ClaimNextZip
  <2>. QED
    BY <1>1, <2>2, <2>3, <2>4, WriteHeldKeepsHolder
<1>5. ASSUME NEW y \in Zip, NEW status \in {"done", "error", "quarantined"},
             NEW reply \in Replies, SetZipState(c, y, status, reply)
      PROVE  Owned(b, z)
  <2>1. CASE y = z
    BY <1>5, <2>1, HolderOnly DEF SetZipState
  <2>2. ASSUME y # z
        PROVE  FALSE
    <3> DEFINE t == [zips EXCEPT ![y] = IF status = "done" THEN DoneRow(@)
                                        ELSE ParkedRow(@, status)]
    <3>1. Write(t) /\ t[z] = zips[z]
      BY <1>1, <1>5, <2>2 DEF SetZipState, TypeOK
    <3>. QED
      BY <1>1, <3>1, WriteKeepsHolder
  <2>. QED
    BY <2>1, <2>2
<1>6. ASSUME NEW e \in outbox_claims[c], NEW t \in Token, NEW reply \in Replies,
             ClaimOutboxZip(c, e, t, reply)
      PROVE  FALSE
  <2>1. e[1] \in Zip
    BY <1>1 DEF TypeOK
  <2>2. CASE e[1] = z
    <3>1. zips[z].last_error = t /\ ~Fresh(t)
      BY <1>1, <1>6, <2>2 DEF ClaimOutboxZip, Fresh
    <3>2. t \in Known(c)
      BY <1>6, <3>1, ZipTableAssumption DEF ClaimOutboxZip, Known
    <3>3. c = b
      BY <3>1, <3>2, HolderOnly
    <3>4. holder'[z] = c
      BY <1>6, <2>2 DEF ClaimOutboxZip, WriteHeld
    <3>. QED
      BY <3>3, <3>4
  <2>3. CASE e[1] # z
    BY <1>1, <1>6, <2>1, <2>3, WriteHeldKeepsHolder DEF ClaimOutboxZip
  <2>. QED
    BY <2>2, <2>3
<1>7. ASSUME \/ BrowserDown(c)
             \/ \E y \in Zip : EnqueueOutboxBatch(c, y)
             \/ \E e \in outbox_claims[c] : SettleOutboxBatch(c, e)
      PROVE  FALSE
  BY <1>7 DEF BrowserDown, EnqueueOutboxBatch, SettleOutboxBatch
<1>. QED
  BY <1>2, <1>3, <1>4, <1>5, <1>6, <1>7 DEF BrowserStep

\* Neither operators, nor loaders, nor time end a lease.
LEMMA TableKeepsLease ==
    ASSUME LeaseInv, TableStep \/ Tick, NEW z \in Zip, NEW b \in Browser,
           holder[z] = b
    PROVE  holder'[z] = b
<1>1. TypeOK /\ InProgress(zips[z]) /\ zips[z] \in ZipRow
  BY HolderOnly DEF LeaseInv, TypeOK
<1>2. CASE RetryFailedZips
  <2> DEFINE t == [y \in Zip |-> IF zips[y].places_status \in {"error", "quarantined"}
                                 THEN Released(zips[y]) ELSE zips[y]]
  <2>1. t[z] = zips[z] /\ Write(t)
    BY <1>1, <1>2 DEF RetryFailedZips, InProgress
  <2>. QED
    BY <1>1, <2>1, WriteKeepsHolder
<1>3. ASSUME NEW y \in Zip, TouchZip(y)
      PROVE  holder'[z] = b
  <2> DEFINE t == [zips EXCEPT ![y].age = 0]
  <2>1. t[z] = zips[z] \/ t[z] = [zips[z] EXCEPT !.age = 0]
    BY <1>1 DEF TypeOK
  <2>2. InProgress(t[z])
    <3>1. InProgress([zips[z] EXCEPT !.age = 0])
      BY <1>1, TouchFacts
    <3> HIDE DEF t
    <3>. QED
      BY <1>1, <2>1, <3>1
  <2>. QED
    BY <1>3, <2>2, WriteKeepsHolder DEF TouchZip
<1>4. ASSUME NEW y \in Zip, RefreshDue(y)
      PROVE  holder'[z] = b
  <2> DEFINE t == [zips EXCEPT ![y].refreshDue = TRUE]
  <2>1. t[z] = zips[z] \/ t[z] = [zips[z] EXCEPT !.refreshDue = TRUE]
    BY <1>1 DEF TypeOK
  <2>2. InProgress(t[z])
    <3>1. InProgress([zips[z] EXCEPT !.refreshDue = TRUE])
      BY <1>1, TouchFacts
    <3> HIDE DEF t
    <3>. QED
      BY <1>1, <2>1, <3>1
  <2>. QED
    BY <1>4, <2>2, WriteKeepsHolder DEF RefreshDue
<1>5. CASE Tick
  <2> DEFINE t == [y \in Zip |-> IF zips[y].age < StaleAfter
                                 THEN [zips[y] EXCEPT !.age = @ + 1] ELSE zips[y]]
  <2>1. t[z] = zips[z] \/ t[z] = [zips[z] EXCEPT !.age = zips[z].age + 1]
    OBVIOUS
  <2>2. InProgress(t[z])
    BY <1>1, <2>1, TouchFacts
  <2>. QED
    BY <1>5, <2>2, WriteKeepsHolder DEF Tick
<1>. QED
  BY <1>2, <1>3, <1>4, <1>5 DEF TableStep

\* A browser's live claim is ended by that browser alone, or by a crawler that
\* still believes it works on the ZIP.
THEOREM LiveLeaseIsKept == Spec => LiveLeaseKept
<1>1. LeaseInv /\ [Next]_vars =>
        [\A z \in Zip : \A b \in Browser :
            (holder[z] = b /\ zips[z].age < StaleAfter /\ holder'[z] # b)
               => Owned(b, z) \/ \E v \in Vm : vm_zip[v] = z]_vars
  BY VmKeepsLease, BrowserKeepsLease, TableKeepsLease DEF Next
<1>. QED
  BY <1>1, MarkersStayPrivate, PTL DEF Spec, LiveLeaseKept

-----------------------------------------------------------------------------
(* A crawler's claim                                                       *)

\* What claims nothing gives no row to a worker.
LEMMA WriteHandsNone ==
    ASSUME NEW t, Write(t), NEW z \in Zip, holder[z] \in Vm
    PROVE  holder'[z] \notin Browser
  BY ZipQueueAssumption DEF Write

\* A claim gives one row to the worker that makes it.
LEMMA ClaimHandsOne ==
    ASSUME NEW t, NEW y, NEW row, NEW w, WriteHeld(t, y, row, w),
           NEW z \in Zip, z # y \/ w \in Vm, holder[z] \in Vm
    PROVE  holder'[z] \notin Browser
  BY ZipQueueAssumption DEF WriteHeld

\* A crawler takes rows for itself.
LEMMA VmHandsNone ==
    ASSUME NEW v \in Vm, VmStep(v), NEW z \in Zip, holder[z] \in Vm
    PROVE  holder'[z] \notin Browser
<1>1. CASE VmStart(v)
  BY <1>1, WriteHandsNone DEF VmStart
<1>2. CASE VmMarkError(v)
  BY <1>2, WriteHandsNone DEF VmMarkError
<1>3. CASE VmMarkErrorFailed(v) \/ VmDown(v)
  BY <1>3, ZipQueueAssumption DEF VmMarkErrorFailed, VmDown
<1>4. CASE \E reply \in Replies : VmMarkDone(v, reply)
  BY <1>4, WriteHandsNone DEF VmMarkDone
<1>5. CASE \E y \in Zip, reply \in Replies : VmClaim(v, y, reply)
  BY <1>5, ClaimHandsOne DEF VmClaim
<1>. QED
  BY <1>1, <1>2, <1>3, <1>4, <1>5 DEF VmStep

\* A browser worker takes rows that are not in progress, or carry a marker.
LEMMA BrowserTakesMarked ==
    ASSUME LeaseInv, NEW b \in Browser, BrowserStep(b), NEW z \in Zip,
           holder[z] \in Vm, ~Marked(zips[z])
    PROVE  holder'[z] \notin Browser
<1>1. TypeOK /\ InProgress(zips[z])
  BY ZipQueueAssumption DEF LeaseInv, HeldInProgress
<1>2. CASE HeartbeatClaims(b)
  BY <1>2, WriteHandsNone DEF HeartbeatClaims
<1>3. CASE ReleaseZipClaims(b)
  BY <1>3, WriteHandsNone DEF ReleaseZipClaims
<1>4. ASSUME NEW y \in Zip, NEW t \in Token, NEW reply \in Replies,
             ClaimNextZip(b, y, t, reply)
      PROVE  holder'[z] \notin Browser
  <2> DEFINE recovered == RequeueExpiredMarkers(zips)
  <2>1. recovered[z] = zips[z]
    BY DEF RequeueExpiredMarkers
  <2>2. y # z
    BY <1>1, <1>4, <2>1, ClaimableIdle, RecoveryTypes DEF ClaimNextZip, TypeOK
  <2>3. WriteHeld(recovered, y, BrowserClaimed(recovered[y], t), b)
    BY <1>4 DEF ClaimNextZip
  <2>. QED
    BY <2>2, <2>3, ClaimHandsOne
<1>5. CASE \E y \in Zip, status \in {"done", "error", "quarantined"}, reply \in Replies :
             SetZipState(b, y, status, reply)
  BY <1>5, WriteHandsNone DEF SetZipState
<1>6. ASSUME NEW e \in outbox_claims[b], NEW t \in Token, NEW reply \in Replies,
             ClaimOutboxZip(b, e, t, reply)
      PROVE  holder'[z] \notin Browser
  <2>1. e[1] # z
    BY <1>1, <1>6 DEF ClaimOutboxZip, Marked
  <2>. QED
    BY <1>6, <2>1, ClaimHandsOne DEF ClaimOutboxZip
<1>7. CASE \/ BrowserDown(b)
           \/ \E y \in Zip : EnqueueOutboxBatch(b, y)
           \/ \E e \in outbox_claims[b] : SettleOutboxBatch(b, e)
  BY <1>7, ZipQueueAssumption DEF BrowserDown, EnqueueOutboxBatch, SettleOutboxBatch
<1>. QED
  BY <1>2, <1>3, <1>4, <1>5, <1>6, <1>7 DEF BrowserStep

\* No browser worker takes a row from a crawler whose claim carries no marker:
\* VmClaimPreserved fails on markers that others have left alone.
THEOREM UnmarkedClaimsAreKept == Spec => UnmarkedVmClaimPreserved
<1>1. ASSUME LeaseInv, [Next]_vars, NEW z \in Zip, holder[z] \in Vm, ~Marked(zips[z])
      PROVE  holder'[z] \notin Browser
  <2>1. CASE TableStep \/ Tick
    BY <1>1, <2>1, WriteHandsNone DEF TableStep, RetryFailedZips, TouchZip, RefreshDue, Tick
  <2>2. CASE UNCHANGED vars
    BY <1>1, <2>2, ZipQueueAssumption DEF vars
  <2>. QED
    BY <1>1, <2>1, <2>2, VmHandsNone, BrowserTakesMarked DEF Next
<1>2. LeaseInv /\ [Next]_vars =>
        [\A z \in Zip : holder[z] \in Vm /\ ~Marked(zips[z]) => holder'[z] \notin Browser]_vars
  BY <1>1
<1>. QED
  BY <1>2, MarkersStayPrivate, PTL DEF Spec, UnmarkedVmClaimPreserved

=============================================================================
