--------------------------- MODULE ServicesProofs ---------------------------
(***************************************************************************)
(* Proofs about the services that feed and sweep the directories, and the  *)
(* types of the composition MCServices, for any constants.                 *)
(*                                                                         *)
(* ProviderIngest: that no row gets older is a matter of the order of a    *)
(* cycle (CycleOrder): the weekly file waits until the monthly one is in,  *)
(* and a monthly file that is not in is at least as new as every row       *)
(* (MonthlyAhead).  StateSweep: a state that is held runs, and is not old  *)
(* enough to be taken back (HeldRun).                                      *)
(***************************************************************************)
EXTENDS MCServices, BurstJobProofs, FiniteSetTheorems, WellFoundedInduction, TLAPS

-----------------------------------------------------------------------------
(* The ingest of the healthcare directory                                  *)

Bulk(m)   == [kind |-> "bulk", week |-> m]
Weekly(w) == [kind |-> "weekly", week |-> w]

\* No row is newer than week v.
Upto(v) == \A n \in Npi : providers[n] <= v

\* What has been upserted of a file, is still to come, or was all of it.
FilesApplied ==
    /\ \A f \in File : applied[f] \subseteq Rows(f) /\ (f.week > week => applied[f] = {})
    /\ \A f \in ingested : f.week <= week /\ Rows(f) \subseteq applied[f]
    /\ loading # Nothing =>
          /\ loading.file.week <= week /\ loading.rows \subseteq Rows(loading.file)
          /\ Rows(loading.file) \subseteq loading.rows \cup applied[loading.file]

\* A row's version is a week it changed in, and every row began in week 0.
RowsDated ==
    /\ changed[0] = Npi
    /\ \A n \in Npi : providers[n] # -1 => n \in changed[providers[n]]

\* The newest monthly file is in, or no row is newer than it.
MonthlyAhead == Bulk(monthly) \in ingested \/ Upto(monthly)

\* Where the cycle that found monthly file m and weekly file w stands.
Standing(m, w) ==
    \/ /\ targets = <<Bulk(m), Weekly(w)>> /\ loading = Nothing
       /\ Bulk(m) \in ingested \/ Upto(m)
    \/ targets = <<Weekly(w)>> /\ loading = Nothing /\ Bulk(m) \in ingested
    \/ targets = <<Weekly(w)>> /\ loading # Nothing /\ loading.file = Bulk(m) /\ Upto(m)
    \/ targets = <<>> /\ loading # Nothing /\ loading.file = Weekly(w) /\ Bulk(m) \in ingested

CycleOrder ==
    \/ targets = <<>> /\ loading = Nothing
    \/ \E m \in 0..monthly, w \in 0..week :
          /\ m <= w /\ (m = monthly \/ w <= monthly) /\ Upto(w)
          /\ Standing(m, w)

IngestInv == IngestTypeOK /\ FilesApplied /\ RowsDated /\ MonthlyAhead /\ CycleOrder

-----------------------------------------------------------------------------
(* Versions                                                                *)

\* Naturals have a least element.
LEMMA LeastNatural ==
    ASSUME NEW T \in SUBSET Nat, T # {}
    PROVE  \E x \in T : \A y \in T : x <= y
<1> DEFINE R == OpToRel(<, Nat)
<1>1. IsWellFoundedOn(R, Nat)
  BY NatLessThanWellFounded
<1>2. \A x, y \in Nat : y < x => <<y, x>> \in R
  BY DEF OpToRel
<1> HIDE DEF R
<1>3. PICK x \in T : \A y \in T : ~ (<<y, x>> \in R)
  BY <1>1, WFMin
<1>4. \A y \in T : y \in Nat /\ ~ (y < x)
  BY <1>2, <1>3
<1>5. \A y \in T : x <= y
  BY <1>4
<1>. QED
  BY <1>5

LEMMA GreatestBelow ==
    ASSUME NEW w \in Nat, NEW T \in SUBSET (0..w), T # {}
    PROVE  Max(T) \in T /\ \A y \in T : Max(T) >= y
<1> DEFINE D == {w - y : y \in T}
<1>1. \A y \in T : y \in 0..w /\ w - y \in Nat
  OBVIOUS
<1>2. D \in SUBSET Nat /\ D # {}
  BY <1>1
<1>3. PICK d \in D : \A e \in D : d <= e
  BY <1>2, LeastNatural
<1>4. PICK x \in T : d = w - x
  OBVIOUS
<1>5. \A y \in T : w - x <= w - y
  BY <1>3, <1>4
<1>6. \A y \in T : x >= y
  BY <1>1, <1>5
<1>. QED
  BY <1>6 DEF Max

\* A version is the last week, up to the file's, in which the row changed.
LEMMA VersionIsLast ==
    ASSUME IngestTypeOK, RowsDated, NEW n \in Npi, NEW w \in Week
    PROVE  /\ Version(n, w) \in 0..w /\ n \in changed[Version(n, w)]
           /\ \A v \in 0..w : n \in changed[v] => v <= Version(n, w)
<1> DEFINE T == {v \in 0..w : n \in changed[v]}
<1>1. w \in Nat /\ T \in SUBSET (0..w) /\ T # {}
  BY IngestAssumption DEF Week, RowsDated
<1>2. Max(T) \in T /\ \A y \in T : Max(T) >= y
  BY <1>1, GreatestBelow
<1>3. Version(n, w) = Max(T)
  BY DEF Version
<1> HIDE DEF T
<1>4. \A v \in T : v <= Version(n, w)
  <2> SUFFICES ASSUME NEW v \in T PROVE v <= Version(n, w)
    OBVIOUS
  <2>1. v \in 0..w /\ Max(T) \in 0..w
    BY <1>1, <1>2
  <2>2. Max(T) >= v
    BY <1>2
  <2>. QED
    BY <2>1, <2>2, <1>1, <1>3
<1>. QED
  BY <1>2, <1>3, <1>4 DEF T

\* The same for the version that a batch writes.
LEMMA LoadedVersion ==
    ASSUME IngestTypeOK, RowsDated, NEW n \in Npi, NEW w \in Week, w <= week
    PROVE  Version(n, w) \in Nat /\ Version(n, w) <= w /\ Version(n, w) \in -1..week
<1>1. w \in Nat /\ week \in Nat
  BY IngestAssumption DEF IngestTypeOK, Week
<1>2. Version(n, w) \in 0..w
  BY VersionIsLast
<1>. QED
  BY <1>1, <1>2

-----------------------------------------------------------------------------
(* Types                                                                   *)

LEMMA Weeks ==
    /\ Week \subseteq Nat /\ 0 \in Week /\ 0 \in 0..FailureBound
    /\ \A w \in Week : Bulk(w) \in File /\ Weekly(w) \in File
    /\ \A f \in File : f.week \in Week /\ (f = Bulk(f.week) \/ f = Weekly(f.week))
  BY IngestAssumption DEF Week, File, Bulk, Weekly

LEMMA RowsAreProviders ==
    ASSUME IngestTypeOK, NEW f \in File PROVE Rows(f) \subseteq Npi
<1>1. f.week \in Week
  BY Weeks
<1>2. changed[f.week] \subseteq Npi
  BY <1>1 DEF IngestTypeOK
<1>. QED
  BY <1>2 DEF Rows

LEMMA IngestInitInv == IngestInit => IngestInv
<1> SUFFICES ASSUME IngestInit PROVE IngestInv
  OBVIOUS
<1>1. IngestTypeOK
  BY Weeks DEF IngestInit, IngestTypeOK
<1>2. FilesApplied
  BY DEF IngestInit, FilesApplied
<1>3. RowsDated
  BY Weeks DEF IngestInit, RowsDated
<1>4. MonthlyAhead
  BY DEF IngestInit, MonthlyAhead, Upto
<1>5. CycleOrder
  BY DEF IngestInit, CycleOrder
<1>. QED
  BY <1>1, <1>2, <1>3, <1>4, <1>5 DEF IngestInv

\* The two forms that loading has.
LEMMA LoadingForms ==
    ASSUME IngestTypeOK, loading # Nothing
    PROVE  loading \in [file : File, rows : SUBSET Npi]
  BY DEF IngestTypeOK

LEMMA IngestTypes ==
    ASSUME IngestInv, [IngestNext]_ingestVars
    PROVE  IngestTypeOK'
<1> USE DEF IngestInv
<1>1. ASSUME NEW rows \in SUBSET Npi, NEW full \in BOOLEAN, Publish(rows, full)
      PROVE  IngestTypeOK'
  <2>1. week' = week + 1 /\ week' \in Week
    BY <1>1, IngestAssumption DEF Publish, Week, IngestTypeOK
  <2>2. monthly' \in 0..week'
    BY <1>1, <2>1, Weeks DEF Publish, IngestTypeOK
  <2>3. providers' \in [Npi -> -1..week']
    BY <1>1, <2>1, Weeks DEF Publish, IngestTypeOK
  <2>. QED
    BY <1>1, <2>1, <2>2, <2>3 DEF Publish, IngestTypeOK
<1>2. CASE Discover
  <2>0. week \in Week /\ monthly \in Week
    BY IngestAssumption DEF IngestTypeOK, Week
  <2>a. Newest = <<Bulk(monthly), Weekly(week)>> /\ Bulk(monthly) \in File /\ Weekly(week) \in File
    BY <2>0, Weeks DEF Newest, Bulk, Weekly
  <2>1. Newest \in {<<f, g>> : f, g \in File}
    BY <2>a
  <2>. QED
    BY <1>2, <2>1 DEF Discover, IngestTypeOK
<1>3. CASE NextFile
  <2>1. Head(targets) \in File /\ Tail(targets) \in {<<>>} \cup {<<f>> : f \in File}
    <3>1. CASE targets \in {<<f>> : f \in File}
      <4>1. PICK f \in File : targets = <<f>>
        BY <3>1
      <4>2. Head(targets) = f /\ Tail(targets) = <<>>
        BY <4>1
      <4>. QED
        BY <4>2
    <3>2. CASE targets \in {<<f, g>> : f, g \in File}
      <4>1. PICK f \in File, g \in File : targets = <<f, g>>
        BY <3>2
      <4>2. Head(targets) = f /\ Tail(targets) = <<g>>
        BY <4>1
      <4>. QED
        BY <4>2
    <3>. QED
      BY <1>3, <3>1, <3>2 DEF NextFile, IngestTypeOK
  <2>2. loading' \in {Nothing} \cup [file : File, rows : SUBSET Npi]
    BY <1>3, <2>1, RowsAreProviders DEF NextFile
  <2>. QED
    BY <1>3, <2>1, <2>2 DEF NextFile, IngestTypeOK
<1>4. ASSUME NEW batch \in SUBSET Npi, UpsertBatch(batch)
      PROVE  IngestTypeOK'
  <2>1. loading \in [file : File, rows : SUBSET Npi] /\ loading.file.week \in Week
    BY <1>4, LoadingForms, Weeks DEF UpsertBatch
  <2>2. loading.file.week <= week
    BY <1>4 DEF UpsertBatch, FilesApplied
  <2>3. \A n \in Npi : Version(n, loading.file.week) \in -1..week
    BY <2>1, <2>2, LoadedVersion
  <2>4. providers' \in [Npi -> -1..week]
    BY <1>4, <2>3 DEF UpsertBatch, IngestTypeOK
  <2>5. applied' \in [File -> SUBSET Npi]
    BY <1>4, <2>1 DEF UpsertBatch, IngestTypeOK
  <2>6. loading' \in [file : File, rows : SUBSET Npi]
    BY <1>4, <2>1 DEF UpsertBatch
  <2>. QED
    BY <1>4, <2>4, <2>5, <2>6 DEF UpsertBatch, IngestTypeOK
<1>5. CASE FinishFile
  <2>1. loading.file \in File
    BY <1>5, LoadingForms DEF FinishFile
  <2>. QED
    BY <1>5, <2>1 DEF FinishFile, IngestTypeOK
<1>6. CASE CycleFails
  BY <1>6, IngestAssumption DEF CycleFails, IngestTypeOK
<1>7. CASE UNCHANGED ingestVars
  BY <1>7 DEF ingestVars, IngestTypeOK
<1>. QED
  BY <1>1, <1>2, <1>3, <1>4, <1>5, <1>6, <1>7 DEF IngestNext, IngestStep

-----------------------------------------------------------------------------
(* The steps                                                               *)

\* What a worker with files to look at is about to open.
LEMMA NextTarget ==
    ASSUME IngestInv, targets # <<>>, loading = Nothing
    PROVE  \E m \in 0..monthly, w \in 0..week :
              /\ m <= w /\ (m = monthly \/ w <= monthly) /\ Upto(w)
              /\ \/ /\ Head(targets) = Bulk(m) /\ Tail(targets) = <<Weekly(w)>>
                    /\ Bulk(m) \in ingested \/ Upto(m)
                 \/ Head(targets) = Weekly(w) /\ Tail(targets) = <<>> /\ Bulk(m) \in ingested
<1>1. PICK m \in 0..monthly, w \in 0..week :
         /\ m <= w /\ (m = monthly \/ w <= monthly) /\ Upto(w) /\ Standing(m, w)
  BY DEF IngestInv, CycleOrder
<1>2. CASE targets = <<Bulk(m), Weekly(w)>> /\ (Bulk(m) \in ingested \/ Upto(m))
  <2>1. Head(targets) = Bulk(m) /\ Tail(targets) = <<Weekly(w)>>
    BY <1>2
  <2>. QED
    BY <1>1, <1>2, <2>1
<1>3. CASE targets = <<Weekly(w)>> /\ Bulk(m) \in ingested
  <2>1. Head(targets) = Weekly(w) /\ Tail(targets) = <<>>
    BY <1>3
  <2>. QED
    BY <1>1, <1>3, <2>1
<1>. QED
  BY <1>1, <1>2, <1>3 DEF Standing

\* What a worker that loads a file is about.
LEMMA LoadedFile ==
    ASSUME IngestInv, loading # Nothing
    PROVE  \E m \in 0..monthly, w \in 0..week :
              /\ m <= w /\ (m = monthly \/ w <= monthly) /\ Upto(w)
              /\ \/ loading.file = Bulk(m) /\ targets = <<Weekly(w)>> /\ Upto(m)
                 \/ loading.file = Weekly(w) /\ targets = <<>> /\ Bulk(m) \in ingested
  BY DEF IngestInv, CycleOrder, Standing

\* No row is newer than the file that is being loaded.
LEMMA LoadedIsNewest ==
    ASSUME IngestInv, loading # Nothing
    PROVE  Upto(loading.file.week) /\ loading.file \in File /\ loading.file.week \in Week
<1>1. Upto(loading.file.week)
  <2>1. PICK m \in 0..monthly, w \in 0..week :
           Upto(w) /\ ((loading.file = Bulk(m) /\ Upto(m)) \/ loading.file = Weekly(w))
    BY LoadedFile
  <2>2. Bulk(m).week = m /\ Weekly(w).week = w
    BY DEF Bulk, Weekly
  <2>. QED
    BY <2>1, <2>2
<1>. QED
  BY <1>1, LoadingForms, Weeks DEF IngestInv

LEMMA FilesStep ==
    ASSUME IngestInv, [IngestNext]_ingestVars
    PROVE  FilesApplied'
<1> USE DEF IngestInv
<1>0. week \in Nat /\ \A f \in File : f.week \in Nat
  <2>1. week \in Week
    BY DEF IngestTypeOK
  <2>. QED
    BY <2>1, Weeks
<1>1. ASSUME NEW rows \in SUBSET Npi, NEW full \in BOOLEAN, Publish(rows, full)
      PROVE  FilesApplied'
  <2>1. \A f \in File : f.week <= week => Rows(f)' = Rows(f)
    BY <1>0, <1>1, Weeks DEF Publish, Rows, IngestTypeOK
  <2>2. \A f \in File : applied[f] \subseteq Rows(f)'
    BY <1>0, <2>1 DEF FilesApplied
  <2>3. \A f \in File : f.week > week' => applied[f] = {}
    BY <1>0, <1>1 DEF FilesApplied, Publish
  <2>4. \A f \in ingested : f.week <= week' /\ Rows(f)' \subseteq applied[f]
    BY <1>0, <1>1, <2>1 DEF FilesApplied, Publish, IngestTypeOK
  <2>5. ASSUME loading # Nothing
        PROVE  /\ loading.file.week <= week' /\ Rows(loading.file)' = Rows(loading.file)
    BY <1>0, <1>1, <2>1, <2>5, LoadingForms DEF FilesApplied, Publish
  <2>. QED
    BY <1>1, <2>2, <2>3, <2>4, <2>5 DEF FilesApplied, Publish
<1>2. CASE NextFile
  <2>1. \A f : Rows(f)' = Rows(f)
    BY <1>2 DEF NextFile, Rows
  <2>2. Head(targets).week <= week
    <3>1. PICK m \in 0..monthly, w \in 0..week :
             m <= w /\ (Head(targets) = Bulk(m) \/ Head(targets) = Weekly(w))
      BY <1>2, NextTarget DEF NextFile
    <3>2. Bulk(m).week = m /\ Weekly(w).week = w
      BY DEF Bulk, Weekly
    <3>3. m <= week /\ w <= week
      BY <1>0, <3>1 DEF IngestTypeOK
    <3>. QED
      BY <3>1, <3>2, <3>3
  <2>. QED
    BY <1>2, <2>1, <2>2 DEF FilesApplied, NextFile
<1>3. ASSUME NEW batch \in SUBSET Npi, UpsertBatch(batch)
      PROVE  FilesApplied'
  <2>1. \A f : Rows(f)' = Rows(f)
    BY <1>3 DEF UpsertBatch, Rows
  <2>2. loading.file \in File /\ loading \in [file : File, rows : SUBSET Npi]
    BY <1>3, LoadingForms DEF UpsertBatch
  <2>3. batch \subseteq Rows(loading.file) /\ loading.file.week <= week
    BY <1>3 DEF UpsertBatch, FilesApplied
  <2>4. /\ applied'[loading.file] = applied[loading.file] \cup batch
        /\ \A f \in File : f # loading.file => applied'[f] = applied[f]
        /\ \A f \in File : applied[f] \subseteq applied'[f]
    BY <1>3, <2>2 DEF UpsertBatch, IngestTypeOK
  <2>5. loading'.file = loading.file /\ loading'.rows = loading.rows \ batch
    BY <1>3, <2>2 DEF UpsertBatch
  <2>6. \A f \in File : applied'[f] \subseteq Rows(f) /\ (f.week > week => applied'[f] = {})
    BY <1>0, <2>2, <2>3, <2>4 DEF FilesApplied
  <2>7. \A f \in ingested : f.week <= week /\ Rows(f) \subseteq applied'[f]
    BY <2>4 DEF FilesApplied, IngestTypeOK
  <2>8. /\ loading'.rows \subseteq Rows(loading.file)
        /\ Rows(loading.file) \subseteq loading'.rows \cup applied'[loading.file]
    BY <1>3, <2>4, <2>5 DEF FilesApplied, UpsertBatch
  <2>9. week' = week /\ ingested' = ingested
    BY <1>3 DEF UpsertBatch
  <2>. QED
    BY <2>1, <2>3, <2>5, <2>6, <2>7, <2>8, <2>9 DEF FilesApplied
<1>4. CASE FinishFile
  <2>1. \A f : Rows(f)' = Rows(f)
    BY <1>4 DEF FinishFile, Rows
  <2>2. loading.file.week <= week /\ Rows(loading.file) \subseteq applied[loading.file]
    BY <1>4 DEF FinishFile, FilesApplied
  <2>. QED
    BY <1>4, <2>1, <2>2 DEF FilesApplied, FinishFile
<1>5. CASE Discover \/ CycleFails \/ UNCHANGED ingestVars
  <2>1. \A f : Rows(f)' = Rows(f)
    BY <1>5 DEF Discover, CycleFails, ingestVars, Rows
  <2>. QED
    BY <1>5, <2>1 DEF FilesApplied, Discover, CycleFails, ingestVars
<1>. QED
  BY <1>1, <1>2, <1>3, <1>4, <1>5 DEF IngestNext, IngestStep

LEMMA DatesStep ==
    ASSUME IngestInv, [IngestNext]_ingestVars
    PROVE  RowsDated'
<1> USE DEF IngestInv
<1>1. ASSUME NEW rows \in SUBSET Npi, NEW full \in BOOLEAN, Publish(rows, full)
      PROVE  RowsDated'
  <2>1. week \in Nat /\ \A v \in 0..week : v \in Week /\ changed'[v] = changed[v]
    BY <1>1, IngestAssumption DEF Publish, IngestTypeOK, Week
  <2>2. \A n \in Npi : providers[n] # -1 => providers[n] \in 0..week
    BY <2>1 DEF IngestTypeOK
  <2>3. 0 \in 0..week
    BY <2>1
  <2>. QED
    BY <1>1, <2>1, <2>2, <2>3 DEF RowsDated, Publish
<1>2. ASSUME NEW batch \in SUBSET Npi, UpsertBatch(batch)
      PROVE  RowsDated'
  <2>1. loading.file.week \in Week
    BY <1>2, LoadedIsNewest DEF UpsertBatch
  <2>2. \A n \in Npi : n \in changed[Version(n, loading.file.week)]
    BY <2>1, VersionIsLast
  <2>. QED
    BY <1>2, <2>2 DEF RowsDated, UpsertBatch
<1>. QED
  BY <1>1, <1>2
  DEF IngestNext, IngestStep, Discover, NextFile, FinishFile, CycleFails, ingestVars, RowsDated

\* A batch leaves no row newer than its file, and no row older than it was.
LEMMA BatchStep ==
    ASSUME IngestInv, NEW batch \in SUBSET Npi, UpsertBatch(batch)
    PROVE  /\ Upto(loading.file.week)'
           /\ \A n \in Npi : providers'[n] >= providers[n]
<1> DEFINE w == loading.file.week
<1>1. Upto(w) /\ w \in Week /\ w <= week /\ w \in Nat
  BY LoadedIsNewest, Weeks DEF UpsertBatch, IngestInv, FilesApplied
<1>2. loading'.file = loading.file
  BY LoadingForms DEF UpsertBatch, IngestInv
<1> HIDE DEF w
<1>3. ASSUME NEW n \in Npi PROVE providers'[n] <= w /\ providers'[n] >= providers[n]
  <2>1. providers[n] \in Int /\ providers[n] <= w /\ (providers[n] # -1 => providers[n] \in 0..w)
    BY <1>1 DEF Upto, IngestInv, IngestTypeOK
  <2>2. providers'[n] = providers[n] \/ providers'[n] = Version(n, w)
    BY DEF UpsertBatch, w
  <2>3. Version(n, w) \in Nat /\ Version(n, w) <= w
    BY <1>1, LoadedVersion DEF IngestInv
  <2>4. providers[n] # -1 => providers[n] <= Version(n, w)
    BY <1>1, <2>1, VersionIsLast DEF IngestInv, RowsDated
  <2>. QED
    BY <2>1, <2>2, <2>3, <2>4
<1>. QED
  BY <1>2, <1>3 DEF Upto, w

LEMMA AheadStep ==
    ASSUME IngestInv, [IngestNext]_ingestVars
    PROVE  MonthlyAhead'
<1> USE DEF IngestInv
<1>0. week \in Nat /\ monthly \in 0..week /\ \A n \in Npi : providers[n] \in -1..week
  BY Weeks DEF IngestTypeOK
<1>1. ASSUME NEW rows \in SUBSET Npi, NEW full \in BOOLEAN, Publish(rows, full)
      PROVE  MonthlyAhead'
  <2>1. CASE full
    BY <1>0, <1>1, <2>1 DEF Publish, MonthlyAhead, Upto
  <2>2. CASE ~ full
    BY <1>1, <2>2 DEF Publish, MonthlyAhead, Upto
  <2>. QED
    BY <2>1, <2>2
<1>2. ASSUME NEW batch \in SUBSET Npi, UpsertBatch(batch)
      PROVE  MonthlyAhead'
  <2>1. loading # Nothing /\ monthly' = monthly /\ ingested' = ingested
    BY <1>2 DEF UpsertBatch
  <2>2. PICK m \in 0..monthly, w \in 0..week :
           /\ m <= w /\ (m = monthly \/ w <= monthly)
           /\ \/ loading.file = Bulk(m)
              \/ loading.file = Weekly(w) /\ Bulk(m) \in ingested
    BY <2>1, LoadedFile
  <2>3. CASE loading.file.week <= monthly
    <3>1. \A n \in Npi : providers'[n] <= loading.file.week
      BY <1>2, BatchStep, LoadingForms DEF Upto, UpsertBatch
    <3>2. providers' \in [Npi -> Int]
      BY <1>2, IngestTypes, Weeks DEF IngestNext, IngestStep, IngestTypeOK
    <3>3. \A n \in Npi : providers'[n] <= monthly
      <4>1. loading.file.week \in Week
        BY <2>1, LoadedIsNewest
      <4>2. loading.file.week \in Nat
        BY <4>1, Weeks
      <4>3. monthly \in Nat
        BY <1>0
      <4>. QED
        BY <2>3, <3>1, <3>2, <4>2, <4>3
    <3>. QED
      BY <2>1, <3>3 DEF MonthlyAhead, Upto
  <2>4. CASE Bulk(monthly) \in ingested
    BY <2>1, <2>4 DEF MonthlyAhead, Bulk
  <2>. QED
    BY <1>0, <2>2, <2>3, <2>4 DEF Bulk, Weekly
<1>. QED
  BY <1>1, <1>2
  DEF IngestNext, IngestStep, Discover, NextFile, FinishFile, CycleFails, ingestVars,
      MonthlyAhead, Upto, Bulk

LEMMA OrderStep ==
    ASSUME IngestInv, [IngestNext]_ingestVars
    PROVE  CycleOrder'
<1> USE DEF IngestInv
<1>0. week \in Nat /\ monthly \in 0..week /\ \A n \in Npi : providers[n] \in -1..week
  BY Weeks DEF IngestTypeOK
<1>1. ASSUME NEW rows \in SUBSET Npi, NEW full \in BOOLEAN, Publish(rows, full)
      PROVE  CycleOrder'
  <2>1. CASE targets = <<>> /\ loading = Nothing
    BY <1>1, <2>1 DEF Publish, CycleOrder
  <2>2. CASE ~ (targets = <<>> /\ loading = Nothing)
    <3>1. PICK m \in 0..monthly, w \in 0..week :
             m <= w /\ (m = monthly \/ w <= monthly) /\ Upto(w) /\ Standing(m, w)
      BY <2>2 DEF CycleOrder
    <3>2. m \in 0..monthly' /\ w \in 0..week' /\ (m = monthly' \/ w <= monthly')
      BY <1>0, <1>1, <3>1 DEF Publish
    <3>3. Upto(w)' /\ Standing(m, w)'
      BY <1>1, <3>1 DEF Publish, Upto, Standing, Bulk, Weekly
    <3>. QED
      BY <3>1, <3>2, <3>3 DEF CycleOrder
  <2>. QED
    BY <2>1, <2>2
<1>2. CASE Discover
  <2>1. targets' = <<Bulk(monthly), Weekly(week)>> /\ loading' = Nothing
    BY <1>2 DEF Discover, Newest, Bulk, Weekly
  <2>2. Upto(week)' /\ (Bulk(monthly) \in ingested \/ Upto(monthly))'
    BY <1>0, <1>2 DEF Discover, MonthlyAhead, Upto, Bulk
  <2>3. Standing(monthly, week)'
    BY <1>2, <2>1, <2>2 DEF Discover, Standing, Bulk, Weekly, Upto
  <2>. QED
    BY <1>0, <1>2, <2>2, <2>3 DEF Discover, CycleOrder, Upto, Standing, Bulk, Weekly
<1>3. CASE NextFile
  <2>1. PICK m \in 0..monthly, w \in 0..week :
           /\ m <= w /\ (m = monthly \/ w <= monthly) /\ Upto(w)
           /\ \/ /\ Head(targets) = Bulk(m) /\ Tail(targets) = <<Weekly(w)>>
                 /\ Bulk(m) \in ingested \/ Upto(m)
              \/ Head(targets) = Weekly(w) /\ Tail(targets) = <<>> /\ Bulk(m) \in ingested
    BY <1>3, NextTarget DEF NextFile
  <2>2. /\ targets' = Tail(targets) /\ ingested' = ingested /\ Upto(m)' = Upto(m)
        /\ loading' = Nothing \/ loading' = [file |-> Head(targets), rows |-> Rows(Head(targets))]
        /\ loading' = Nothing <=> Head(targets) \in ingested
    BY <1>3 DEF NextFile, Upto, Nothing
  <2>3. \/ targets' = <<>> /\ loading' = Nothing
        \/ Standing(m, w)'
    <3>1. loading' # Nothing => loading'.file = Head(targets)
      BY <2>2
    <3>2. Bulk(m)' = Bulk(m) /\ Weekly(w)' = Weekly(w)
      BY DEF Bulk, Weekly
    <3>3. CASE Head(targets) = Bulk(m) /\ Tail(targets) = <<Weekly(w)>>
      BY <2>1, <2>2, <3>1, <3>2, <3>3 DEF Standing
    <3>4. CASE Head(targets) = Weekly(w) /\ Tail(targets) = <<>> /\ Bulk(m) \in ingested
      BY <2>2, <3>1, <3>2, <3>4 DEF Standing
    <3>. QED
      BY <2>1, <3>3, <3>4
  <2>4. Upto(w)' /\ monthly' = monthly /\ week' = week
    BY <1>3, <2>1 DEF NextFile, Upto
  <2>. QED
    BY <2>1, <2>3, <2>4 DEF CycleOrder
<1>4. ASSUME NEW batch \in SUBSET Npi, UpsertBatch(batch)
      PROVE  CycleOrder'
  <2>1. /\ monthly' = monthly /\ week' = week /\ targets' = targets /\ ingested' = ingested
        /\ loading # Nothing /\ loading' # Nothing /\ loading'.file = loading.file
    BY <1>4, LoadingForms DEF UpsertBatch, Nothing
  <2>2. PICK m \in 0..monthly, w \in 0..week :
           /\ m <= w /\ (m = monthly \/ w <= monthly)
           /\ \/ loading.file = Bulk(m) /\ targets = <<Weekly(w)>>
              \/ loading.file = Weekly(w) /\ targets = <<>> /\ Bulk(m) \in ingested
    BY <2>1, LoadedFile
  <2>3. \A n \in Npi : providers'[n] <= loading.file.week /\ providers'[n] \in Int
    <3>1. providers' \in [Npi -> -1..week'] /\ week' \in Nat
      BY <1>0, <1>4, <2>1, IngestTypes DEF IngestNext, IngestStep, IngestTypeOK
    <3>2. \A n \in Npi : providers'[n] <= loading.file.week
      BY <1>4, <2>1, BatchStep DEF Upto
    <3>. QED
      BY <3>1, <3>2
  <2>4. Bulk(m).week = m /\ Weekly(w).week = w
    BY DEF Bulk, Weekly
  <2>5. m \in Nat /\ w \in Nat
    BY <1>0
  <2>6. Upto(w)' /\ (loading.file = Bulk(m) => Upto(m)')
    BY <2>2, <2>3, <2>4, <2>5 DEF Upto
  <2>7. Standing(m, w)'
    BY <2>1, <2>2, <2>6 DEF Standing, Bulk, Weekly
  <2>. QED
    BY <2>1, <2>2, <2>6, <2>7 DEF CycleOrder
<1>5. CASE FinishFile
  <2>1. PICK m \in 0..monthly, w \in 0..week :
           /\ m <= w /\ (m = monthly \/ w <= monthly) /\ Upto(w)
           /\ \/ loading.file = Bulk(m) /\ targets = <<Weekly(w)>>
              \/ targets = <<>>
    BY <1>5, LoadedFile DEF FinishFile
  <2>2. \/ targets' = <<>> /\ loading' = Nothing
        \/ Standing(m, w)'
    BY <1>5, <2>1 DEF FinishFile, Standing, Bulk, Weekly
  <2>3. Upto(w)' /\ monthly' = monthly /\ week' = week
    BY <1>5, <2>1 DEF FinishFile, Upto
  <2>. QED
    BY <2>1, <2>2, <2>3 DEF CycleOrder
<1>6. CASE CycleFails
  BY <1>6 DEF CycleFails, CycleOrder
<1>7. CASE UNCHANGED ingestVars
  BY <1>7 DEF ingestVars, CycleOrder, Standing, Upto, Bulk, Weekly
<1>. QED
  BY <1>1, <1>2, <1>3, <1>4, <1>5, <1>6, <1>7 DEF IngestNext, IngestStep

-----------------------------------------------------------------------------
(* Theorems                                                                *)

LEMMA IngestInvariant == IngestSpec => []IngestInv
<1>1. IngestInit => IngestInv
  BY IngestInitInv
<1>2. IngestInv /\ [IngestNext]_ingestVars => IngestInv'
  BY IngestTypes, FilesStep, DatesStep, AheadStep, OrderStep DEF IngestInv
<1>. QED
  BY <1>1, <1>2, PTL DEF IngestSpec

\* Every reachable state of the healthcare worker's copy is well typed.
THEOREM IngestTypeCorrect == IngestSpec => []IngestTypeOK
<1>1. IngestInv => IngestTypeOK
  BY DEF IngestInv
<1>. QED
  BY <1>1, IngestInvariant, PTL

\* ingestFile skips a file only when every row of it was upserted, whatever was
\* killed or failed before finishIngestRun wrote its ingest_runs row.
THEOREM SkippedFilesAreIn == IngestSpec => []IngestedIsApplied
<1>1. IngestInv => IngestedIsApplied
  <2> SUFFICES ASSUME IngestInv, NEW f \in ingested PROVE applied[f] = Rows(f)
    BY DEF IngestedIsApplied
  <2>1. f \in File
    BY DEF IngestInv, IngestTypeOK
  <2>2. applied[f] \subseteq Rows(f) /\ Rows(f) \subseteq applied[f]
    BY <2>1 DEF IngestInv, FilesApplied
  <2>. QED
    BY <2>2
<1>. QED
  BY <1>1, IngestInvariant, PTL

\* runRefreshCycle never takes a provider back to an older registry row.
THEOREM NoRowGetsOlder == IngestSpec => NeverOlder
<1>1. IngestInv /\ [IngestNext]_ingestVars
        => [\A n \in Npi : providers'[n] >= providers[n]]_ingestVars
  <2> SUFFICES ASSUME IngestInv, [IngestNext]_ingestVars
               PROVE  \A n \in Npi : providers'[n] >= providers[n]
    OBVIOUS
  <2>1. \A n \in Npi : providers[n] \in Int
    BY Weeks DEF IngestInv, IngestTypeOK
  <2>2. ASSUME NEW batch \in SUBSET Npi, UpsertBatch(batch)
        PROVE  \A n \in Npi : providers'[n] >= providers[n]
    BY <2>2, BatchStep
  <2>3. CASE UNCHANGED providers
    BY <2>1, <2>3
  <2>. QED
    BY <2>2, <2>3
    DEF IngestNext, IngestStep, Discover, NextFile, FinishFile, CycleFails, Publish, ingestVars
<1>. QED
  BY <1>1, IngestInvariant, PTL DEF IngestSpec, NeverOlder

-----------------------------------------------------------------------------
(* The sweep of the insurance directory                                    *)

\* The first of some candidates is one of them.
LEMMA FirstIsCandidate ==
    ASSUME SweepTypeOK, NEW candidates \in SUBSET State, candidates # {}
    PROVE  FirstOf(candidates) \in candidates
<1> DEFINE places == {i \in DOMAIN queue : queue[i] \in candidates}
<1>1. queue \in [1..Cardinality(State) -> State] /\ \A s \in State : \E i \in DOMAIN queue : queue[i] = s
  BY DEF SweepTypeOK, Orders
<1>2. places # {} /\ places \in SUBSET Nat
  BY <1>1
<1>3. \E i \in places : \A j \in places : i <= j
  BY <1>2, LeastNatural
<1>4. \A i \in places : queue[i] \in candidates
  OBVIOUS
<1>. QED
  BY <1>3, <1>4 DEF FirstOf

\* Going to the end of the queue, a state loses none of the others.
LEMMA StillAnOrder ==
    ASSUME SweepTypeOK, NEW s \in State
    PROVE  ToTheEnd(s) \in Orders
<1> DEFINE n == Cardinality(State)
           place == CHOOSE i \in DOMAIN queue : queue[i] = s
           moved == ToTheEnd(s)
<1>1. queue \in [1..n -> State] /\ \A t \in State : \E i \in 1..n : queue[i] = t
  BY DEF SweepTypeOK, Orders
<1>2. n \in Nat
  BY SweepAssumption, FS_CardinalityType
<1>3. place \in 1..n /\ queue[place] = s
  BY <1>1
<1>4. moved = [i \in 1..n |-> IF i = n THEN s ELSE queue[IF i < place THEN i ELSE i + 1]]
  BY <1>1 DEF ToTheEnd
<1> HIDE DEF n, place, moved
<1>5. moved \in [1..n -> State]
  <2>1. \A i \in 1..n : i # n => i + 1 \in 1..n
    BY <1>2
  <2>. QED
    BY <1>1, <1>4, <2>1
<1>6. ASSUME NEW t \in State PROVE \E i \in 1..n : moved[i] = t
  <2>1. CASE t = s
    <3>1. n \in 1..n
      BY <1>2, <1>3
    <3>. QED
      BY <1>4, <2>1, <3>1
  <2>2. CASE t # s
    <3>1. PICK j \in 1..n : queue[j] = t
      BY <1>1
    <3>2. CASE j < place
      <4>1. j # n
        BY <1>2, <1>3, <3>2
      <4>. QED
        BY <1>4, <3>1, <3>2, <4>1
    <3>3. CASE j > place
      <4>1. j - 1 \in 1..n /\ j - 1 # n /\ ~(j - 1 < place) /\ (j - 1) + 1 = j
        BY <1>2, <1>3, <3>3
      <4>2. moved[j - 1] = queue[(j - 1) + 1]
        BY <1>4, <4>1
      <4>. QED
        BY <3>1, <4>1, <4>2
    <3>. QED
      BY <1>2, <1>3, <2>2, <3>1, <3>2, <3>3
  <2>. QED
    BY <2>1, <2>2
<1>. QED
  BY <1>5, <1>6 DEF Orders, moved, n

\* While no run is overrun, the states that are held run, each for one
\* collector, and are not old enough to be taken back.
HeldRun ==
    ~overrun =>
        /\ \A c \in Collector : holds[c] # Nobody =>
              status[holds[c]] = "running" /\ holds[c] \notin old
        /\ \A c, d \in Collector : c # d /\ holds[c] # Nobody => holds[c] # holds[d]

SweepInv == SweepTypeOK /\ HeldRun

LEMMA SweepInitInv == SweepInit => SweepInv
<1> SUFFICES ASSUME SweepInit PROVE SweepInv
  OBVIOUS
<1>1. SweepTypeOK
  <2>1. 0 \in 0..CrashBound
    BY SweepAssumption
  <2>2. status \in [State -> {"pending", "running", "done", "error"}]
        /\ holds \in [Collector -> State \cup {Nobody}]
    BY DEF SweepInit
  <2>3. up \in BOOLEAN /\ overrun \in BOOLEAN
    BY Zenon DEF SweepInit
  <2>. QED
    BY <2>1, <2>2, <2>3 DEF SweepInit, SweepTypeOK
<1>. QED
  BY <1>1 DEF SweepInit, SweepInv, HeldRun

\* A collector takes a state that nobody holds.
LEMMA TakenKeeps ==
    ASSUME SweepInv, NEW c \in Collector, NEW s \in State, holds[c] = Nobody, MarkRunning(c, s),
           UNCHANGED <<queue, aged, up, crashes>>, overrun' \in BOOLEAN,
           ~overrun' => ~overrun /\ \A d \in Collector : holds[d] # s
    PROVE  SweepInv'
<1>1. SweepTypeOK'
  BY DEF SweepInv, SweepTypeOK, MarkRunning
<1>2. HeldRun'
  BY SweepAssumption DEF SweepInv, SweepTypeOK, HeldRun, MarkRunning
<1>. QED
  BY <1>1, <1>2 DEF SweepInv

LEMMA CollectorKeeps ==
    ASSUME SweepInv, NEW c \in Collector,
           \/ ClaimState(c) \/ Lost(c)
           \/ \E s \in State : RunState(c, s)
           \/ \E outcome \in {"done", "error"} : Collected(c, outcome)
    PROVE  SweepInv'
<1>1. CASE ClaimState(c)
  <2> DEFINE s == FirstOf(Claimables)
  <2>1. Claimables \in SUBSET State /\ \A t \in Claimables : status[t] # "running"
    BY DEF Claimables, SweepInv, SweepTypeOK
  <2>2. s \in State /\ status[s] # "running"
    BY <1>1, <2>1, FirstIsCandidate DEF ClaimState, SweepInv
  <2> HIDE DEF s
  <2>3. holds[c] = Nobody /\ MarkRunning(c, s) /\ UNCHANGED <<queue, aged, up, overrun, crashes>>
    BY <1>1 DEF ClaimState, s
  <2>4. ~overrun => \A d \in Collector : holds[d] # s
    BY <2>2, SweepAssumption DEF SweepInv, HeldRun
  <2>. QED
    BY <2>2, <2>3, <2>4, TakenKeeps DEF SweepInv, SweepTypeOK
<1>2. CASE \E s \in State : RunState(c, s)
  <2>1. PICK s \in State : RunState(c, s)
    BY <1>2
  <2>2. /\ holds[c] = Nobody /\ MarkRunning(c, s) /\ UNCHANGED <<queue, aged, up, crashes>>
        /\ overrun' = (overrun \/ \E d \in Collector : holds[d] = s)
    BY <2>1 DEF RunState
  <2>3. overrun' \in BOOLEAN
    BY <2>2, Zenon DEF SweepInv, SweepTypeOK
  <2>. QED
    BY <2>2, <2>3, TakenKeeps
<1>3. CASE \E outcome \in {"done", "error"} : Collected(c, outcome)
  <2>1. PICK outcome \in {"done", "error"} : Collected(c, outcome)
    BY <1>3
  <2> DEFINE s == holds[c]
  <2>2. /\ s # Nobody /\ status' = [status EXCEPT ![s] = outcome] /\ queue' = ToTheEnd(s)
        /\ aged' = aged \ {s} /\ holds' = [holds EXCEPT ![c] = Nobody]
        /\ UNCHANGED <<old, up, overrun, crashes>>
    BY <2>1 DEF Collected, MarkFinished
  <2>3. s \in State
    BY <2>2 DEF SweepInv, SweepTypeOK
  <2>4. queue' \in Orders
    BY <2>2, <2>3, StillAnOrder DEF SweepInv
  <2> HIDE DEF s
  <2>5. SweepTypeOK'
    BY <2>2, <2>3, <2>4 DEF SweepInv, SweepTypeOK
  <2>6. HeldRun'
    BY <2>2, <2>3 DEF SweepInv, SweepTypeOK, HeldRun, s
  <2>. QED
    BY <2>5, <2>6 DEF SweepInv
<1>4. CASE Lost(c)
  <2>1. /\ crashes < CrashBound /\ crashes' = crashes + 1
        /\ holds' = [holds EXCEPT ![c] = Nobody] /\ up' \in {up, FALSE}
        /\ UNCHANGED <<status, queue, aged, old, overrun>>
    BY <1>4 DEF Lost
  <2>2. SweepTypeOK'
    <3>1. crashes' \in 0..CrashBound
      BY <2>1, SweepAssumption DEF SweepInv, SweepTypeOK
    <3>2. up' \in BOOLEAN
      BY <2>1, Zenon DEF SweepInv, SweepTypeOK
    <3>. QED
      BY <2>1, <3>1, <3>2 DEF SweepInv, SweepTypeOK
  <2>3. HeldRun'
    BY <2>1 DEF SweepInv, SweepTypeOK, HeldRun
  <2>. QED
    BY <2>2, <2>3 DEF SweepInv
<1>. QED
  BY <1>1, <1>2, <1>3, <1>4

LEMMA SweepStepInv == SweepInv /\ [SweepNext]_sweepVars => SweepInv'
<1> SUFFICES ASSUME SweepInv, [SweepNext]_sweepVars PROVE SweepInv'
  OBVIOUS
<1>1. TheWorker \in Collector
  BY DEF Collector
<1>2. CASE WorkerStart
  <2>1. SweepTypeOK'
    BY <1>2 DEF WorkerStart, requeueStaleRunning, SweepInv, SweepTypeOK
  <2>2. HeldRun'
    BY <1>2 DEF WorkerStart, requeueStaleRunning, SweepInv, SweepTypeOK, HeldRun
  <2>. QED
    BY <2>1, <2>2 DEF SweepInv
<1>3. ASSUME NEW c \in Collector,
             \/ ClaimState(c) \/ Lost(c)
             \/ \E s \in State : RunState(c, s)
             \/ \E outcome \in {"done", "error"} : Collected(c, outcome)
      PROVE  SweepInv'
  BY <1>3, CollectorKeeps
<1>4. ASSUME NEW s \in State, DueAgain(s) PROVE SweepInv'
  BY <1>4 DEF DueAgain, SweepInv, SweepTypeOK, HeldRun
<1>5. ASSUME NEW s \in State, RunGetsOld(s) PROVE SweepInv'
  <2>1. overrun' \in BOOLEAN
    BY <1>5, Zenon DEF RunGetsOld, SweepInv, SweepTypeOK
  <2>2. SweepTypeOK'
    BY <1>5, <2>1 DEF RunGetsOld, SweepInv, SweepTypeOK
  <2>3. ~overrun' => ~overrun /\ \A c \in Collector : holds[c] # s
    BY <1>5 DEF RunGetsOld
  <2>4. HeldRun'
    BY <1>5, <2>3 DEF RunGetsOld, SweepInv, HeldRun
  <2>. QED
    BY <2>2, <2>4 DEF SweepInv
<1>6. CASE UNCHANGED sweepVars
  BY <1>6 DEF sweepVars, SweepInv, SweepTypeOK, HeldRun
<1>. QED
  BY <1>1, <1>2, <1>3, <1>4, <1>5, <1>6 DEF SweepNext, WorkerRound

LEMMA SweepInvariant == SweepSpec => []SweepInv
  BY SweepInitInv, SweepStepInv, PTL DEF SweepSpec

\* The table, the queue's order and what collectors hold have their types.
THEOREM SweepTypeCorrect == SweepSpec => []SweepTypeOK
  BY SweepInvariant, PTL DEF SweepInv

\* No two collectors collect one state, for any number of states, manual runs,
\* crashes and failed writes, unless a run outlives staleRunningMinutes or an
\* operator names a state that is being collected.
THEOREM StatesAreExclusive == SweepSpec => []CollectsExclusive
<1>1. SweepInv => CollectsExclusive
  BY DEF SweepInv, HeldRun, CollectsExclusive
<1>. QED
  BY <1>1, SweepInvariant, PTL

-----------------------------------------------------------------------------
(* The composition                                                         *)

\* The burst job, the ingest and the sweep have their types, whichever service
\* a behaviour is about.
THEOREM ServicesTypeCorrect == ServicesSpec => []ServicesTypeOK
<1>1. ServicesInit => BurstInit /\ IngestInit /\ SweepInit
  BY DEF ServicesInit
<1>2. [ServicesNext]_allVars
        => [BurstNext]_burstVars /\ [IngestNext]_ingestVars /\ [SweepNext]_sweepVars
  BY DEF ServicesNext, allVars
<1>3. ServicesSpec => BurstSpec /\ IngestSpec /\ SweepSpec
  BY <1>1, <1>2, PTL DEF ServicesSpec, BurstSpec, IngestSpec, SweepSpec
<1>. QED
  BY <1>3, BurstTypeCorrect, IngestTypeCorrect, SweepTypeCorrect, PTL DEF ServicesTypeOK
=============================================================================
