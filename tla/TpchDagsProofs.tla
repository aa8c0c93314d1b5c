--------------------------- MODULE TpchDagsProofs ---------------------------
(***************************************************************************)
(* Proofs about TpchDags for every set of runs, tables and ingestions, and *)
(* every number of attempts that fail.                                     *)
(***************************************************************************)
EXTENDS TpchDags, TLAPS

----------------------------------------------------------------------------
(***************************************************************************)
(* The types, part by part: what a group of actions leaves alone it keeps. *)
(***************************************************************************)

\* What OpenMetadata has was built, also while an ingestion holds it.
MetaInv ==
    /\ MetadataOK
    /\ \A i \in Ingestions : ingestion[i].found \subseteq built

StageInv ==
    /\ stage \in [Runs -> Stages]
    /\ failures \in 0..MaxFailures

DbtInv ==
    /\ dbt = [r \in DbtRuns |-> dbt[r]]
    /\ \A r \in DbtRuns : dbt[r] \in [Builds[r] -> {"new", "again", "passed", "failed"}]

ShardsInv ==
    /\ shards \in [DbtRuns -> [Tables -> Results]]
    /\ unsent \in [DbtRuns -> SUBSET Tables]
    /\ \A r \in DbtRuns : unsent[r] \subseteq Builds[r]

BuildInv == DbtInv /\ ShardsInv

FinalizeInv ==
    /\ next \in [DbtRuns -> 0..(Len(ARTIFACTS) + 2)]
    /\ merged \in [DbtRuns -> [Tables -> Results]]
    /\ published \in [1..Len(ARTIFACTS) -> [run: SUBSET DbtRuns, results: [Tables -> Results]]]
    /\ cut \subseteq DbtRuns
    /\ \A r \in DbtRuns : next[r] # 0 => stage[r] = "finalize"

WaitingInv ==
    /\ triggered \subseteq Runs
    /\ polling \in [Runs -> BOOLEAN]
    /\ latest \in [Runs -> Ingestions \union {NoIngestion}]
    /\ \A r \in Runs : polling[r] => stage[r] = "ingest"

OwningInv ==
    /\ todo \in [Runs -> SUBSET Tables]
    /\ reading \in [Runs -> Tables \union {NoTable}]
    /\ \A r \in Runs : todo[r] \subseteq Listed[r] /\ reading[r] \in todo[r] \union {NoTable}

TypeInv == MetaInv /\ StageInv /\ BuildInv /\ FinalizeInv /\ WaitingInv /\ OwningInv

LEMMA ArtifactsLen == Len(ARTIFACTS) = 3
  BY DEF ARTIFACTS

LEMMA ListedTables ==
  ASSUME NEW r \in Runs
  PROVE  Builds[r] \subseteq Tables /\ Listed[r] \subseteq Tables
  BY DagsAssumption

LEMMA TypeInvInit == Init => TypeInv
<1> SUFFICES ASSUME Init PROVE TypeInv
  OBVIOUS
<1>1. NoResults \in [Tables -> Results]
  BY DEF NoResults, Results
<1>2. MetaInv
  BY DEF Init, NoMetadata, MetaInv, MetadataOK, Owners, Finds, Ended
<1>3. StageInv
  BY DagsAssumption DEF Init, StageInv, Stages
<1>4. BuildInv
  BY <1>1 DEF Init, BuildInv, DbtInv, ShardsInv
<1>5. FinalizeInv
  BY <1>1, ArtifactsLen DEF Init, FinalizeInv, Unpublished
<1>6. WaitingInv
  BY DEF Init, WaitingInv
<1>7. OwningInv
  BY DEF Init, OwningInv
<1> QED
  BY <1>2, <1>3, <1>4, <1>5, <1>6, <1>7 DEF TypeInv

LEMMA TypeInvType ==
  ASSUME TypeInv PROVE TypeOK
<1>1. \A r \in DbtRuns : {shards[r], merged[r]} \subseteq [Tables -> Results]
  BY DEF TypeInv, BuildInv, ShardsInv, FinalizeInv
<1> QED
  BY <1>1 DEF TypeOK, TypeInv, MetaInv, StageInv, BuildInv, DbtInv, ShardsInv, FinalizeInv,
      WaitingInv, OwningInv
----------------------------------------------------------------------------
(***************************************************************************)
(* One lemma per part, with a step for every action that writes it.        *)
(***************************************************************************)

\* An ingestion ends with tables it found, which were built.
LEMMA MetaStep ==
  ASSUME TypeInv, [Next]_vars
  PROVE  MetaInv'
<1>1. ASSUME NEW r \in DbtRuns, NEW t \in Builds[r], DbtPasses(r, t)
      PROVE  MetaInv'
  BY <1>1, ListedTables DEF DbtPasses, Uploads, Runs, TypeInv, MetaInv, MetadataOK, metadata
<1>2. ASSUME NEW r \in SqlmeshRuns, SqlmeshRun(r)
      PROVE  MetaInv'
  BY <1>2, ListedTables DEF SqlmeshRun, Runs, TypeInv, MetaInv, MetadataOK, metadata
<1>3. ASSUME NEW r \in Runs, PatchesOwner(r)
      PROVE  MetaInv'
  BY <1>3 DEF PatchesOwner, OwningInv, Owners, TypeInv, MetaInv, MetadataOK,
      metadata
<1>4. ASSUME NEW i \in Ingestions, Starts(i)
      PROVE  MetaInv'
  BY <1>4 DEF Starts, Begins, Finds, Ended, TypeInv, MetaInv, MetadataOK, metadata
<1>5. ASSUME NEW i \in Ingestions, IngestionEnds(i)
      PROVE  MetaInv'
  BY <1>5 DEF IngestionEnds, Succeeds, Falters, Finds, Ended, TypeInv, MetaInv,
      MetadataOK, metadata
<1>6. ASSUME NEW t \in Contested, Owns(t)
      PROVE  MetaInv'
  BY <1>6 DEF Owns, Claims, Disowns, Owners, TypeInv, MetaInv, MetadataOK, metadata
<1>7. CASE UNCHANGED <<built, metadata>>
  BY <1>7 DEF TypeInv, MetaInv, MetadataOK, metadata
<1> QED
  BY <1>1, <1>2, <1>3, <1>4, <1>5, <1>6, <1>7
  DEF Next, DbtStep, RunStep, OwnStep, vars, metadata, dags, artifacts,
      waiting, owning, DbtFails, Uploads, Clears, GetsOwner, Unowned,
      DbtEnds, Merges, Publishes, DeletesShards, FinalizeEnds, FinalizeDies,
      Triggers, MissesTable, OwnDies, OwnEnds, TriggersDbt, SeesSuccess,
      StopsPolling, SeesFailure, TimesOut

\* Every task leads to a task, and attempts that fail are counted up to the bound.
LEMMA StageStep ==
  ASSUME TypeInv, [Next]_vars
  PROVE  StageInv'
<1>1. ASSUME NEW r \in DbtRuns, DbtEnds(r)
      PROVE  StageInv'
  BY <1>1, DagsAssumption DEF DbtEnds, TypeInv, StageInv, Stages
<1>2. ASSUME NEW r \in SqlmeshRuns, SqlmeshRun(r)
      PROVE  StageInv'
  BY <1>2, DagsAssumption DEF SqlmeshRun, TypeInv, StageInv, Stages
<1>3. ASSUME NEW r \in DbtRuns, FinalizeEnds(r)
      PROVE  StageInv'
  BY <1>3, DagsAssumption DEF FinalizeEnds, TypeInv, StageInv, Stages
<1>4. ASSUME NEW r \in DbtRuns, FinalizeDies(r)
      PROVE  StageInv'
  BY <1>4, DagsAssumption DEF FinalizeDies, TypeInv, StageInv, Stages
<1>5. ASSUME NEW r \in Runs, SeesSuccess(r)
      PROVE  StageInv'
  BY <1>5, DagsAssumption DEF SeesSuccess, StopsPolling, TypeInv, StageInv, Stages
<1>6. ASSUME NEW r \in Runs, TimesOut(r)
      PROVE  StageInv'
  BY <1>6, DagsAssumption DEF TimesOut, StopsPolling, TypeInv, StageInv, Stages
<1>7. ASSUME NEW r \in Runs, OwnDies(r)
      PROVE  StageInv'
  BY <1>7, DagsAssumption DEF OwnDies, TypeInv, StageInv, Stages
<1>8. ASSUME NEW r \in Runs, OwnEnds(r)
      PROVE  StageInv'
  BY <1>8, DagsAssumption DEF OwnEnds, TypeInv, StageInv, Stages
<1>9. ASSUME NEW r \in Runs, TriggersDbt(r)
      PROVE  StageInv'
  BY <1>9, DagsAssumption DEF TriggersDbt, TypeInv, StageInv, Stages
<1>10. ASSUME NEW i \in Ingestions, IngestionEnds(i)
      PROVE  StageInv'
  BY <1>10, DagsAssumption DEF IngestionEnds, Succeeds, Falters, dags, TypeInv, StageInv, Stages
<1>11. CASE UNCHANGED <<stage, failures>>
  BY <1>11 DEF TypeInv, StageInv, Stages
<1> QED
  BY <1>1, <1>2, <1>3, <1>4, <1>5, <1>6, <1>7, <1>8, <1>9, <1>10, <1>11
  DEF Next, DbtStep, RunStep, OwnStep, vars, metadata, dags, artifacts,
      waiting, owning, DbtPasses, Uploads, DbtFails, Clears, GetsOwner,
      Unowned, Starts, Begins, Owns, Claims, Disowns, Merges, Publishes,
      DeletesShards, Triggers, MissesTable, PatchesOwner, SeesFailure,
      StopsPolling

\* The state of one model's task changes.
LEMMA DbtSet ==
  ASSUME TypeInv, NEW r \in DbtRuns, NEW t \in Builds[r],
         NEW state \in {"new", "again", "passed", "failed"},
         dbt' = [dbt EXCEPT ![r][t] = state]
  PROVE  DbtInv'
<1>1. dbt = [q \in DbtRuns |-> dbt[q]] /\ \A q \in DbtRuns : dbt[q] \in [Builds[q] -> {"new", "again", "passed", "failed"}]
  BY DEF TypeInv, BuildInv, DbtInv
<1>2. dbt' = [q \in DbtRuns |-> IF q = r THEN [dbt[q] EXCEPT ![t] = state] ELSE dbt[q]]
  BY <1>1
<1>3. [dbt[r] EXCEPT ![t] = state] \in [Builds[r] -> {"new", "again", "passed", "failed"}]
  BY <1>1
<1>4. dbt' = [q \in DbtRuns |-> dbt'[q]]
  BY <1>2
<1>5. ASSUME NEW q \in DbtRuns
      PROVE  dbt'[q] \in [Builds[q] -> {"new", "again", "passed", "failed"}]
  BY <1>1, <1>2, <1>3
<1> QED
  BY <1>4, <1>5 DEF DbtInv

\* A pod uploads its shard, or does not.
LEMMA UploadsType ==
  ASSUME TypeInv, NEW r \in DbtRuns, NEW t \in Builds[r], NEW result \in Results,
         Uploads(r, t, result)
  PROVE  ShardsInv'
<1>1. t \in Tables
  BY ListedTables DEF Runs
<1>2. [shards[r] EXCEPT ![t] = result] \in [Tables -> Results]
  BY <1>1 DEF TypeInv, BuildInv, ShardsInv
<1>3. shards' \in [DbtRuns -> [Tables -> Results]]
  BY <1>2 DEF Uploads, TypeInv, BuildInv, ShardsInv
<1>4. PICK less \in SUBSET Builds[r] : unsent' = [unsent EXCEPT ![r] = less]
  BY DEF Uploads, TypeInv, BuildInv, ShardsInv
<1>5. Builds[r] \subseteq Tables
  BY ListedTables DEF Runs
<1>6. unsent' \in [DbtRuns -> SUBSET Tables] /\ \A q \in DbtRuns : unsent'[q] \subseteq Builds[q]
  BY <1>4, <1>5 DEF TypeInv, BuildInv, ShardsInv
<1> QED
  BY <1>3, <1>6 DEF ShardsInv

\* What is left of shards are shards.
LEMMA OnlyType ==
  ASSUME NEW of \in [Tables -> Results], NEW left
  PROVE  Only(of, left) \in [Tables -> Results]
  BY DEF Only, Results

\* A model's task, its shard and the history of its upload.
LEMMA BuildStep ==
  ASSUME TypeInv, [Next]_vars
  PROVE  BuildInv'
<1>1. ASSUME NEW r \in DbtRuns, NEW t \in Builds[r], DbtPasses(r, t)
      PROVE  BuildInv'
  BY <1>1, DbtSet, UploadsType DEF DbtPasses, Results, BuildInv
<1>2. ASSUME NEW r \in DbtRuns, NEW t \in Builds[r], DbtFails(r, t)
      PROVE  BuildInv'
  <2>1. DbtInv'
    BY <1>2, DbtSet DEF DbtFails
  <2>2. ShardsInv'
    BY <1>2, UploadsType DEF DbtFails, Results, TypeInv, BuildInv, ShardsInv
  <2> QED
    BY <2>1, <2>2 DEF BuildInv
<1>3. ASSUME NEW r \in DbtRuns, NEW t \in Builds[r], Clears(r, t)
      PROVE  BuildInv'
  BY <1>3, DbtSet DEF Clears, ShardsInv, TypeInv, BuildInv
<1>4. ASSUME NEW r \in DbtRuns, DeletesShards(r)
      PROVE  BuildInv'
  BY <1>4, OnlyType DEF DeletesShards, TypeInv, BuildInv, DbtInv, ShardsInv
<1>5. CASE UNCHANGED <<dbt, shards, unsent>>
  BY <1>5 DEF TypeInv, BuildInv, DbtInv, ShardsInv
<1> QED
  BY <1>1, <1>2, <1>3, <1>4, <1>5
  DEF Next, DbtStep, RunStep, OwnStep, vars, metadata, dags, artifacts,
      waiting, owning, GetsOwner, Unowned, SqlmeshRun, Starts, Begins,
      IngestionEnds, Succeeds, Falters, Owns, Claims, Disowns, DbtEnds,
      Merges, Publishes, FinalizeEnds, FinalizeDies, Triggers, MissesTable,
      OwnDies, PatchesOwner, OwnEnds, TriggersDbt, SeesSuccess,
      StopsPolling, SeesFailure, TimesOut

\* No run leaves finalize_dbt_artifacts with an artifact still to upload.
LEMMA FinalizeStep ==
  ASSUME TypeInv, [Next]_vars
  PROVE  FinalizeInv'
<1>1. ASSUME NEW r \in DbtRuns, DbtEnds(r)
      PROVE  FinalizeInv'
  BY <1>1 DEF DbtEnds, StageInv, Runs, artifacts, TypeInv, FinalizeInv
<1>2. ASSUME NEW r \in SqlmeshRuns, SqlmeshRun(r)
      PROVE  FinalizeInv'
  BY <1>2, DagsAssumption DEF SqlmeshRun, StageInv, Runs, artifacts, TypeInv, FinalizeInv
<1>3. ASSUME NEW r \in DbtRuns, Merges(r)
      PROVE  FinalizeInv'
  BY <1>3, ArtifactsLen DEF Merges, BuildInv, ShardsInv, artifacts, TypeInv, FinalizeInv
<1>4. ASSUME NEW r \in DbtRuns, Publishes(r)
      PROVE  FinalizeInv'
  BY <1>4, ArtifactsLen DEF Publishes, NoResults, Results, artifacts, TypeInv, FinalizeInv
<1>5. ASSUME NEW r \in DbtRuns, DeletesShards(r)
      PROVE  FinalizeInv'
  BY <1>5, ArtifactsLen DEF DeletesShards, artifacts, TypeInv, FinalizeInv
<1>6. ASSUME NEW r \in DbtRuns, FinalizeEnds(r)
      PROVE  FinalizeInv'
  BY <1>6, ArtifactsLen DEF FinalizeEnds, NoResults, Results, StageInv, Runs, artifacts, TypeInv,
      FinalizeInv
<1>7. ASSUME NEW r \in DbtRuns, FinalizeDies(r)
      PROVE  FinalizeInv'
  BY <1>7, ArtifactsLen DEF FinalizeDies, NoResults, Results, artifacts, TypeInv, FinalizeInv
<1>8. ASSUME NEW r \in Runs, SeesSuccess(r)
      PROVE  FinalizeInv'
  BY <1>8 DEF SeesSuccess, StopsPolling, StageInv, WaitingInv, Runs, artifacts,
      TypeInv, FinalizeInv
<1>9. ASSUME NEW r \in Runs, OwnEnds(r)
      PROVE  FinalizeInv'
  BY <1>9 DEF OwnEnds, StageInv, artifacts, TypeInv, FinalizeInv
<1>10. ASSUME NEW r \in Runs, TriggersDbt(r)
      PROVE  FinalizeInv'
  BY <1>10 DEF TriggersDbt, StageInv, artifacts, TypeInv, FinalizeInv
<1>11. CASE UNCHANGED <<next, merged, published, cut, stage>>
  BY <1>11 DEF artifacts, TypeInv, FinalizeInv
<1> QED
  BY <1>1, <1>2, <1>3, <1>4, <1>5, <1>6, <1>7, <1>8, <1>9, <1>10, <1>11
  DEF Next, DbtStep, RunStep, OwnStep, vars, metadata, dags, artifacts,
      waiting, owning, DbtPasses, Uploads, DbtFails, Clears, GetsOwner,
      Unowned, Starts, Begins, IngestionEnds, Succeeds, Falters, Owns,
      Claims, Disowns, Triggers, MissesTable, OwnDies, PatchesOwner,
      SeesFailure, StopsPolling, TimesOut

\* Only a run in its ingest task polls.
LEMMA WaitingStep ==
  ASSUME TypeInv, [Next]_vars
  PROVE  WaitingInv'
<1>1. ASSUME NEW r \in DbtRuns, DbtEnds(r)
      PROVE  WaitingInv'
  BY <1>1 DEF DbtEnds, StageInv, Runs, waiting, TypeInv, WaitingInv
<1>2. ASSUME NEW r \in SqlmeshRuns, SqlmeshRun(r)
      PROVE  WaitingInv'
  BY <1>2 DEF SqlmeshRun, StageInv, Runs, waiting, TypeInv, WaitingInv
<1>3. ASSUME NEW r \in DbtRuns, FinalizeEnds(r)
      PROVE  WaitingInv'
  BY <1>3, ArtifactsLen DEF FinalizeEnds, StageInv, FinalizeInv, Runs, waiting, TypeInv,
      WaitingInv
<1>4. ASSUME NEW r \in Runs, Triggers(r)
      PROVE  WaitingInv'
  BY <1>4 DEF Triggers, StageInv, waiting, TypeInv, WaitingInv
<1>5. ASSUME NEW i \in Ingestions, Starts(i)
      PROVE  WaitingInv'
  BY <1>5 DEF Starts, Begins, StageInv, waiting, TypeInv, WaitingInv
<1>6. ASSUME NEW r \in Runs, SeesSuccess(r)
      PROVE  WaitingInv'
  BY <1>6 DEF SeesSuccess, StopsPolling, StageInv, waiting, TypeInv, WaitingInv
<1>7. ASSUME NEW r \in Runs, SeesFailure(r)
      PROVE  WaitingInv'
  BY <1>7 DEF SeesFailure, StopsPolling, StageInv, waiting, TypeInv, WaitingInv
<1>8. ASSUME NEW r \in Runs, TimesOut(r)
      PROVE  WaitingInv'
  BY <1>8 DEF TimesOut, StopsPolling, StageInv, waiting, TypeInv, WaitingInv
<1>9. ASSUME NEW r \in Runs, OwnEnds(r)
      PROVE  WaitingInv'
  BY <1>9 DEF OwnEnds, StageInv, waiting, TypeInv, WaitingInv
<1>10. ASSUME NEW r \in Runs, TriggersDbt(r)
      PROVE  WaitingInv'
  BY <1>10 DEF TriggersDbt, StageInv, waiting, TypeInv, WaitingInv
<1>11. CASE UNCHANGED <<triggered, polling, latest, stage>>
  BY <1>11 DEF waiting, TypeInv, WaitingInv
<1> QED
  BY <1>1, <1>2, <1>3, <1>4, <1>5, <1>6, <1>7, <1>8, <1>9, <1>10, <1>11
  DEF Next, DbtStep, RunStep, OwnStep, vars, metadata, dags, artifacts,
      waiting, owning, DbtPasses, Uploads, DbtFails, Clears, GetsOwner,
      Unowned, IngestionEnds, Succeeds, Falters, Owns, Claims, Disowns,
      Merges, Publishes, DeletesShards, FinalizeDies, MissesTable, OwnDies,
      PatchesOwner

\* A mart in hand is one this attempt has not been through.
LEMMA OwningStep ==
  ASSUME TypeInv, [Next]_vars
  PROVE  OwningInv'
<1>1. ASSUME NEW r \in Runs, SeesSuccess(r)
      PROVE  OwningInv'
  BY <1>1, ListedTables DEF SeesSuccess, StopsPolling, TypeInv, OwningInv
<1>2. ASSUME NEW r \in Runs, NEW t \in Listed[r], GetsOwner(r, t)
      PROVE  OwningInv'
  BY <1>2, ListedTables DEF GetsOwner, Unowned, RestIfOwned, TypeInv, OwningInv
<1>3. ASSUME NEW r \in Runs, PatchesOwner(r)
      PROVE  OwningInv'
  BY <1>3, ListedTables DEF PatchesOwner, TypeInv, OwningInv
<1>4. ASSUME NEW r \in Runs, MissesTable(r)
      PROVE  OwningInv'
  BY <1>4, ListedTables DEF MissesTable, TypeInv, OwningInv
<1>5. ASSUME NEW r \in Runs, OwnDies(r)
      PROVE  OwningInv'
  BY <1>5, ListedTables DEF OwnDies, TypeInv, OwningInv
<1>6. CASE UNCHANGED <<todo, reading>>
  BY <1>6 DEF TypeInv, OwningInv
<1> QED
  BY <1>1, <1>2, <1>3, <1>4, <1>5, <1>6
  DEF Next, DbtStep, RunStep, OwnStep, vars, metadata, dags, artifacts,
      waiting, owning, DbtPasses, Uploads, DbtFails, Clears, SqlmeshRun,
      Starts, Begins, IngestionEnds, Succeeds, Falters, Owns, Claims,
      Disowns, DbtEnds, Merges, Publishes, DeletesShards, FinalizeEnds,
      FinalizeDies, Triggers, OwnEnds, TriggersDbt, SeesFailure,
      StopsPolling, TimesOut

LEMMA TypeInvAlways == Spec => []TypeInv
<1>1. TypeInv /\ [Next]_vars => TypeInv'
  BY MetaStep, StageStep, BuildStep, FinalizeStep, WaitingStep, OwningStep DEF TypeInv
<1> QED
  BY <1>1, TypeInvInit, PTL DEF Spec

\* Type correctness: the tasks follow each other in the order of the DAG, an
\* attempt of finalize_dbt_artifacts, the trigger's poll and set_om_owners
\* belong to their own task, and OpenMetadata knows only tables that were built.
THEOREM DagTypes == Spec => []TypeOK
  BY TypeInvAlways, TypeInvType, PTL
----------------------------------------------------------------------------
(***************************************************************************)
(* What finalize_dbt_artifacts publishes.                                  *)
(***************************************************************************)

\* Every model's result is in results, or was not uploaded, or has gone with the
\* shards that an attempt deleted before it died.
Complete(r, results) ==
    \A t \in Builds[r] \ unsent[r] :
        results[t] = "pass" \/ (r \in cut /\ results[t] = "none")

\* A run that is past its dbt tasks has passed all of them.
PassedInv ==
    \A r \in DbtRuns : stage[r] \notin {"idle", "build"} => \A t \in Builds[r] : dbt[r][t] = "passed"

\* finalize has begun to delete shards, in this attempt or before.
Deleted(r) ==
    stage[r] \notin {"idle", "build"} /\ (r \in cut \/ next[r] = 5 \/ stage[r] # "finalize")

\* Until finalize deletes them, the shards have the result of every task that
\* passed, and never another one.
Keeps(r, t) ==
    dbt[r][t] = "passed" => shards[r][t] = "pass" \/ (Deleted(r) /\ shards[r][t] = "none")

KeptInv == \A r \in DbtRuns : \A t \in Builds[r] \ unsent[r] : Keeps(r, t)

MergedInv ==
    \A r \in DbtRuns : next[r] # 0 => Complete(r, merged[r])

\* The third artifact is run_results.json.
PublishedInv ==
    \A r \in DbtRuns : published[3].run = {r} =>
        stage[r] \notin {"idle", "build"} /\ Complete(r, published[3].results)

ArtifactsInv == PassedInv /\ KeptInv /\ MergedInv /\ PublishedInv

LEMMA ArtifactsInit == Init => ArtifactsInv
<1> SUFFICES ASSUME Init PROVE ArtifactsInv
  OBVIOUS
<1>1. published[3].run = {}
  BY ArtifactsLen DEF Init, Unpublished
<1>2. PublishedInv
  BY <1>1 DEF PublishedInv
<1>3. PassedInv /\ KeptInv /\ MergedInv
  BY DEF Init, PassedInv, KeptInv, Keeps, MergedInv, Runs
<1> QED
  BY <1>2, <1>3 DEF ArtifactsInv

LEMMA ArtifactsType ==
  ASSUME ArtifactsInv PROVE PublishedComplete
  BY ArtifactsLen DEF ArtifactsInv, PublishedInv, Complete, PublishedComplete, ARTIFACTS

Over(r) == stage'[r] \notin {"idle", "build"} /\ dbt'[r] = dbt[r] /\ unsent'[r] = unsent[r]

\* A run past its dbt tasks never goes back to them, and they do nothing any
\* more: its results stay as they are until its shards are deleted.
LEMMA Past ==
  ASSUME TypeInv, PassedInv, [Next]_vars, NEW r \in DbtRuns, stage[r] \notin {"idle", "build"}
  PROVE  Over(r)
<1> USE DEF Over
<1>1. ASSUME NEW q \in DbtRuns, NEW t \in Builds[q], DbtPasses(q, t)
      PROVE  Over(r)
  <2>1. q # r
    BY <1>1 DEF DbtPasses, PassedInv
  <2> QED
    BY <1>1, <2>1 DEF DbtPasses, Uploads, TypeInv, BuildInv, DbtInv, ShardsInv
<1>2. ASSUME NEW q \in DbtRuns, NEW t \in Builds[q], DbtFails(q, t)
      PROVE  Over(r)
  <2>1. q # r
    BY <1>2 DEF DbtFails, PassedInv
  <2> QED
    BY <1>2, <2>1 DEF DbtFails, Uploads, TypeInv, BuildInv, DbtInv, ShardsInv
<1>3. ASSUME NEW q \in DbtRuns, NEW t \in Builds[q], Clears(q, t)
      PROVE  Over(r)
  <2>1. q # r
    BY <1>3 DEF Clears, PassedInv
  <2> QED
    BY <1>3, <2>1 DEF Clears, TypeInv, BuildInv, DbtInv, ShardsInv
<1>4. ASSUME NEW q \in DbtRuns, DbtEnds(q)
      PROVE  Over(r)
  BY <1>4 DEF DbtEnds, artifacts, TypeInv, StageInv, Runs
<1>5. ASSUME NEW q \in SqlmeshRuns, SqlmeshRun(q)
      PROVE  Over(r)
  BY <1>5 DEF SqlmeshRun, artifacts, TypeInv, StageInv, Runs
<1>6. ASSUME NEW q \in DbtRuns, FinalizeEnds(q)
      PROVE  Over(r)
  BY <1>6 DEF FinalizeEnds, artifacts, TypeInv, StageInv, Runs
<1>7. ASSUME NEW q \in Runs, SeesSuccess(q)
      PROVE  Over(r)
  BY <1>7 DEF SeesSuccess, StopsPolling, artifacts, TypeInv, StageInv, Runs
<1>8. ASSUME NEW q \in Runs, OwnEnds(q)
      PROVE  Over(r)
  BY <1>8 DEF OwnEnds, artifacts, TypeInv, StageInv, Runs
<1>9. ASSUME NEW q \in Runs, TriggersDbt(q)
      PROVE  Over(r)
  BY <1>9 DEF TriggersDbt, artifacts, TypeInv, StageInv, Runs
<1>10. CASE UNCHANGED <<stage, dbt, unsent>>
  BY <1>10
<1> QED
  BY <1>1, <1>2, <1>3, <1>4, <1>5, <1>6, <1>7, <1>8, <1>9, <1>10
  DEF Next, DbtStep, RunStep, OwnStep, vars, metadata, dags, artifacts,
      waiting, owning, GetsOwner, Unowned, Starts, Begins, IngestionEnds,
      Succeeds, Falters, Owns, Claims, Disowns, Merges, Publishes,
      DeletesShards, FinalizeDies, Triggers, MissesTable, OwnDies,
      PatchesOwner, SeesFailure, StopsPolling, TimesOut

LEMMA PassedStep ==
  ASSUME TypeInv, PassedInv, [Next]_vars
  PROVE  PassedInv'
<1>1. ASSUME NEW r \in DbtRuns, NEW t \in Builds[r], DbtPasses(r, t)
      PROVE  PassedInv'
  BY <1>1, Past DEF DbtPasses, Uploads, PassedInv, Over
<1>2. ASSUME NEW r \in DbtRuns, NEW t \in Builds[r], DbtFails(r, t)
      PROVE  PassedInv'
  BY <1>2, Past DEF DbtFails, Uploads, PassedInv, Over
<1>3. ASSUME NEW r \in DbtRuns, NEW t \in Builds[r], Clears(r, t)
      PROVE  PassedInv'
  BY <1>3, Past DEF Clears, PassedInv, Over
<1>4. ASSUME NEW r \in DbtRuns, DbtEnds(r)
      PROVE  PassedInv'
  BY <1>4, Past DEF DbtEnds, artifacts, PassedInv, TypeInv, StageInv, Runs
<1>5. ASSUME NEW r \in SqlmeshRuns, SqlmeshRun(r)
      PROVE  PassedInv'
  BY <1>5, DagsAssumption DEF SqlmeshRun, artifacts, PassedInv, TypeInv, StageInv, Runs
<1>6. ASSUME NEW r \in DbtRuns, FinalizeEnds(r)
      PROVE  PassedInv'
  BY <1>6, ArtifactsLen DEF FinalizeEnds, PassedInv, TypeInv, StageInv, FinalizeInv, Runs
<1>7. ASSUME NEW r \in Runs, SeesSuccess(r)
      PROVE  PassedInv'
  BY <1>7 DEF SeesSuccess, StopsPolling, artifacts, PassedInv, TypeInv, StageInv, WaitingInv, Runs
<1>8. ASSUME NEW r \in Runs, OwnEnds(r)
      PROVE  PassedInv'
  BY <1>8 DEF OwnEnds, artifacts, PassedInv, TypeInv, StageInv, Runs
<1>9. ASSUME NEW r \in Runs, TriggersDbt(r)
      PROVE  PassedInv'
  BY <1>9 DEF TriggersDbt, artifacts, PassedInv, TypeInv, StageInv, Runs
<1>10. CASE UNCHANGED <<dbt, stage>>
  BY <1>10 DEF PassedInv
<1> QED
  BY <1>1, <1>2, <1>3, <1>4, <1>5, <1>6, <1>7, <1>8, <1>9, <1>10
  DEF Next, DbtStep, RunStep, OwnStep, vars, metadata, dags, artifacts,
      waiting, owning, GetsOwner, Unowned, Starts, Begins, IngestionEnds,
      Succeeds, Falters, Owns, Claims, Disowns, Merges, Publishes,
      DeletesShards, FinalizeDies, Triggers, MissesTable, OwnDies,
      PatchesOwner, SeesFailure, StopsPolling, TimesOut

\* What finalize has begun to delete does not come back.
LEMMA DeletedStays ==
  ASSUME TypeInv, PassedInv, [Next]_vars, NEW r \in DbtRuns, Deleted(r)
  PROVE  Deleted(r)'
<1> USE DEF Deleted, Over
<1>0. stage[r] \notin {"idle", "build"} /\ Over(r)
  BY Past
<1>1. ASSUME NEW q \in DbtRuns, DbtEnds(q)
      PROVE  Deleted(r)'
  BY <1>0, <1>1 DEF DbtEnds, artifacts, TypeInv, StageInv, Runs
<1>2. ASSUME NEW q \in SqlmeshRuns, SqlmeshRun(q)
      PROVE  Deleted(r)'
  BY <1>0, <1>2, DagsAssumption DEF SqlmeshRun, artifacts, TypeInv, StageInv, Runs
<1>3. ASSUME NEW q \in DbtRuns, Merges(q)
      PROVE  Deleted(r)'
  BY <1>0, <1>3 DEF Merges, TypeInv, FinalizeInv
<1>4. ASSUME NEW q \in DbtRuns, Publishes(q)
      PROVE  Deleted(r)'
  BY <1>0, <1>4, ArtifactsLen DEF Publishes, TypeInv, FinalizeInv
<1>5. ASSUME NEW q \in DbtRuns, DeletesShards(q)
      PROVE  Deleted(r)'
  BY <1>0, <1>5, ArtifactsLen DEF DeletesShards, TypeInv, FinalizeInv
<1>6. ASSUME NEW q \in DbtRuns, FinalizeEnds(q)
      PROVE  Deleted(r)'
  BY <1>0, <1>6, ArtifactsLen DEF FinalizeEnds, TypeInv, StageInv, FinalizeInv, Runs
<1>7. ASSUME NEW q \in DbtRuns, FinalizeDies(q)
      PROVE  Deleted(r)'
  BY <1>0, <1>7, ArtifactsLen DEF FinalizeDies, TypeInv, FinalizeInv
<1>8. ASSUME NEW q \in Runs, SeesSuccess(q)
      PROVE  Deleted(r)'
  BY <1>0, <1>8 DEF SeesSuccess, StopsPolling, artifacts, TypeInv, StageInv, Runs
<1>9. ASSUME NEW q \in Runs, OwnEnds(q)
      PROVE  Deleted(r)'
  BY <1>0, <1>9 DEF OwnEnds, artifacts, TypeInv, StageInv, Runs
<1>10. ASSUME NEW q \in Runs, TriggersDbt(q)
      PROVE  Deleted(r)'
  BY <1>0, <1>10 DEF TriggersDbt, artifacts, TypeInv, StageInv, Runs
<1>11. CASE UNCHANGED <<stage, cut, next>>
  BY <1>0, <1>11
<1> QED
  BY <1>1, <1>2, <1>3, <1>4, <1>5, <1>6, <1>7, <1>8, <1>9, <1>10, <1>11
  DEF Next, DbtStep, RunStep, OwnStep, vars, metadata, dags, artifacts,
      waiting, owning, DbtPasses, DbtFails, Uploads, Clears, GetsOwner, Unowned,
      Starts, Begins, IngestionEnds, Succeeds, Falters, Owns, Claims, Disowns,
      Triggers, MissesTable, OwnDies, PatchesOwner, SeesFailure, StopsPolling,
      TimesOut

LEMMA KeptStep ==
  ASSUME TypeInv, PassedInv, KeptInv, [Next]_vars
  PROVE  KeptInv'
<1> USE DEF Keeps
<1>0. ASSUME NEW q \in DbtRuns, UNCHANGED <<dbt[q], shards[q], unsent[q]>>,
             NEW u \in Builds[q] \ unsent'[q]
      PROVE  Keeps(q, u)'
  BY <1>0, DeletedStays DEF KeptInv
<1>1. ASSUME NEW r \in DbtRuns, NEW t \in Builds[r], DbtPasses(r, t)
      PROVE  KeptInv'
  <2>1. \A q \in DbtRuns \ {r} : dbt'[q] = dbt[q] /\ shards'[q] = shards[q] /\ unsent'[q] = unsent[q]
    BY <1>1 DEF DbtPasses, Uploads, TypeInv, BuildInv, DbtInv, ShardsInv
  <2>2. ASSUME NEW u \in Builds[r] \ unsent'[r]
        PROVE  Keeps(r, u)'
    <3>1. CASE u = t
      BY <1>1, <3>1, ListedTables DEF DbtPasses, Uploads, TypeInv, BuildInv, DbtInv, ShardsInv, Runs
    <3>2. CASE u # t
      <4>1. u \notin unsent[r] /\ dbt'[r][u] = dbt[r][u] /\ shards'[r][u] = shards[r][u]
        BY <1>1, <3>2, ListedTables DEF DbtPasses, Uploads, TypeInv, BuildInv, DbtInv, ShardsInv, Runs
      <4> QED
        BY <4>1, DeletedStays DEF KeptInv
    <3> QED
      BY <3>1, <3>2
  <2> QED
    BY <1>0, <2>1, <2>2 DEF KeptInv
<1>2. ASSUME NEW r \in DbtRuns, NEW t \in Builds[r], DbtFails(r, t)
      PROVE  KeptInv'
  <2>1. \A q \in DbtRuns \ {r} : dbt'[q] = dbt[q] /\ shards'[q] = shards[q] /\ unsent'[q] = unsent[q]
    BY <1>2 DEF DbtFails, Uploads, TypeInv, BuildInv, DbtInv, ShardsInv
  <2>2. ASSUME NEW u \in Builds[r] \ unsent'[r]
        PROVE  Keeps(r, u)'
    <3>1. CASE u = t
      BY <1>2, <3>1, ListedTables DEF DbtFails, Uploads, TypeInv, BuildInv, DbtInv, ShardsInv, Runs
    <3>2. CASE u # t
      <4>1. u \notin unsent[r] /\ dbt'[r][u] = dbt[r][u] /\ shards'[r][u] = shards[r][u]
        BY <1>2, <3>2, ListedTables DEF DbtFails, Uploads, TypeInv, BuildInv, DbtInv, ShardsInv, Runs
      <4> QED
        BY <4>1, DeletedStays DEF KeptInv
    <3> QED
      BY <3>1, <3>2
  <2> QED
    BY <1>0, <2>1, <2>2 DEF KeptInv
<1>3. ASSUME NEW r \in DbtRuns, NEW t \in Builds[r], Clears(r, t)
      PROVE  KeptInv'
  <2>1. \A q \in DbtRuns \ {r} : dbt'[q] = dbt[q] /\ shards'[q] = shards[q] /\ unsent'[q] = unsent[q]
    BY <1>3 DEF Clears, TypeInv, BuildInv, DbtInv, ShardsInv
  <2>2. ASSUME NEW u \in Builds[r] \ unsent'[r]
        PROVE  Keeps(r, u)'
    BY <1>3, <2>2, DeletedStays DEF Clears, KeptInv, TypeInv, BuildInv, DbtInv, ShardsInv
  <2> QED
    BY <1>0, <2>1, <2>2 DEF KeptInv
<1>4. ASSUME NEW r \in DbtRuns, DeletesShards(r)
      PROVE  KeptInv'
  <2>1. PICK left \in SUBSET Tables : shards' = [shards EXCEPT ![r] = Only(@, left)]
    BY <1>4 DEF DeletesShards
  <2>2. /\ stage[r] = "finalize" /\ next'[r] = 5 /\ UNCHANGED <<dbt, unsent, stage>>
        /\ shards'[r] = Only(shards[r], left)
        /\ \A q \in DbtRuns \ {r} : shards'[q] = shards[q]
    BY <1>4, <2>1, ArtifactsLen DEF DeletesShards, TypeInv, BuildInv, ShardsInv, FinalizeInv
  <2>3. ASSUME NEW u \in Builds[r] \ unsent'[r]
        PROVE  Keeps(r, u)'
    <3>1. Deleted(r)'
      BY <2>2 DEF Deleted
    <3>2. shards'[r][u] \in {shards[r][u], "none"}
      BY <2>2, ListedTables DEF Only, Runs
    <3> QED
      BY <2>2, <3>1, <3>2 DEF KeptInv
  <2> QED
    BY <1>0, <2>2, <2>3 DEF KeptInv
<1>5. CASE UNCHANGED <<dbt, shards, unsent>>
  BY <1>0, <1>5 DEF KeptInv
<1> QED
  BY <1>1, <1>2, <1>3, <1>4, <1>5
  DEF Next, DbtStep, RunStep, OwnStep, vars, metadata, dags, artifacts,
      waiting, owning, GetsOwner, Unowned, Starts, Begins, IngestionEnds,
      Succeeds, Falters, Owns, Claims, Disowns, Merges, Publishes,
      DbtEnds, SqlmeshRun, SeesSuccess, OwnEnds, TriggersDbt, FinalizeEnds,
      FinalizeDies, Triggers, MissesTable, OwnDies, PatchesOwner,
      SeesFailure, StopsPolling, TimesOut

LEMMA CutGrows ==
  ASSUME [Next]_vars PROVE cut \subseteq cut'
<1>1. ASSUME NEW r \in DbtRuns, FinalizeDies(r)
      PROVE  cut \subseteq cut'
  BY <1>1 DEF FinalizeDies
<1>2. CASE UNCHANGED cut
  BY <1>2
<1> QED
  BY <1>1, <1>2
  DEF Next, DbtStep, RunStep, OwnStep, vars, metadata, dags, artifacts,
      waiting, owning, DbtPasses, Uploads, DbtFails, Clears, GetsOwner,
      Unowned, SqlmeshRun, Starts, Begins, IngestionEnds, Succeeds, Falters,
      Owns, Claims, Disowns, DbtEnds, Merges, Publishes, DeletesShards,
      FinalizeEnds, Triggers, MissesTable, OwnDies, PatchesOwner, OwnEnds,
      TriggersDbt, SeesSuccess, StopsPolling, SeesFailure, TimesOut

\* Results that were complete for a run past its dbt tasks stay so.
LEMMA CompleteStays ==
  ASSUME TypeInv, PassedInv, [Next]_vars, NEW r \in DbtRuns,
         stage[r] \notin {"idle", "build"}, NEW results, Complete(r, results)
  PROVE  \A t \in Builds[r] \ unsent'[r] :
             results[t] = "pass" \/ (r \in cut' /\ results[t] = "none")
  BY Past, CutGrows DEF Complete, Over

LEMMA MergedStep ==
  ASSUME TypeInv, ArtifactsInv, [Next]_vars
  PROVE  MergedInv'
<1> USE DEF ArtifactsInv
<1>0. ASSUME NEW q \in DbtRuns, next[q] # 0, next'[q] # 0, merged'[q] = merged[q]
      PROVE  Complete(q, merged[q])'
  <2>1. stage[q] \notin {"idle", "build"} /\ Complete(q, merged[q])
    BY <1>0 DEF TypeInv, FinalizeInv, MergedInv
  <2>2. \A t \in Builds[q] \ unsent'[q] :
            merged[q][t] = "pass" \/ (q \in cut' /\ merged[q][t] = "none")
    BY <2>1, CompleteStays
  <2> QED
    BY <1>0, <2>2 DEF Complete
<1>4. ASSUME NEW r \in DbtRuns, Merges(r)
      PROVE  MergedInv'
  <2>1. stage[r] = "finalize" /\ next[r] = 0
        /\ merged' = [merged EXCEPT ![r] = shards[r]] /\ next' = [next EXCEPT ![r] = 1]
        /\ UNCHANGED <<unsent, cut>>
    BY <1>4 DEF Merges
  <2>2. Complete(r, shards[r])
    BY <2>1 DEF KeptInv, Keeps, PassedInv, Complete, Deleted
  <2>3. /\ merged'[r] = shards[r]
        /\ \A q \in DbtRuns \ {r} : merged'[q] = merged[q] /\ next'[q] = next[q]
    BY <2>1 DEF TypeInv, FinalizeInv
  <2>4. Complete(r, merged[r])'
    BY <2>1, <2>2, <2>3 DEF Complete
  <2> QED
    BY <1>0, <2>3, <2>4 DEF MergedInv
<1>5. ASSUME NEW r \in DbtRuns, Publishes(r)
      PROVE  MergedInv'
  BY <1>0, <1>5, ArtifactsLen DEF Publishes, MergedInv, TypeInv, FinalizeInv
<1>6. ASSUME NEW r \in DbtRuns, DeletesShards(r)
      PROVE  MergedInv'
  BY <1>0, <1>6, ArtifactsLen DEF DeletesShards, MergedInv, TypeInv, FinalizeInv
<1>7. ASSUME NEW r \in DbtRuns, FinalizeEnds(r)
      PROVE  MergedInv'
  BY <1>0, <1>7, ArtifactsLen DEF FinalizeEnds, MergedInv, TypeInv, FinalizeInv
<1>8. ASSUME NEW r \in DbtRuns, FinalizeDies(r)
      PROVE  MergedInv'
  BY <1>0, <1>8, ArtifactsLen DEF FinalizeDies, MergedInv, TypeInv, FinalizeInv
<1>9. CASE UNCHANGED <<next, merged>>
  BY <1>0, <1>9 DEF MergedInv
<1> QED
  BY <1>4, <1>5, <1>6, <1>7, <1>8, <1>9
  DEF Next, DbtStep, RunStep, OwnStep, vars, metadata, dags, artifacts,
      waiting, owning, DbtPasses, Uploads, DbtFails, Clears, GetsOwner,
      Unowned, SqlmeshRun, Starts, Begins, IngestionEnds, Succeeds, Falters,
      Owns, Claims, Disowns, DbtEnds, Triggers, MissesTable, OwnDies,
      PatchesOwner, OwnEnds, TriggersDbt, SeesSuccess, StopsPolling,
      SeesFailure, TimesOut

LEMMA PublishedStep ==
  ASSUME TypeInv, ArtifactsInv, [Next]_vars
  PROVE  PublishedInv'
<1> USE DEF ArtifactsInv
<1>0. ASSUME NEW q \in DbtRuns, published[3].run = {q}
      PROVE  /\ stage'[q] \notin {"idle", "build"}
             /\ \A t \in Builds[q] \ unsent'[q] : published[3].results[t] = "pass"
                   \/ (q \in cut' /\ published[3].results[t] = "none")
  BY <1>0, CompleteStays, Past DEF PublishedInv, Over
<1>1. ASSUME NEW r \in DbtRuns, Publishes(r)
      PROVE  PublishedInv'
  <2>1. stage[r] = "finalize" /\ Complete(r, merged[r]) /\ UNCHANGED <<stage, unsent, cut>>
    BY <1>1, ArtifactsLen DEF Publishes, TypeInv, FinalizeInv, MergedInv
  <2>2. CASE next[r] = 3
    <3>1. published'[3] = [run |-> {r}, results |-> merged[r]]
      BY <1>1, <2>2, ArtifactsLen DEF Publishes, TypeInv, FinalizeInv, ARTIFACTS
    <3>2. \A q \in DbtRuns : published'[3].run = {q} => q = r
      BY <3>1
    <3>3. published'[3].results = merged[r]
      BY <3>1
    <3> QED
      BY <2>1, <3>2, <3>3 DEF PublishedInv, Complete
  <2>3. CASE next[r] # 3
    <3>1. published'[3] = published[3]
      BY <1>1, <2>3, ArtifactsLen DEF Publishes, TypeInv, FinalizeInv
    <3> QED
      BY <1>0, <3>1 DEF PublishedInv, Complete
  <2> QED
    BY <2>2, <2>3
<1>2. CASE published' = published
  BY <1>0, <1>2 DEF PublishedInv, Complete
<1> QED
  BY <1>1, <1>2
  DEF Next, DbtStep, RunStep, OwnStep, vars, metadata, dags, artifacts,
      waiting, owning, DbtPasses, Uploads, DbtFails, Clears, GetsOwner,
      Unowned, SqlmeshRun, Starts, Begins, IngestionEnds, Succeeds, Falters,
      Owns, Claims, Disowns, DbtEnds, Merges, DeletesShards, FinalizeEnds,
      FinalizeDies, Triggers, MissesTable, OwnDies, PatchesOwner, OwnEnds,
      TriggersDbt, SeesSuccess, StopsPolling, SeesFailure, TimesOut

\* Whatever attempts of dbt tasks and of finalize_dbt_artifacts fail or die, and
\* however runs interleave: what is published as the run_results.json of a run
\* has every result of the run that was uploaded, except those whose shards a
\* dying attempt had begun to delete; and of those it says nothing wrong.
THEOREM ResultsAreComplete == Spec => []PublishedComplete
<1>1. TypeInv /\ ArtifactsInv /\ [Next]_vars => ArtifactsInv'
  BY PassedStep, KeptStep, MergedStep, PublishedStep DEF ArtifactsInv
<1>2. Spec => []ArtifactsInv
  BY <1>1, ArtifactsInit, TypeInvAlways, PTL DEF Spec
<1> QED
  BY <1>2, ArtifactsType, PTL

----------------------------------------------------------------------------
(***************************************************************************)
(* What set_om_owners does.                                                *)
(***************************************************************************)

\* A mart an attempt has been through has an owner, or somebody took it away.
Owned(t) == owner[t] # "nobody" \/ wish[t] = "unowned"

OwnedInv ==
    \A r \in Runs : stage[r] \in {"own", "ingest_dbt", "done"} =>
        /\ \A t \in Listed[r] \ todo[r] : Owned(t)
        /\ stage[r] # "own" => todo[r] = {}

\* While a mart without an owner is in hand nobody's wish for one is on record.
WishInv ==
    /\ ManualOwnersSurvive
    /\ \A r \in Runs : reading[r] # NoTable => wish[reading[r]] # "owned"

LEMMA OwnedStep ==
  ASSUME TypeInv, OwnedInv, [Next]_vars
  PROVE  OwnedInv'
<1>1. ASSUME NEW r \in DbtRuns, DbtEnds(r)
      PROVE  OwnedInv'
  BY <1>1 DEF DbtEnds, owning, metadata, OwnedInv, Owned, TypeInv, StageInv, OwningInv, Runs
<1>2. ASSUME NEW r \in SqlmeshRuns, SqlmeshRun(r)
      PROVE  OwnedInv'
  BY <1>2 DEF SqlmeshRun, owning, metadata, OwnedInv, Owned, TypeInv, StageInv, OwningInv, Runs
<1>3. ASSUME NEW r \in DbtRuns, FinalizeEnds(r)
      PROVE  OwnedInv'
  BY <1>3 DEF FinalizeEnds, owning, metadata, OwnedInv, Owned, TypeInv, StageInv, OwningInv, Runs
<1>4. ASSUME NEW r \in Runs, SeesSuccess(r)
      PROVE  OwnedInv'
  BY <1>4 DEF SeesSuccess, StopsPolling, owning, metadata, OwnedInv, Owned, TypeInv, StageInv, OwningInv, Runs
<1>5. ASSUME NEW r \in Runs, OwnEnds(r)
      PROVE  OwnedInv'
  BY <1>5 DEF OwnEnds, owning, metadata, OwnedInv, Owned, TypeInv, StageInv, OwningInv, Runs
<1>6. ASSUME NEW r \in Runs, TriggersDbt(r)
      PROVE  OwnedInv'
  BY <1>6 DEF TriggersDbt, owning, metadata, OwnedInv, Owned, TypeInv, StageInv, OwningInv, Runs
<1>7. ASSUME NEW r \in Runs, PatchesOwner(r)
      PROVE  OwnedInv'
  BY <1>7 DEF PatchesOwner, OwnedInv, Owned, TypeInv, MetaInv, MetadataOK, OwningInv
<1>8. ASSUME NEW r \in Runs, NEW t \in Listed[r], GetsOwner(r, t)
      PROVE  OwnedInv'
  BY <1>8 DEF GetsOwner, Unowned, RestIfOwned, metadata, OwnedInv, Owned, TypeInv, OwningInv
<1>9. ASSUME NEW r \in Runs, MissesTable(r)
      PROVE  OwnedInv'
  BY <1>9 DEF MissesTable, owning, metadata, OwnedInv, Owned, TypeInv, StageInv, OwningInv, Runs
<1>10. ASSUME NEW r \in Runs, OwnDies(r)
      PROVE  OwnedInv'
  BY <1>10 DEF OwnDies, owning, metadata, OwnedInv, Owned, TypeInv, StageInv, OwningInv, Runs
<1>11. ASSUME NEW t \in Contested, Owns(t)
      PROVE  OwnedInv'
  <2>1. \A u \in Tables : Owned(u) => Owned(u)'
    BY <1>11 DEF Owns, Claims, Disowns, Owned, TypeInv, MetaInv, MetadataOK
  <2>2. UNCHANGED <<stage, todo>>
    BY <1>11 DEF Owns, dags, owning
  <2> QED
    BY <2>1, <2>2, ListedTables DEF OwnedInv
<1>12. CASE UNCHANGED <<stage, todo, owner, wish>>
  BY <1>12 DEF OwnedInv, Owned
<1> QED
  BY <1>1, <1>2, <1>3, <1>4, <1>5, <1>6, <1>7, <1>8, <1>9, <1>10, <1>11, <1>12
  DEF Next, DbtStep, RunStep, OwnStep, vars, metadata, dags, artifacts,
      waiting, owning, DbtPasses, Uploads, DbtFails, Clears, Starts, Begins,
      IngestionEnds, Succeeds, Falters, Merges, Publishes, DeletesShards,
      FinalizeDies, Triggers, SeesFailure, StopsPolling, TimesOut

LEMMA WishStep ==
  ASSUME TypeInv, WishInv, [Next]_vars
  PROVE  WishInv'
<1>1. ASSUME NEW r \in Runs, PatchesOwner(r)
      PROVE  WishInv'
  BY <1>1, ListedTables DEF PatchesOwner, WishInv, ManualOwnersSurvive, TypeInv, MetaInv, MetadataOK, OwningInv
<1>2. ASSUME NEW r \in Runs, NEW t \in Listed[r], GetsOwner(r, t)
      PROVE  WishInv'
  BY <1>2, ListedTables DEF GetsOwner, Unowned, metadata, WishInv, ManualOwnersSurvive, TypeInv, OwningInv
<1>3. ASSUME NEW r \in Runs, OwnDies(r)
      PROVE  WishInv'
  BY <1>3 DEF OwnDies, metadata, WishInv, ManualOwnersSurvive, TypeInv, OwningInv
<1>4. ASSUME NEW t \in Contested, Owns(t)
      PROVE  WishInv'
  <2>1. t \in Tables /\ UNCHANGED <<reading, catalog>>
    BY <1>4 DEF Owns, Claims, Disowns, dags, owning, TypeInv, MetaInv, MetadataOK
  <2>2. CASE Claims(t, \E r \in Runs : reading[r] = t)
    BY <2>1, <2>2 DEF Claims, WishInv, ManualOwnersSurvive, TypeInv, MetaInv, MetadataOK, OwningInv
  <2>3. CASE Disowns(t)
    BY <2>1, <2>3 DEF Disowns, WishInv, ManualOwnersSurvive, TypeInv, MetaInv, MetadataOK, OwningInv
  <2> QED
    BY <1>4, <2>2, <2>3 DEF Owns
<1>5. CASE UNCHANGED <<reading, owner, wish>>
  BY <1>5 DEF WishInv, ManualOwnersSurvive
<1> QED
  BY <1>1, <1>2, <1>3, <1>4, <1>5
  DEF Next, DbtStep, RunStep, OwnStep, vars, metadata, dags, artifacts,
      waiting, owning, DbtPasses, Uploads, DbtFails, Clears, SqlmeshRun,
      Starts, Begins, IngestionEnds, Succeeds, Falters, DbtEnds, Merges,
      Publishes, DeletesShards, FinalizeEnds, FinalizeDies, Triggers,
      MissesTable, OwnEnds, TriggersDbt, SeesSuccess, StopsPolling,
      SeesFailure, TimesOut

\* When set_om_owners succeeds every mart on OM_OWNED_TABLES has an owner
\* unless somebody took it away, whatever the attempts before did, whoever else
\* owned tables meanwhile.
THEOREM MartsAreOwned == Spec => []OwnedWhenDone
<1>1. Init => OwnedInv
  BY DEF Init, OwnedInv
<1>2. TypeInv /\ OwnedInv /\ [Next]_vars => OwnedInv'
  BY OwnedStep
<1>3. OwnedInv => OwnedWhenDone
  BY DEF OwnedInv, Owned, OwnedWhenDone
<1> QED
  BY <1>1, <1>2, <1>3, TypeInvAlways, PTL DEF Spec

\* No rerun of set_om_owners, by however many runs, replaces an owner that a
\* person set, unless it was set between the GET and the PATCH.
THEOREM OwnersSurvive == Spec => []ManualOwnersSurvive
<1>1. Init => WishInv
  BY DEF Init, NoMetadata, WishInv, ManualOwnersSurvive
<1>2. TypeInv /\ WishInv /\ [Next]_vars => WishInv'
  BY WishStep
<1> QED
  BY <1>1, <1>2, TypeInvAlways, PTL DEF Spec, WishInv
=============================================================================
