------------------------------ MODULE TpchDags ------------------------------
(***************************************************************************)
(* The DAGs dbt_tpch_demo and sqlmesh_tpch_demo once the services are up.  *)
(*                                                                         *)
(* A run builds its tables, triggers a metadata ingestion of OpenMetadata, *)
(* waits for it, and gives the marts without an owner to a team.  The dbt  *)
(* DAG builds every model in a task of its own, whose pod uploads a shard  *)
(* of run_results.json; before the ingestion it merges the shards, uploads *)
(* three artifacts under names all runs share, and deletes the shards.     *)
(* A task that fails is tried again from its start: a dbt task once, the   *)
(* others 1000 times, which is for ever here.                              *)
(***************************************************************************)
EXTENDS OpenMetadata, Sequences

CONSTANTS
    DbtRuns,      \* runs of dbt_tpch_demo
    SqlmeshRuns,  \* runs of sqlmesh_tpch_demo
    SideBySide,   \* the sets of runs that go on at the same time
    Builds,       \* run -> the tables it builds
    Listed,       \* run -> OM_OWNED_TABLES
    NoTable,
    NoIngestion,
    MaxFailures   \* bound: attempts that time out or whose pod dies, and
                  \* ingestions that do not succeed

Runs == DbtRuns \union SqlmeshRuns

ASSUME DagsAssumption ==
    /\ DbtRuns \intersect SqlmeshRuns = {}
    /\ SideBySide \subseteq SUBSET Runs
    /\ Builds \in [Runs -> SUBSET Tables]
    /\ \A r \in Runs : Listed[r] \subseteq Builds[r]
    /\ NoTable \notin Tables
    /\ NoIngestion \notin Ingestions
    /\ MaxFailures \in Nat

VARIABLES
    stage,      \* run -> the task it is at
    failures,   \* of those so far
    dbt,        \* run -> model -> its dbt task
    shards,     \* run -> model -> the result in its shard, "none" without one
    next,       \* run -> the artifact finalize uploads next, 0 before it has merged
    merged,     \* run -> the results finalize has merged
    published,  \* artifact -> the run it is of and, for run_results, what it says
    triggered,  \* runs whose ingestion has not started yet
    polling,    \* run -> its ingestion is triggered
    latest,     \* run -> the last ingestion that has started since
    todo,       \* run -> the marts this attempt has not been through
    reading     \* run -> a mart it has found without an owner

\* History, for the properties.
VARIABLES
    unsent,     \* run -> models that were built and whose result was not uploaded
    cut         \* runs of which an attempt died that had begun to delete shards

artifacts == <<dbt, shards, next, merged, published, unsent, cut>>
waiting == <<triggered, polling, latest>>
owning == <<todo, reading>>
dags == <<stage, artifacts, waiting, owning>>
vars == <<built, metadata, failures, dags>>

Stages == {"idle", "build", "finalize", "ingest", "own", "ingest_dbt", "done"}
Results == {"none", "pass", "fail"}
ARTIFACTS == <<"manifest.json", "catalog.json", "run_results.json">>
NoResults == [t \in Tables |-> "none"]
Unpublished == [run |-> {}, results |-> NoResults]

Init ==
    /\ NoMetadata
    /\ \E runs \in SideBySide : stage = [r \in Runs |-> IF r \in runs THEN "build" ELSE "idle"]
    /\ failures = 0
    /\ dbt = [r \in DbtRuns |-> [t \in Builds[r] |-> "new"]]
    /\ shards = [r \in DbtRuns |-> NoResults]
    /\ next = [r \in DbtRuns |-> 0]
    /\ merged = [r \in DbtRuns |-> NoResults]
    /\ published = [n \in 1..Len(ARTIFACTS) |-> Unpublished]
    /\ unsent = [r \in DbtRuns |-> {}]
    /\ cut = {}
    /\ triggered = {}
    /\ polling = [r \in Runs |-> FALSE]
    /\ latest = [r \in Runs |-> NoIngestion]
    /\ todo = [r \in Runs |-> {}]
    /\ reading = [r \in Runs |-> NoTable]

----------------------------------------------------------------------------
(***************************************************************************)
(* Building                                                                *)
(***************************************************************************)

\* upload_run_results_shard; the task's state does not depend on it.  The pod
\* may have no results to upload, and the upload may fail.
Uploads(r, t, result) ==
    \/ /\ shards' = [shards EXCEPT ![r][t] = result]
       /\ unsent' = [unsent EXCEPT ![r] = @ \ {t}]
    \/ /\ shards' = shards
       /\ unsent' = [unsent EXCEPT ![r] = IF result = "pass" THEN @ \union {t} ELSE @]

DbtPasses(r, t) ==
    /\ stage[r] = "build"
    /\ dbt[r][t] \in {"new", "again"}
    /\ dbt' = [dbt EXCEPT ![r][t] = "passed"]
    /\ built' = built \union {t}
    /\ Uploads(r, t, "pass")
    /\ UNCHANGED <<metadata, stage, failures, next, merged, published, cut, waiting, owning>>

\* The callback on failure is for the last attempt only.
DbtFails(r, t) ==
    /\ stage[r] = "build"
    /\ \/ /\ dbt[r][t] = "new"
          /\ dbt' = [dbt EXCEPT ![r][t] = "again"]
          /\ UNCHANGED <<shards, unsent>>
       \/ /\ dbt[r][t] = "again"
          /\ dbt' = [dbt EXCEPT ![r][t] = "failed"]
          /\ Uploads(r, t, "fail")
    /\ UNCHANGED <<built, metadata, stage, failures, next, merged, published, cut, waiting, owning>>

\* Somebody clears a task that has failed, and the DAG run goes on.
Clears(r, t) ==
    /\ dbt[r][t] = "failed"
    /\ dbt' = [dbt EXCEPT ![r][t] = "new"]
    /\ UNCHANGED <<built, metadata, stage, failures, shards, next, merged, published, unsent, cut,
                   waiting, owning>>

DbtEnds(r) ==
    /\ stage[r] = "build"
    /\ \A t \in Builds[r] : dbt[r][t] = "passed"
    /\ stage' = [stage EXCEPT ![r] = "finalize"]
    /\ UNCHANGED <<built, metadata, failures, artifacts, waiting, owning>>

\* run_sqlmesh builds everything in one task, which may be cleared as well.
SqlmeshRun(r) ==
    /\ stage[r] = "build"
    /\ built' = built \union Builds[r]
    /\ stage' = [stage EXCEPT ![r] = "ingest"]
    /\ UNCHANGED <<metadata, failures, artifacts, waiting, owning>>

----------------------------------------------------------------------------
(***************************************************************************)
(* finalize_dbt_artifacts                                                  *)
(***************************************************************************)

NoShards(r) == shards[r] = NoResults
Only(of, left) == [t \in Tables |-> IF t \in left THEN of[t] ELSE "none"]

\* A merge that cleans up behind itself, before anything is published.
MergesAndDeletes(r) ==
    /\ stage[r] = "finalize"
    /\ next[r] = 0
    /\ ~NoShards(r)
    /\ merged' = [merged EXCEPT ![r] = shards[r]]
    /\ \E left \in SUBSET Tables : shards' = [shards EXCEPT ![r] = Only(@, left)]
    /\ next' = [next EXCEPT ![r] = 1]
    /\ UNCHANGED <<built, metadata, stage, failures, dbt, published, unsent, cut, waiting, owning>>

\* Without shards the attempt raises, and so does every retry.
Merges(r) ==
    /\ stage[r] = "finalize"
    /\ next[r] = 0
    /\ ~NoShards(r)
    /\ merged' = [merged EXCEPT ![r] = shards[r]]
    /\ next' = [next EXCEPT ![r] = 1]
    /\ UNCHANGED <<built, metadata, stage, failures, dbt, shards, published, unsent, cut, waiting,
                   owning>>

Publishes(r) ==
    /\ next[r] \in 1..Len(ARTIFACTS)
    /\ published' = [published EXCEPT ![next[r]] =
           [run |-> {r},
            results |-> IF ARTIFACTS[next[r]] = "run_results.json" THEN merged[r] ELSE NoResults]]
    /\ next' = [next EXCEPT ![r] = @ + 1]
    /\ UNCHANGED <<built, metadata, stage, failures, dbt, shards, merged, unsent, cut, waiting, owning>>

\* One call for all keys, which says nothing of those it could not delete and
\* may be cut short: some shards are left, or all of them.
DeletesShards(r) ==
    /\ next[r] = Len(ARTIFACTS) + 1
    /\ \E left \in SUBSET Tables : shards' = [shards EXCEPT ![r] = Only(@, left)]
    /\ next' = [next EXCEPT ![r] = @ + 1]
    /\ UNCHANGED <<built, metadata, stage, failures, dbt, merged, published, unsent, cut, waiting,
                   owning>>

FinalizeEnds(r) ==
    /\ next[r] = Len(ARTIFACTS) + 2
    /\ next' = [next EXCEPT ![r] = 0]
    /\ merged' = [merged EXCEPT ![r] = NoResults]
    /\ stage' = [stage EXCEPT ![r] = "ingest"]
    /\ UNCHANGED <<built, metadata, failures, dbt, shards, published, unsent, cut, waiting, owning>>

FinalizeDies(r) ==
    /\ next[r] # 0
    /\ failures < MaxFailures
    /\ failures' = failures + 1
    /\ next' = [next EXCEPT ![r] = 0]
    /\ merged' = [merged EXCEPT ![r] = NoResults]
    /\ cut' = IF next[r] = Len(ARTIFACTS) + 2 THEN cut \union {r} ELSE cut
    /\ UNCHANGED <<built, metadata, stage, dbt, shards, published, unsent, waiting, owning>>

DbtStep(r) ==
    \/ DbtEnds(r) \/ Merges(r) \/ Publishes(r) \/ DeletesShards(r) \/ FinalizeEnds(r)

----------------------------------------------------------------------------
(***************************************************************************)
(* trigger_om_metadata_ingestion                                           *)
(***************************************************************************)

\* From now on the statuses of the ingestions that start are the ones asked for.
Triggers(r) ==
    /\ stage[r] = "ingest"
    /\ ~polling[r]
    /\ triggered' = triggered \union {r}
    /\ polling' = [polling EXCEPT ![r] = TRUE]
    /\ latest' = [latest EXCEPT ![r] = NoIngestion]
    /\ UNCHANGED <<built, metadata, stage, failures, artifacts, owning>>

\* An ingestion starts that a run has triggered, or the one of every six hours;
\* those do not overlap, and come much later than the poll after the last one.
Starts(i) ==
    /\ \A r \in Runs : latest[r] # i
    /\ \/ \E r \in triggered : triggered' = triggered \ {r}
       \/ /\ \A j \in Ingestions : ingestion[j].state \in Ended
          /\ \A r \in Runs : latest[r] = NoIngestion
          /\ UNCHANGED triggered
    /\ Begins(i)
    /\ latest' = [r \in Runs |-> IF polling[r] THEN i ELSE latest[r]]
    /\ UNCHANGED <<stage, failures, artifacts, polling, owning>>

Status(r) == IF latest[r] = NoIngestion THEN "none" ELSE ingestion[latest[r]].state

StopsPolling(r) ==
    /\ polling' = [polling EXCEPT ![r] = FALSE]
    /\ latest' = [latest EXCEPT ![r] = NoIngestion]
    /\ UNCHANGED triggered

SeesSuccess(r) ==
    /\ polling[r]
    /\ Status(r) \in {"success", "partialSuccess"}
    /\ StopsPolling(r)
    /\ stage' = [stage EXCEPT ![r] = "own"]
    /\ todo' = [todo EXCEPT ![r] = Listed[r]]
    /\ UNCHANGED <<built, metadata, failures, artifacts, reading>>

\* The next attempt triggers another ingestion.
SeesFailure(r) ==
    /\ polling[r]
    /\ Status(r) = "failed"
    /\ StopsPolling(r)
    /\ UNCHANGED <<built, metadata, stage, failures, artifacts, owning>>

TimesOut(r) ==
    /\ polling[r]
    /\ failures < MaxFailures
    /\ failures' = failures + 1
    /\ StopsPolling(r)
    /\ UNCHANGED <<built, metadata, stage, artifacts, owning>>

----------------------------------------------------------------------------
(***************************************************************************)
(* set_om_owners and trigger_om_dbt_ingestion                              *)
(***************************************************************************)

AnyOwner(t) == TRUE
Unowned(t) == owner[t] = "nobody"

RestIfRaises(r, t) == Listed[r]
RestIfReturns(r, t) == {}

\* A table that is owned already is left alone, and the loop goes on.
RestIfOwned(r, t) == todo[r] \ {t}

\* GET of the table with its owners.
GetsOwner(r, t) ==
    /\ stage[r] = "own"
    /\ reading[r] = NoTable
    /\ t \in todo[r] \intersect catalog
    /\ \/ /\ Unowned(t)
          /\ reading' = [reading EXCEPT ![r] = t]
          /\ UNCHANGED todo
       \/ /\ ~Unowned(t)
          /\ todo' = [todo EXCEPT ![r] = RestIfOwned(r, t)]
          /\ UNCHANGED reading
    /\ UNCHANGED <<built, metadata, stage, failures, artifacts, waiting>>

\* PATCH with op "add", which also replaces the owners there are.
PatchesOwner(r) ==
    /\ reading[r] # NoTable
    /\ owner' = [owner EXCEPT ![reading[r]] = "team"]
    /\ todo' = [todo EXCEPT ![r] = @ \ {reading[r]}]
    /\ reading' = [reading EXCEPT ![r] = NoTable]
    /\ UNCHANGED <<built, catalog, ingestion, wish, stage, failures, artifacts, waiting>>

\* A table OpenMetadata does not know ends the attempt; the next one starts over.
MissesTable(r) ==
    /\ stage[r] = "own"
    /\ reading[r] = NoTable
    /\ ~(todo[r] \subseteq catalog)
    /\ todo' = [todo EXCEPT ![r] = Listed[r]]
    /\ UNCHANGED <<built, metadata, stage, failures, artifacts, waiting, reading>>

OwnDies(r) ==
    /\ stage[r] = "own"
    /\ failures < MaxFailures
    /\ failures' = failures + 1
    /\ todo' = [todo EXCEPT ![r] = Listed[r]]
    /\ reading' = [reading EXCEPT ![r] = NoTable]
    /\ UNCHANGED <<built, metadata, stage, artifacts, waiting>>

OwnEnds(r) ==
    /\ stage[r] = "own"
    /\ todo[r] = {}
    /\ stage' = [stage EXCEPT ![r] = IF r \in DbtRuns THEN "ingest_dbt" ELSE "done"]
    /\ UNCHANGED <<built, metadata, failures, artifacts, waiting, owning>>

\* It ends well whether or not the ingestion could be triggered.
TriggersDbt(r) ==
    /\ stage[r] = "ingest_dbt"
    /\ stage' = [stage EXCEPT ![r] = "done"]
    /\ UNCHANGED <<built, metadata, failures, artifacts, waiting, owning>>

OwnStep(r) == PatchesOwner(r) \/ OwnEnds(r) \/ TriggersDbt(r)

----------------------------------------------------------------------------
IngestionEnds(i) ==
    \/ /\ Succeeds(i)
       /\ UNCHANGED <<failures, dags>>
    \/ /\ Falters(i)
       /\ failures < MaxFailures
       /\ failures' = failures + 1
       /\ UNCHANGED dags

Owns(t) ==
    /\ Claims(t, \E r \in Runs : reading[r] = t) \/ Disowns(t)
    /\ UNCHANGED <<failures, dags>>

RunStep(r) ==
    \/ Triggers(r) \/ SeesSuccess(r) \/ SeesFailure(r)
    \/ \E t \in Listed[r] : GetsOwner(r, t)
    \/ OwnStep(r)

Next ==
    \/ \E r \in DbtRuns :
        \/ \E t \in Builds[r] : DbtPasses(r, t) \/ DbtFails(r, t) \/ Clears(r, t)
        \/ DbtStep(r)
        \/ FinalizeDies(r)
    \/ \E r \in SqlmeshRuns : SqlmeshRun(r)
    \/ \E r \in Runs :
        \/ RunStep(r)
        \/ TimesOut(r) \/ MissesTable(r) \/ OwnDies(r)
    \/ \E i \in Ingestions : Starts(i) \/ IngestionEnds(i)
    \/ \E t \in Contested : Owns(t)

Spec == Init /\ [][Next]_vars

(***************************************************************************)
(* Airflow goes on with a run, and ingestions start and end.               *)
(***************************************************************************)
FairSpec ==
    /\ Spec
    /\ \A r \in Runs : WF_vars(RunStep(r))
    /\ WF_vars(\E i \in Ingestions : Starts(i))
    /\ \A i \in Ingestions : WF_vars(IngestionEnds(i))

----------------------------------------------------------------------------
(***************************************************************************)
(* Properties                                                              *)
(***************************************************************************)

\* The types, and that a run has a mart in hand only in set_om_owners.
TypeOK ==
    /\ MetadataOK
    /\ stage \in [Runs -> Stages]
    /\ failures \in 0..MaxFailures
    /\ \A r \in DbtRuns :
        /\ dbt[r] \in [Builds[r] -> {"new", "again", "passed", "failed"}]
        /\ {shards[r], merged[r]} \subseteq [Tables -> Results]
        /\ next[r] \in 0..(Len(ARTIFACTS) + 2)
        /\ next[r] # 0 => stage[r] = "finalize"
        /\ unsent[r] \subseteq Builds[r]
    /\ cut \subseteq DbtRuns
    /\ published \in [1..Len(ARTIFACTS) -> [run: SUBSET DbtRuns, results: [Tables -> Results]]]
    /\ triggered \subseteq Runs
    /\ polling \in [Runs -> BOOLEAN]
    /\ latest \in [Runs -> Ingestions \union {NoIngestion}]
    /\ \A r \in Runs :
        /\ todo[r] \subseteq Listed[r]
        /\ reading[r] \in todo[r] \union {NoTable}
        /\ polling[r] => stage[r] = "ingest"

\* Whatever attempts died before they had published, the run_results.json that
\* finalize_dbt_artifacts has published for a run says of every model whose
\* result was uploaded that it passed.  An attempt that dies once it has begun to
\* delete shards makes the next one leave out models (those only: it never says
\* that one failed which passed).
PublishedComplete ==
    \A r \in DbtRuns, n \in 1..Len(ARTIFACTS) :
        (ARTIFACTS[n] = "run_results.json" /\ published[n].run = {r}) =>
            \A t \in Builds[r] \ unsent[r] :
                published[n].results[t] = "pass" \/ (r \in cut /\ published[n].results[t] = "none")

\* Once set_om_owners has succeeded every mart on its list has an owner,
\* unless somebody has taken it away (set_om_owners, OPA rule 1).
OwnedWhenDone ==
    \A r \in Runs : stage[r] \in {"ingest_dbt", "done"} =>
        \A t \in Listed[r] : owner[t] # "nobody" \/ wish[t] = "unowned"

\* An owner set by hand survives every rerun of set_om_owners, unless it was
\* set between the GET and the PATCH of one.
ManualOwnersSurvive ==
    \A t \in Tables : wish[t] = "owned" => owner[t] = "person"

\* A run that has built its tables gets to the end of set_om_owners, although
\* ingestions fail, time out, leave tables out or delete new ones.
MartsOpen ==
    \A r \in Runs : stage[r] = "ingest" ~> stage[r] \in {"ingest_dbt", "done"}
=============================================================================
