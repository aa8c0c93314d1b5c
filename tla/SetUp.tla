------------------------------- MODULE SetUp -------------------------------
(***************************************************************************)
(* The Jobs of SetUpJobs and SupersetJob side by side with what they need  *)
(* and what they set off: the tables the Spark jobs create, the pipeline   *)
(* of the service trino, which another Job registers, and the ingestions   *)
(* of OpenMetadata, which also run by their own schedules.                 *)
(***************************************************************************)
EXTENDS SupersetJob

CONSTANT Syncs  \* bound: the Jobs that are run side by side, the attempts of each that
                \* have failed before without effect, and the edits and delays then

ASSUME SyncsAssumption ==
    \A sync \in Syncs :
        /\ sync.jobs \subseteq Jobs
        /\ sync.failed \in [Jobs -> Nat] /\ \A j \in Jobs : sync.failed[j] <= Backoff[j]
        /\ {sync.edits, sync.delays} \subseteq Nat

VARIABLES
    catalog,    \* the tables OpenMetadata knows
    lineage     \* what the ingestions have linked to tables of the catalog:
                \* the DAGs' tables, and the ids of charts

vars == <<jobVars, supersetVars, catalog, lineage>>

\* What earlier versions of the charts have left, on datasets that are gone.
Left ==
    {[id |-> k, name |-> Charts[k], refers |-> {}, ours |-> FALSE, kept |-> FALSE, late |-> FALSE] :
        k \in 1..Len(Charts)}

Init ==
    /\ \E sync \in Syncs :
        /\ at = [j \in Jobs |-> IF j \in sync.jobs THEN 1 ELSE 0]
        /\ retries = sync.failed
        /\ edits = sync.edits
        /\ delays = sync.delays
    /\ there = {}
    /\ \/ objects = {} /\ newest = 0
       \/ objects = Left /\ newest = Len(Charts)
    /\ got = [n \in Sought |-> 0]
    /\ found = NotYet
    /\ pending = {}
    /\ tables = {}
    /\ alone = TRUE
    /\ catalog = {}
    /\ lineage = [airflow |-> {}, superset |-> {}]

Appears(t) ==
    /\ t \notin tables
    /\ tables' = tables \union {t}
    /\ UNCHANGED <<jobVars, objects, newest, got, found, pending, edits, delays, alone, catalog, lineage>>

\* configure-openmetadata.yaml; it goes on if the pipeline is not deployed.
RegistersTrino ==
    /\ Pipeline("trino") \notin there
    /\ \E deployed \in SUBSET {Deployed("trino")} :
        there' = there \union {Pipeline("trino")} \union deployed
    /\ UNCHANGED <<at, retries, supersetVars, catalog, lineage>>

IngestsTrino ==
    /\ Deployed("trino") \in there
    /\ catalog' = tables
    /\ UNCHANGED <<jobVars, supersetVars, lineage>>

IngestsAirflow ==
    /\ Deployed("airflow") \in there
    /\ lineage' = [lineage EXCEPT !.airflow = catalog]
    /\ UNCHANGED <<jobVars, supersetVars, catalog>>

\* The charts of all names that stand on a dataset of a table in ts.
ChartsOn(ts) ==
    {o \in objects : /\ o.name \in Range(Charts)
                     /\ \E d \in objects : d.name \in ts /\ d.id \in o.refers}

IngestsSuperset ==
    /\ Deployed("superset") \in there
    /\ lineage' = [lineage EXCEPT !.superset = {o.id : o \in ChartsOn(catalog)}]
    /\ UNCHANGED <<jobVars, supersetVars, catalog>>

Next ==
    \/ RunsSql /\ UNCHANGED <<supersetVars, catalog, lineage>>
    \/ RunsMetadata /\ UNCHANGED <<supersetVars, catalog, lineage>>
    \/ (RunsSuperset \/ Arrives \/ UserInterface) /\ UNCHANGED <<catalog, lineage>>
    \/ \E t \in Range(Datasets) : Appears(t)
    \/ RegistersTrino
    \/ IngestsTrino
    \/ IngestsAirflow
    \/ IngestsSuperset

Spec == Init /\ [][Next]_vars

\* The Spark jobs run, and deployed ingestions by their schedules.
FairSpec ==
    /\ Spec
    /\ \A t \in Range(Datasets) : WF_vars(Appears(t))
    /\ WF_vars(IngestsTrino)
    /\ WF_vars(IngestsAirflow)
    /\ WF_vars(IngestsSuperset)

----------------------------------------------------------------------------
(***************************************************************************)
(* Properties                                                              *)
(***************************************************************************)

Requests ==
    [do: {Main[n] : n \in 1..Len(Main)}, id: 0..newest, refers: SUBSET (1..newest),
     needs: SUBSET (1..newest), attempt: Nat]

\* The types; ids are those of one object, and no object or request refers to
\* an id that the script did not have yet when it wrote it (None in Python).
TypeOK ==
    /\ \A j \in Jobs : at[j] \in Nat /\ retries[j] \in 0..Backoff[j]
    /\ objects \subseteq [id: 1..newest, name: Sought \union {"renamed"}, refers: SUBSET (1..newest),
                          ours: BOOLEAN, kept: BOOLEAN, late: BOOLEAN]
    /\ \A o, p \in objects : o.id = p.id => o = p
    /\ got \in [Sought -> 0..newest]
    /\ found \in {NotYet} \union 0..newest
    /\ pending \subseteq Requests
    /\ tables \subseteq Range(Datasets)
    /\ catalog \subseteq tables
    /\ lineage.airflow \subseteq tables
    /\ lineage.superset \subseteq 1..newest

\* configure_superset.py makes one object of a name at most, however often it
\* starts over after calls that had an effect or none, and whatever people
\* do meanwhile.  A second one comes only of a request that Superset carries
\* out when its caller has gone, and of people who copy charts.
OnePerName == \A o, p \in objects : o.name = p.name /\ o.name # "renamed" /\ ~o.late /\ ~p.late => o = p

\* The object an attempt goes by is the one the script defines, but for what it
\* never puts back: the database of a dataset, also if that was renamed, and
\* the query somebody has given to a physical one.
Defined(do) ==
    \E o \in Find(do.name) :
        /\ o.id = got[do.name]
        /\ o.ours \/ (do.op = "dataset" /\ o.kept)
        /\ \/ o.refers = Refers(do, got)
           \/ do.op = "dataset" /\ (o.kept \/ \E p \in objects : p.id \in o.refers /\ p.kept)

AsDefined ==
    \A n \in 1..Len(Main) : Main[n].op \in {"database", "grant", "dataset", "chart", "layout"} => Defined(Main[n])

\* When configure_superset.py has ended well, and during the attempt nobody has
\* edited anything and no update of an earlier attempt came in, then Superset
\* is as the script defines it, whatever was half-done, edited, deleted or
\* copied before: the role opens the database, datasets are on it, charts are
\* on their datasets, dashboards and the layered map show the charts.  The
\* exceptions are in Defined.
EditsAreUndone == SupersetDone /\ alone => AsDefined

\* No attempt fails for what the attempts before it have left behind, or what
\* people have done before it: a call is refused only while a table is missing,
\* if somebody interferes, or because a request of an earlier attempt came in
\* since the script has looked.  run.py and configure_openmetadata.py get
\* through as well once the service trino has its pipeline.
NothingInTheWay ==
    /\ at["superset"] \in 1..Len(Main) /\ alone =>
        LET do == Main[at["superset"]]
        IN  Looked(do) /\ Calls(do) =>
                \/ Accepted(Request(do))
                \/ do.op \in {"dataset", "refresh"} /\ do.name \notin tables
                \/ do.op \in Ensures /\ found = 0 /\ \E o \in Find(do.name) : o.late
    /\ \A k \in 1..Len(Statements) : at["sql"] = k /\ Once = {} => Possible(SqlScript[k])
    /\ at["metadata"] \in 1..Len(MetadataScript) /\ {Pipeline("trino"), Deployed("trino")} \subseteq there =>
        Possible(MetadataScript[at["metadata"]])

\* The tables the Spark jobs make, and every chart that stands on one.
LineageComplete ==
    /\ lineage.airflow = Range(Datasets)
    /\ {o.id : o \in ChartsOn(Range(Datasets))} \subseteq lineage.superset

\* When configure_openmetadata.py has ended well, the lineage of all tables and
\* charts comes, whichever of the tables, the charts, which another Job makes
\* meanwhile, and the ingestions it started came first.
LineageFollows == MetadataDone ~> LineageComplete
=============================================================================
