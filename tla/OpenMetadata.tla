---------------------------- MODULE OpenMetadata ----------------------------
(***************************************************************************)
(* What the transformation DAGs use of Trino and OpenMetadata: the tables  *)
(* they build, the catalog a metadata ingestion fills, and the owners that *)
(* decide who may SELECT (rego-trino-policies.yaml).                       *)
(***************************************************************************)
EXTENDS FiniteSets, Integers

CONSTANTS
    Tables,      \* tables of data2day.demo and data2day.demo_sqlmesh
    Contested,   \* bound: tables whose owner people change
    Ingestions   \* bound: metadata ingestions at a time, or not yet polled

VARIABLES
    built,       \* tables in Trino
    catalog,     \* tables in OpenMetadata that are not marked as deleted
    owner,       \* table -> who owns it
    ingestion    \* ingestion -> its state and the tables it has found

\* History, for the properties.
VARIABLE
    wish         \* table -> what a person has last done to its owner; "none"
                 \* if a DAG was between reading and setting it just then

Owners == {"nobody", "team", "person"}
Ended == {"success", "partialSuccess", "failed"}
Finds == [state: Ended \union {"running"}, found: SUBSET Tables]

metadata == <<catalog, owner, ingestion, wish>>

NoMetadata ==
    /\ built = {}
    /\ catalog = {}
    /\ owner = [t \in Tables |-> "nobody"]
    /\ ingestion = [i \in Ingestions |-> [state |-> "failed", found |-> {}]]
    /\ wish = [t \in Tables |-> "none"]

\* It lists the tables of Trino.
Begins(i) ==
    /\ ingestion[i].state \in Ended
    /\ ingestion' = [ingestion EXCEPT ![i] = [state |-> "running", found |-> built]]
    /\ UNCHANGED <<built, catalog, owner, wish>>

\* markDeletedTables: what an ingestion that succeeds did not find is gone,
\* also if it was built since.
Succeeds(i) ==
    /\ ingestion[i].state = "running"
    /\ catalog' = ingestion[i].found
    /\ ingestion' = [ingestion EXCEPT ![i] = [state |-> "success", found |-> {}]]
    /\ UNCHANGED <<built, owner, wish>>

\* Any other end leaves some of the tables behind.
Falters(i) ==
    /\ ingestion[i].state = "running"
    /\ \E some \in SUBSET ingestion[i].found : catalog' = catalog \union some
    /\ \E state \in Ended \ {"success"} :
        ingestion' = [ingestion EXCEPT ![i] = [state |-> state, found |-> {}]]
    /\ UNCHANGED <<built, owner, wish>>

\* A person makes itself or somebody else the owner in the user interface.
Claims(t, raced) ==
    /\ t \in catalog
    /\ owner[t] # "person"
    /\ owner' = [owner EXCEPT ![t] = "person"]
    /\ wish' = [wish EXCEPT ![t] = IF raced THEN "none" ELSE "owned"]
    /\ UNCHANGED <<built, catalog, ingestion>>

Disowns(t) ==
    /\ t \in catalog
    /\ owner[t] # "nobody"
    /\ owner' = [owner EXCEPT ![t] = "nobody"]
    /\ wish' = [wish EXCEPT ![t] = "unowned"]
    /\ UNCHANGED <<built, catalog, ingestion>>

MetadataOK ==
    /\ built \subseteq Tables
    /\ catalog \subseteq built
    /\ owner \in [Tables -> Owners]
    /\ ingestion \in [Ingestions -> Finds]
    /\ wish \in [Tables -> {"none", "owned", "unowned"}]
=============================================================================
