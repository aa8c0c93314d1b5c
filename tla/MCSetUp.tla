------------------------------ MODULE MCSetUp ------------------------------
(***************************************************************************)
(* A small instance of SetUp: a schema and a table; a topic; a physical    *)
(* and a virtual dataset, a chart that is also a layer of the other.       *)
(***************************************************************************)
EXTENDS SetUp

CONSTANTS schema, table, topic, fleet, map, output, layered, board

MCStatements == <<schema, table>>
MCCreates == [s \in {schema, table} |-> s]
MCUses == [s \in {schema, table} |-> IF s = table THEN {schema} ELSE {}]
MCTopics == <<topic>>
MCBackoff == [j \in Jobs |-> IF j = "superset" THEN 2 ELSE 1]
MCDatasets == <<fleet, map>>
MCCharts == <<output, layered>>
MCBoards == <<board>>
MCDatasetOf == [c \in {output, layered} |-> IF c = output THEN fleet ELSE map]
MCShownOn == [c \in {output, layered} |-> IF c = layered THEN {board} ELSE {}]

\* Superset alone, with people, with a delayed request and with both; it and the
\* metadata, in the last attempt of each; and the two other Jobs.
Sync(jobs, failed, e, d) == [jobs |-> jobs, failed |-> failed, edits |-> e, delays |-> d]
NoneFailed == [j \in Jobs |-> 0]
OneFailed == [NoneFailed EXCEPT !["superset"] = 1]
MCSyncs ==
    {Sync({"superset"}, NoneFailed, 0, 1), Sync({"superset"}, OneFailed, 2, 0), Sync({"superset"}, OneFailed, 1, 1),
     Sync({"superset", "metadata"}, MCBackoff, 0, 0),
     Sync({"sql", "metadata"}, NoneFailed, 0, 0)}
=============================================================================
