---------------------------- MODULE MCBatchRuns ----------------------------
(***************************************************************************)
(* Small instances of BatchRuns: the silver and the gold DAG.              *)
(***************************************************************************)
EXTENDS BatchRuns

CONSTANTS silver, gold, n1, n2, n3

\* Silver may have three applications at a time, gold one.
MCNames == [s \in Scripts |-> IF s = silver THEN {n1, n2, n3} ELSE {n1}]

\* One call of silver fails; an application gold lost would keep its only name.
MCErrors == [s \in Scripts |-> IF s = silver THEN 1 ELSE 0]
=============================================================================
