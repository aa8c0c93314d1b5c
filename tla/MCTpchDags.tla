----------------------------- MODULE MCTpchDags -----------------------------
(***************************************************************************)
(* Small instances of TpchDags.                                            *)
(***************************************************************************)
EXTENDS TpchDags

CONSTANTS d, wide, m, orders, parts, orders_sqlmesh

\* A dbt run of two marts alone; one of a single mart beside SQLMesh.
MCSideBySide == {{wide}, {d, m}}

MCBuilds == [r \in Runs |->
    CASE r = wide -> {orders, parts}
      [] r = d -> {orders}
      [] r = m -> {orders_sqlmesh}]

\* All of them are on the lists.
MCListed == MCBuilds
=============================================================================
