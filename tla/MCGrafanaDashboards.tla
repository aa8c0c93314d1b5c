------------------------ MODULE MCGrafanaDashboards ------------------------
(***************************************************************************)
(* A small instance of GrafanaDashboards.                                  *)
(***************************************************************************)
EXTENDS GrafanaDashboards

CONSTANTS odd

Panels(shape, places) == [i \in DOMAIN places |-> [at |-> places[i], shape |-> shape]]

Two == <<Full(0, 3), Full(3, 2)>>
Four == Tiles(2, 0, 8) \o <<Full(8, 1), Full(9, 4)>>

\* Airflow with other panels, kafka with more of them, opa with fewer.
MCDesigns ==
    [airflow |-> {Panels(Plain, Four), Panels(odd, Four)},
     opa     |-> {Panels(Plain, Two), Panels(Plain, <<Full(0, 1)>>)},
     logs    |-> {Panels(Plain, Two)},
     kafka   |-> {Panels(Plain, Two), Panels(Plain, Four)},
     nifi    |-> {Panels(Plain, Two)}]
=============================================================================
