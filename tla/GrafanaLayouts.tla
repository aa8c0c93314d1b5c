--------------------------- MODULE GrafanaLayouts ---------------------------
(***************************************************************************)
(* Where scripts/grafana-dashboards.py puts the panels it writes.          *)
(*                                                                         *)
(* A panel is a rectangle <<x, y, w, h>> of Grafana's grid of 24 columns.  *)
(* Panels are numbered from 1, as most of the script's are.                *)
(***************************************************************************)
EXTENDS Integers, Sequences

Columns == 24

\* A row title, or anything else that takes the whole width.
Full(y, h) == <<0, y, Columns, h>>

\* n panels of the same size side by side.
Tiles(n, y, h) == [i \in 1..n |-> <<(i - 1) * (Columns \div n), y, Columns \div n, h>>]

\* The common header of the governance dashboards, and the space brand makes.
HeaderPanel == <<Full(0, 3)>>
HeaderOffset == 3

TrinoQueriesPanels == <<Full(0, 26)>>

TrinoDetailPanels == Tiles(6, 0, 4) \o
    <<Full(4, 5), <<0, 9, 9, 16>>, <<9, 9, 15, 16>>, <<0, 25, 12, 12>>, <<12, 25, 12, 12>>>>

NifiAuthorizationPanels ==
    <<Full(0, 8), Full(8, 9), <<0, 17, 12, 11>>, <<12, 17, 12, 11>>, Full(28, 9), <<0, 37, 12, 7>>>>

\* A tile per product, six to a line.
ProductTiles(n) == [i \in 1..n |-> <<((i - 1) % 6) * 4, 4 + ((i - 1) \div 6) * 4, 4, 4>>]

OverviewPanels == HeaderPanel \o <<Full(3, 1)>> \o ProductTiles(10) \o
    <<Full(12, 1)>> \o Tiles(4, 13, 4) \o Tiles(2, 17, 8) \o <<Full(25, 10)>>

\* The lists put on top of the vendored dashboards, and the space made for them.
KafkaLists == <<Full(0, 1), Full(1, 9), Full(10, 7), Full(17, 1)>>
KafkaOffsetShort == 17
KafkaOffset == 18
NifiLists == <<Full(0, 1), Full(1, 8), Full(10, 1)>>
NifiOffset == 11

KafkaTopicPanels == Tiles(8, 0, 4) \o <<Full(4, 1), Full(5, 7)>> \o Tiles(2, 12, 8) \o <<Full(20, 1)>> \o
    Tiles(3, 21, 8) \o <<Full(29, 7), Full(36, 1), Full(37, 2),
    <<0, 39, 4, 5>>, <<4, 39, 10, 5>>, <<14, 39, 5, 5>>, <<19, 39, 5, 5>>>>

KafkaBrokerPanels == Tiles(8, 0, 4) \o <<Full(4, 1), Full(5, 8), Full(13, 1)>> \o Tiles(2, 14, 8) \o
    <<Full(22, 1)>> \o Tiles(3, 23, 8) \o <<Full(31, 1)>> \o Tiles(2, 32, 7) \o <<Full(39, 1)>> \o
    Tiles(4, 40, 7) \o <<Full(47, 1), <<0, 48, 12, 4>>, <<12, 48, 4, 4>>, <<16, 48, 4, 4>>, <<20, 48, 4, 4>>>> \o
    Tiles(2, 52, 7)

NifiGroupPanels == Tiles(8, 0, 4) \o
    <<Full(4, 1), Full(5, 7), Full(12, 1), Full(13, 6), Full(19, 5), Full(24, 1)>> \o
    Tiles(2, 25, 8) \o Tiles(2, 33, 8)

NifiProcessorPanels ==
    <<<<0, 0, 4, 4>>>> \o [i \in 1..6 |-> <<3 * i + 1, 0, 3, 4>>] \o <<<<22, 0, 2, 4>>, Full(4, 1)>> \o
    Tiles(2, 5, 8) \o Tiles(2, 13, 8) \o <<Full(21, 1)>> \o Tiles(2, 22, 5)
=============================================================================
