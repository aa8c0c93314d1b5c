---------------------------- MODULE MCMasterData ----------------------------
(***************************************************************************)
(* A site in a Kreis, whose records may arrive late; no weather stations,  *)
(* so that a run has a topic to skip between two it loads.                 *)
(***************************************************************************)
EXTENDS MasterData, TLC

CONSTANTS s1, k1

OneSite == [s \in {s1} |-> k1]
SitesLate == [dim_site |-> 1, dim_weather_station |-> 0, dim_landkreis |-> 0]
=============================================================================
