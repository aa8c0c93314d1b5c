--------------------------- MODULE MCSolarSilver ---------------------------
(***************************************************************************)
(* Small instances of SolarSilver.  One minute, one weather station and    *)
(* two sites, of which the second may be missing from the site table.      *)
(***************************************************************************)
EXTENDS SolarSilver

CONSTANTS a, b

Body(id, marks) == [id |-> id, ts |-> 1, marks |-> marks]

\* A dark minute, a reading with output of site a, and a reading of site b.
MCBodies ==
    [weather  |-> {Body(a, {"dark"})},
     inverter |-> {Body(a, {"output"}), Body(b, {})},
     clouds   |-> {}]

MCDimSets == [weather |-> {{a}}, inverter |-> {{}, {a}, {a, b}}, clouds |-> {}]

\* Clouds have no dimension table and one rule.
MCCloudBodies ==
    [weather  |-> {Body(a, {})},
     inverter |-> {Body(a, {"negative_power", "above_capacity"})},
     clouds   |-> {Body(a, {}), Body(a, {"missing_required"})}]

\* Readings of one site only.
MCSiteBodies ==
    [weather  |-> {},
     inverter |-> {Body(a, {})},
     clouds   |-> {}]

MCOneDim == [weather |-> {{a}}, inverter |-> {{a}}, clouds |-> {}]

MCOffsets == [weather |-> 0, inverter |-> 2, clouds |-> 0]
MCCloudOffsets == [weather |-> 0, inverter |-> 0, clouds |-> 2]
MCRebuildOffsets == [weather |-> 0, inverter |-> 1, clouds |-> 0]
=============================================================================
