---------------------------- MODULE MCSolarGold ----------------------------
(***************************************************************************)
(* Small instances of SolarGold.                                           *)
(***************************************************************************)
EXTENDS SolarGold

CONSTANTS a, b

Reading(site, slot, low) == [site |-> site, slot |-> slot, low |-> low]
Fault(slot) == {Reading(a, slot, TRUE), Reading(b, slot, FALSE)}

\* Site a has a fault that b has not, in two slots of the first day and one of
\* the second; single readings end a fault or make a new slot; one is in the dark.
MCBatches ==
    {Fault(1), Fault(2), Fault(4), {Reading(a, 1, FALSE)}, {Reading(a, 2, FALSE)},
     {Reading(b, 5, FALSE)}, {Reading(a, 3, TRUE)}}
=============================================================================
