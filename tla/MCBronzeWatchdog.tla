-------------------------- MODULE MCBronzeWatchdog --------------------------
(***************************************************************************)
(* A small instance of BronzeWatchdog.                                     *)
(***************************************************************************)
EXTENDS BronzeWatchdog

CONSTANTS bronze

MCNames == [s \in Scripts |-> Ids]
MCErrors == [s \in Scripts |-> 3]
=============================================================================
