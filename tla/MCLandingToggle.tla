-------------------------- MODULE MCLandingToggle --------------------------
(***************************************************************************)
(* Small instances of LandingToggle: two tabs, one file.                   *)
(***************************************************************************)
EXTENDS LandingToggle

CONSTANTS t1, t2, plain, edited, garbled, stopped

File(text, flag) == [flags |-> [k \in Keys |-> flag], text |-> text, tidy |-> FALSE]

MCInitialFile == File(plain, "false")

\* The first tab reloads and resubmits, the second one interferes once.
MCTwice == [t \in Tabs |-> IF t = t1 THEN 2 ELSE 1]

\* The flag set by hand, the flag dropped, a file that is no YAML, a deletion,
\* and a push that restores the first version.
MCPushes ==
    {File(plain, "true"), File(plain, "bad"),
     File(garbled, "false"), NoFile, MCInitialFile}
=============================================================================
