---------------------------- MODULE SilverLedger ----------------------------
(***************************************************************************)
(* What the silver step promises, without the order of its commits: a row  *)
(* that landed is settled by being kept or refused, a key is kept at most  *)
(* once, and the cursor passes a row only after the row was settled.       *)
(***************************************************************************)
EXTENDS Integers

CONSTANTS Streams, Partitions, Rows   \* Rows: stream -> the rows it may carry

VARIABLES
    landed,   \* stream -> rows that are there to be settled
    kept,     \* stream -> row -> copies kept
    settled,  \* stream -> rows kept or refused
    cursor    \* stream -> partition -> last offset done

ledger == <<landed, kept, settled, cursor>>

KeyOf(r) == <<r.body.id, r.body.ts>>
KeptKeys(s) == {KeyOf(r) : r \in {x \in Rows[s] : kept[s][x] > 0}}

Init ==
    /\ landed = [s \in Streams |-> {}]
    /\ kept = [s \in Streams |-> [r \in Rows[s] |-> 0]]
    /\ settled = [s \in Streams |-> {}]
    /\ cursor = [s \in Streams |-> [p \in Partitions |-> -1]]

\* Rows arrive, or disappear by retention.
Land(s) ==
    /\ landed' = [landed EXCEPT ![s] = landed'[s]]
    /\ \/ \E r \in Rows[s] : landed'[s] = landed[s] \union {r}
       \/ landed'[s] \subseteq landed[s]
    /\ UNCHANGED <<kept, settled, cursor>>

Refuse(s) ==
    /\ settled' = [settled EXCEPT ![s] = settled'[s]]
    /\ settled[s] \subseteq settled'[s]
    /\ UNCHANGED <<landed, kept, cursor>>

\* The rows of which a step keeps a copy.
Taken(s) == {r \in Rows[s] : kept'[s][r] # kept[s][r]}

Keep(s) ==
    /\ \A r \in Taken(s) : kept'[s][r] = kept[s][r] + 1 /\ KeyOf(r) \notin KeptKeys(s)
    /\ \A q, r \in Taken(s) : KeyOf(q) = KeyOf(r) => q = r
    /\ kept' = [kept EXCEPT ![s] = kept'[s]]
    /\ settled' = [settled EXCEPT ![s] = @ \union Taken(s)]
    /\ UNCHANGED <<landed, cursor>>

\* The cursor moves on, over settled rows only.
Confirm ==
    /\ cursor' \in [Streams -> [Partitions -> Int]]
    /\ \A s \in Streams, p \in Partitions : cursor'[s][p] >= cursor[s][p]
    /\ \A s \in Streams : \A r \in landed[s] :
          r.off <= cursor'[s][r.part] => r \in settled[s]
    /\ UNCHANGED <<landed, kept, settled>>

\* An operator starts over with what is still there.
Restart ==
    /\ kept' = [s \in Streams |-> [r \in Rows[s] |-> 0]]
    /\ settled' = [s \in Streams |-> {}]
    /\ cursor' = [s \in Streams |-> [p \in Partitions |-> -1]]
    /\ UNCHANGED landed

Next ==
    \/ \E s \in Streams : Land(s) \/ Refuse(s) \/ Keep(s)
    \/ Confirm
    \/ Restart

Spec == Init /\ [][Next]_ledger
=============================================================================
