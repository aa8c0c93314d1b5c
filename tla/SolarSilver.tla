---------------------------- MODULE SolarSilver ----------------------------
(***************************************************************************)
(* silver.py of the solar pipeline: bronze rows become silver readings.    *)
(*                                                                         *)
(* A Spark driver works through three streams in a fixed order.  For each  *)
(* of them it reads the bronze rows behind the stored offset, appends the  *)
(* rejected rows and then the duplicates to the quarantine, appends the    *)
(* remaining readings to the silver table, and stores the new offset.      *)
(* Each append and the final overwrite is one Iceberg commit; nothing ties *)
(* the four commits of a stream together, so a driver can die between any  *)
(* two of them.                                                            *)
(***************************************************************************)
EXTENDS Integers, FiniteSets, Sequences

CONSTANTS
    Drivers,      \* the Spark drivers that may exist
    Exclusive,    \* TRUE: a driver starts only while no other one runs
    Partitions,   \* Kafka partitions of every topic
    Ids,          \* site and station ids
    Bodies,       \* stream -> the message bodies that occur, [id, ts, marks]
    DimSets,      \* stream -> the ids its dimension table may get
    MaxRows,      \* MAX_ROWS_PER_RUN
    MaxOffset,    \* bound: stream -> the largest Kafka offset
    MaxGap,       \* bound: consecutive offsets lost before bronze reads them
    MaxCrashes,   \* bound: drivers that die
    Retention,    \* TRUE: the maintenance job deletes old bronze rows
    Rebuilds      \* bound: operator rebuilds of the silver tables

Streams == {"weather", "inverter", "clouds"}
Offsets(s) == 0..MaxOffset[s]
Row(s) == [part: Partitions, off: Offsets(s), body: Bodies[s]]

\* The order in which main() takes the streams.
After == [weather |-> "inverter", inverter |-> "clouds", clouds |-> "end"]

(***************************************************************************)
(* The rules of each stream, first match wins.  The marks of a body name   *)
(* what is wrong with the message itself; "output" and "dark" are the two  *)
(* measurements the night rule compares.                                   *)
(***************************************************************************)
WeatherRules == <<"missing_required", "unknown_station", "negative_irradiance">>

InverterRules == <<"missing_required", "unknown_site", "negative_power",
                   "above_capacity", "output_at_night">>

CloudRules == <<"missing_required">>

Rules == [weather |-> WeatherRules, inverter |-> InverterRules, clouds |-> CloudRules]

Marks == {"missing_required", "negative_irradiance", "negative_power",
          "above_capacity", "output", "dark"}
Reasons == Marks \union {"unknown_station", "unknown_site", "output_at_night", "duplicate"}

ASSUME ConstantsAssumption ==
    /\ Exclusive \in BOOLEAN
    /\ Retention \in BOOLEAN
    /\ MaxRows \in Nat \ {0}
    /\ MaxOffset \in [Streams -> Nat]
    /\ MaxGap \in Nat
    /\ MaxCrashes \in Nat
    /\ Rebuilds \in Nat
    /\ \A s \in Streams : DimSets[s] \subseteq SUBSET Ids
    /\ \A s \in Streams : Bodies[s] \subseteq [id: Ids, ts: Nat, marks: SUBSET Marks]

VARIABLES
    bronze,      \* stream -> rows of the bronze table
    head,        \* stream -> partition -> next offset the bronze job reads
    known,       \* stream -> ids in its dimension table, {} while there is none
    silver,      \* stream -> row -> number of copies in the silver table
    quarantine,  \* stream -> [row, reason] entries
    state,       \* stream -> partition -> last_offset, -1 when there is no entry
    crashes,     \* drivers that died so far
    rebuilds     \* rebuilds so far

\* What a driver holds in memory.
VARIABLES
    pc,          \* driver -> the next commit of its current stream
    at,          \* driver -> its current stream
    batch,       \* driver -> the cached bronze rows of this stream
    valid,       \* driver -> the rows of the batch no rule rejects
    fresh,       \* driver -> the valid rows to append
    saved        \* driver -> the state table as read before overwriting it

tables == <<bronze, head, known, silver, quarantine, state>>
memory == <<pc, at, batch, valid, fresh, saved>>
bounds == <<crashes, rebuilds>>
vars == <<tables, memory, bounds>>

Phases == {"idle", "read", "reject", "split", "append", "checkpoint", "advance"}
Idle(d) == pc[d] = "idle"
NoState == [s \in Streams |-> [p \in Partitions |-> -1]]
NoSilver == [s \in Streams |-> [r \in Row(s) |-> 0]]
NoRows == [s \in Streams |-> {}]

Key(r) == <<r.body.id, r.body.ts>>
InSilver(s) == {r \in Row(s) : silver[s][r] > 0}
SilverKeys(s) == {Key(r) : r \in InSilver(s)}
Quarantined(s) == {q.row : q \in quarantine[s]}
Settled(s, r) == r \in InSilver(s) \union Quarantined(s)

Init ==
    /\ bronze = NoRows
    /\ head = [s \in Streams |-> [p \in Partitions |-> 0]]
    /\ known = NoRows
    /\ silver = NoSilver
    /\ quarantine = NoRows
    /\ state = NoState
    /\ crashes = 0
    /\ rebuilds = 0
    /\ pc = [d \in Drivers |-> "idle"]
    /\ at = [d \in Drivers |-> "weather"]
    /\ batch = [d \in Drivers |-> {}]
    /\ valid = [d \in Drivers |-> {}]
    /\ fresh = [d \in Drivers |-> {}]
    /\ saved = [d \in Drivers |-> NoState]

----------------------------------------------------------------------------
(***************************************************************************)
(* The tables' other users.                                                *)
(***************************************************************************)

\* The bronze job appends the next message of a partition.  With
\* failOnDataLoss=false it skips the offsets Kafka no longer has.
Ingest(s, p) ==
    \E off \in Offsets(s), b \in Bodies[s] :
        /\ off \in head[s][p]..(head[s][p] + MaxGap)
        /\ bronze' = [bronze EXCEPT ![s] = @ \union {[part |-> p, off |-> off, body |-> b]}]
        /\ head' = [head EXCEPT ![s][p] = off + 1]
        /\ UNCHANGED <<known, silver, quarantine, state, memory, bounds>>

\* The maintenance job deletes the bronze rows of days gone by: a prefix of a
\* partition, whether or not silver has read it.
ExpireBronze(s, p) ==
    /\ Retention
    /\ \E cutoff \in Offsets(s) :
        LET old == {r \in bronze[s] : r.part = p /\ r.off <= cutoff}
        IN /\ old # {}
           /\ bronze' = [bronze EXCEPT ![s] = @ \ old]
    /\ UNCHANGED <<head, known, silver, quarantine, state, memory, bounds>>

\* The dims job replaces a dimension table; one may be empty again if its topic
\* was emptied between the count and the write (MasterData).
LoadDims(s) ==
    /\ s # "clouds"
    /\ \E ids \in DimSets[s] : known' = [known EXCEPT ![s] = ids]
    /\ UNCHANGED <<bronze, head, silver, quarantine, state, memory, bounds>>

\* The documented "Rebuild silver": pause the DAG, wait, drop the silver
\* tables and processing_state, unpause.
Rebuild ==
    /\ rebuilds < Rebuilds
    /\ \A d \in Drivers : Idle(d)
    /\ silver # NoSilver              \* there is something to rebuild
    /\ silver' = NoSilver
    /\ quarantine' = NoRows
    /\ state' = NoState
    /\ rebuilds' = rebuilds + 1
    /\ UNCHANGED <<bronze, head, known, crashes, memory>>

----------------------------------------------------------------------------
(***************************************************************************)
(* The driver.                                                             *)
(***************************************************************************)

Launch(d) ==
    /\ Idle(d)
    /\ Exclusive => \A e \in Drivers : Idle(e)
    /\ pc' = [pc EXCEPT ![d] = "read"]
    /\ UNCHANGED <<tables, at, batch, valid, fresh, saved, bounds>>

\* The driver's memory once it has exited.
Exit(d) ==
    /\ pc' = [pc EXCEPT ![d] = "idle"]
    /\ at' = [at EXCEPT ![d] = "weather"]
    /\ batch' = [batch EXCEPT ![d] = {}]
    /\ valid' = [valid EXCEPT ![d] = {}]
    /\ fresh' = [fresh EXCEPT ![d] = {}]
    /\ saved' = [saved EXCEPT ![d] = NoState]

\* On to the next stream, or the end of main().
NextStream(d) ==
    \/ /\ After[at[d]] = "end"
       /\ Exit(d)
    \/ /\ After[at[d]] # "end"
       /\ pc' = [pc EXCEPT ![d] = "read"]
       /\ at' = [at EXCEPT ![d] = After[@]]
       /\ batch' = [batch EXCEPT ![d] = {}]
       /\ saved' = [saved EXCEPT ![d] = NoState]
       /\ UNCHANGED <<valid, fresh>>

NewRowsBelowCap(s) ==
    {r \in bronze[s] : /\ r.off > state[s][r.part]
                       /\ r.off < state[s][r.part] + MaxRows}

\* Bronze rows after the last processed offset, at most MaxRows offsets on.
NewRows(s) ==
    {r \in bronze[s] : /\ r.off > state[s][r.part]
                       /\ r.off <= state[s][r.part] + MaxRows}

ReadBatch(d) ==
    /\ pc[d] = "read"
    /\ NewRows(at[d]) # {}
    /\ batch' = [batch EXCEPT ![d] = NewRows(at[d])]
    /\ pc' = [pc EXCEPT ![d] = "reject"]
    /\ UNCHANGED <<tables, at, valid, fresh, saved, bounds>>

NothingNew(d) ==
    /\ pc[d] = "read"
    /\ NewRows(at[d]) = {}
    /\ NextStream(d)
    /\ UNCHANGED <<tables, bounds>>

\* A reading shows output although its station measured darkness that minute.
AtNight(r) ==
    /\ "output" \in r.body.marks
    /\ \E w \in InSilver("weather") : w.body.ts = r.body.ts /\ "dark" \in w.body.marks

Matches(s, r, reason) ==
    \/ reason \in r.body.marks
    \/ reason \in {"unknown_station", "unknown_site"} /\ r.body.id \notin known[s]
    \/ reason = "output_at_night" /\ AtNight(r)

\* Rule i of the stream is the first that matches.
FirstFailure(s, r, i) ==
    /\ Matches(s, r, Rules[s][i])
    /\ \A j \in 1..(i - 1) : ~Matches(s, r, Rules[s][j])

Valid(s, r) == \A i \in DOMAIN Rules[s] : ~Matches(s, r, Rules[s][i])

Rejected(s, rows) ==
    {q \in [row: rows, reason: Reasons] :
        \E i \in DOMAIN Rules[s] : q.reason = Rules[s][i] /\ FirstFailure(s, q.row, i)}

\* Evaluate the rules against the dimension table and the weather readings of
\* this moment, and append the rejected rows to the quarantine.
QuarantineRejects(d) ==
    LET s == at[d] IN
    /\ pc[d] = "reject"
    /\ s = "clouds" \/ known[s] # {}
    /\ quarantine' = [quarantine EXCEPT ![s] = @ \union Rejected(s, batch[d])]
    /\ valid' = [valid EXCEPT ![d] = {r \in batch[d] : Valid(s, r)}]
    /\ pc' = [pc EXCEPT ![d] = "split"]
    /\ UNCHANGED <<bronze, head, known, silver, state, at, batch, fresh, saved, bounds>>

\* Without its dimension table the stream cannot be read: the job fails.
NoDimension(d) ==
    /\ pc[d] = "reject"
    /\ at[d] # "clouds"
    /\ known[at[d]] = {}
    /\ Exit(d)
    /\ UNCHANGED <<tables, bounds>>

\* One row per key, of the lowest offset; which one of several partitions'
\* rows with the same offset comes first is up to the shuffle.
LastPerKey(rows, firsts) ==
    /\ firsts \subseteq rows
    /\ \A r \in rows : \E f \in firsts : Key(f) = Key(r) /\ f.off >= r.off
    /\ \A f, g \in firsts : Key(f) = Key(g) => f = g

FirstPerKey(rows, firsts) ==
    /\ firsts \subseteq rows
    /\ \A r \in rows : \E f \in firsts : Key(f) = Key(r) /\ f.off <= r.off
    /\ \A f, g \in firsts : Key(f) = Key(g) => f = g

NewUnchecked(s, firsts) == firsts
NewUnseen(s, firsts) ==
    {r \in firsts : /\ Key(r) \notin SilverKeys(s)
                    /\ \A q \in quarantine[s] : q.reason = "duplicate" => Key(q.row) # Key(r)}

\* The rows silver has no reading for yet.
New(s, firsts) == {r \in firsts : Key(r) \notin SilverKeys(s)}

\* split_duplicates: rows repeated in the batch or already in silver go to the
\* quarantine as duplicates.
SplitDuplicates(d) ==
    LET s == at[d] IN
    /\ pc[d] = "split"
    /\ \E firsts \in SUBSET valid[d] :
        LET new == New(s, firsts)
        IN /\ FirstPerKey(valid[d], firsts)
           /\ fresh' = [fresh EXCEPT ![d] = new]
           /\ quarantine' = [quarantine EXCEPT ![s] =
                                @ \union {[row |-> r, reason |-> "duplicate"] : r \in valid[d] \ new}]
    /\ valid' = [valid EXCEPT ![d] = {}]
    /\ pc' = [pc EXCEPT ![d] = "append"]
    /\ UNCHANGED <<bronze, head, known, silver, state, at, batch, saved, bounds>>

AppendSilver(d) ==
    LET s == at[d] IN
    /\ pc[d] = "append"
    /\ silver' = [silver EXCEPT ![s] =
                    [r \in Row(s) |-> IF r \in fresh[d] THEN @[r] + 1 ELSE @[r]]]
    /\ fresh' = [fresh EXCEPT ![d] = {}]
    /\ pc' = [pc EXCEPT ![d] = "checkpoint"]
    /\ UNCHANGED <<bronze, head, known, quarantine, state, at, batch, valid, saved, bounds>>

\* advance(): localCheckpoint reads the state table ...
CheckpointState(d) ==
    /\ pc[d] = "checkpoint"
    /\ saved' = [saved EXCEPT ![d] = state]
    /\ pc' = [pc EXCEPT ![d] = "advance"]
    /\ UNCHANGED <<tables, at, batch, valid, fresh, bounds>>

DoneReread(d, p) == {r.off : r \in {x \in NewRows(at[d]) : x.part = p}}

\* The offsets of the driver's batch in a partition.
Done(d, p) == {r.off : r \in {x \in batch[d] : x.part = p}}
Largest(S) == CHOOSE x \in S : \A y \in S : y <= x

NewStateOfBatch(d) ==
    [s \in Streams |-> [p \in Partitions |->
        IF s = at[d] /\ Done(d, p) # {} THEN Largest(Done(d, p)) ELSE -1]]

NewStateOfNext(d) ==
    [s \in Streams |-> [p \in Partitions |->
        IF s = at[d] /\ Done(d, p) # {} THEN Largest(Done(d, p)) + 1 ELSE saved[d][s][p]]]

\* ... and the overwrite replaces all of it: the batch's partitions get the
\* largest offset of the batch, every other entry what the checkpoint holds.
NewState(d) ==
    [s \in Streams |-> [p \in Partitions |->
        IF s = at[d] /\ Done(d, p) # {} THEN Largest(Done(d, p)) ELSE saved[d][s][p]]]

OverwriteState(d) ==
    /\ pc[d] = "advance"
    /\ state' = NewState(d)
    /\ NextStream(d)
    /\ UNCHANGED <<bronze, head, known, silver, quarantine, bounds>>

\* The driver dies; its memory is gone, its commits stay.
Crash(d) ==
    /\ ~Idle(d)
    /\ crashes < MaxCrashes
    /\ crashes' = crashes + 1
    /\ Exit(d)
    /\ UNCHANGED <<tables, rebuilds>>

----------------------------------------------------------------------------
Work(d) ==
    \/ ReadBatch(d)
    \/ NothingNew(d)
    \/ QuarantineRejects(d)
    \/ NoDimension(d)
    \/ SplitDuplicates(d)
    \/ AppendSilver(d)
    \/ CheckpointState(d)
    \/ OverwriteState(d)

Environment ==
    \/ \E s \in Streams, p \in Partitions : Ingest(s, p) \/ ExpireBronze(s, p)
    \/ \E s \in Streams : LoadDims(s)
    \/ Rebuild

Next ==
    \/ Environment
    \/ \E d \in Drivers : Launch(d) \/ Work(d) \/ Crash(d)

Spec == Init /\ [][Next]_vars

\* Airflow starts silver every ten minutes and dims every hour, and a driver
\* that does not die gets through its run.  Crashes are not fair, only few.
Fairness ==
    /\ \A d \in Drivers : WF_vars(Launch(d)) /\ WF_vars(Work(d))
    /\ \A s \in Streams : WF_vars(LoadDims(s) /\ known[s] = {})

FairSpec == Spec /\ Fairness

----------------------------------------------------------------------------
(***************************************************************************)
(* Properties.                                                             *)
(***************************************************************************)

PerStream(f) == DOMAIN f = Streams
PerDriver(f) == DOMAIN f = Drivers
Cursor(s) == [Partitions -> Offsets(s) \union {-1}]

TablesOK ==
    /\ PerStream(bronze) /\ \A s \in Streams : bronze[s] \subseteq Row(s)
    /\ head \in [Streams -> [Partitions -> Nat]]
    /\ PerStream(known) /\ \A s \in Streams : known[s] \in DimSets[s] \union {{}}
    /\ PerStream(silver) /\ \A s \in Streams : silver[s] \in [Row(s) -> Nat]
    /\ PerStream(quarantine)
    /\ \A s \in Streams : quarantine[s] \subseteq [row: Row(s), reason: Reasons]
    /\ PerStream(state) /\ \A s \in Streams : state[s] \in Cursor(s)

MemoryOK ==
    /\ pc \in [Drivers -> Phases]
    /\ at \in [Drivers -> Streams]
    /\ PerDriver(batch) /\ \A d \in Drivers : batch[d] \subseteq Row(at[d])
    /\ PerDriver(valid) /\ \A d \in Drivers : valid[d] \subseteq batch[d]
    /\ PerDriver(fresh) /\ \A d \in Drivers : fresh[d] \subseteq batch[d]
    /\ \A d \in Drivers : pc[d] # "split" => valid[d] = {}
    /\ \A d \in Drivers : pc[d] # "append" => fresh[d] = {}
    /\ PerDriver(saved)
    /\ \A d \in Drivers : PerStream(saved[d]) /\ \A s \in Streams : saved[d][s] \in Cursor(s)

\* The tables hold rows of their own stream, a driver's memory rows of the
\* batch it is at, and offsets stay within the bounds.
TypeOK ==
    /\ TablesOK
    /\ MemoryOK
    /\ crashes \in 0..MaxCrashes
    /\ rebuilds \in 0..Rebuilds

\* Every bronze row behind a stream's cursor is settled.
Passed(s, cursor) == \A r \in bronze[s] : r.off <= cursor[r.part] => Settled(s, r)

\* Progress is stored after the tables are written, so whatever step a driver
\* dies at, a row behind the stored offset is in silver or in the quarantine.
NothingLost == \A s \in Streams : Passed(s, state[s])

\* Re-runs and redelivered messages never put a second reading of the same
\* site (station, polygon) and time into silver.
UniqueKeys ==
    \A s \in Streams : \A q, r \in InSilver(s) :
        /\ Key(q) = Key(r) => q = r
        /\ silver[s][r] = 1

\* Of several rows with the same key the lowest offset is kept, across runs
\* too: an earlier row that silver does not have was rejected by a rule.
LowestOffsetWins ==
    \A s \in Streams : \A r \in InSilver(s), q \in bronze[s] :
        (Key(q) = Key(r) /\ q.part = r.part /\ q.off < r.off) =>
            \E e \in quarantine[s] : e.row = q /\ e.reason # "duplicate"

\* Once the offset has passed, a row whose only fault is to be a duplicate has
\* an original in silver, even if the run that judged it died before the append;
\* unless bronze lost the rows between that run and the next one.
DuplicatesHaveOriginal ==
    \A s \in Streams : \A e \in quarantine[s] :
        (e.reason = "duplicate" /\ e.row \in bronze[s] /\ e.row.off <= state[s][e.row.part]) =>
            \/ Key(e.row) \in SilverKeys(s)
            \/ \E f \in quarantine[s] : f.row = e.row /\ f.reason # "duplicate"

\* The stored offsets never go back, in no stream and no partition, although
\* every advance overwrites the whole state table; only a rebuild resets them.
StateMonotone ==
    [][rebuilds' = rebuilds =>
        \A s \in Streams, p \in Partitions : state'[s][p] >= state[s][p]]_vars

(***************************************************************************)
(* Why nothing is lost, as an inductive invariant.  A cursor, stored or    *)
(* still in a driver's memory, only covers settled rows and stays behind   *)
(* what the bronze job appends next.  A row of a batch is settled, or is   *)
(* still among the rows its driver is about to settle; so is every earlier *)
(* bronze row of its partition.                                            *)
(***************************************************************************)
Below(s, cursor) == \A p \in Partitions : cursor[p] < head[s][p]

TablesAccounted ==
    \A s \in Streams :
        /\ Passed(s, state[s])
        /\ Below(s, state[s])
        /\ \A r \in bronze[s] : r.off < head[s][r.part]

Handled(d, r) ==
    \/ pc[d] = "reject"
    \/ pc[d] = "split" /\ r \in valid[d]
    \/ pc[d] = "append" /\ r \in fresh[d]
    \/ Settled(at[d], r)

DriverAccounted(d) ==
    /\ pc[d] \in {"idle", "read"} => batch[d] = {}
    /\ pc[d] # "advance" => saved[d] = NoState
    /\ \A s \in Streams : Passed(s, saved[d][s]) /\ Below(s, saved[d][s])
    /\ \A r \in batch[d] : Handled(d, r) /\ r.off < head[at[d]][r.part]
    /\ \A b \in batch[d], r \in bronze[at[d]] :
          (r.part = b.part /\ r.off <= b.off) => (r \in batch[d] \/ Settled(at[d], r))

Accounted == TablesAccounted /\ \A d \in Drivers : DriverAccounted(d)

(***************************************************************************)
(* Why keys are unique while drivers exclude each other: what a driver is  *)
(* about to append has distinct keys that silver does not have, and no one *)
(* else appends in between.                                                *)
(***************************************************************************)
Solo == \A d, e \in Drivers : Idle(d) \/ Idle(e) \/ d = e

FreshKeys(d) ==
    /\ \A q, r \in fresh[d] : Key(q) = Key(r) => q = r
    /\ \A r \in fresh[d] : Key(r) \notin SilverKeys(at[d])

KeysExclusive == Solo /\ UniqueKeys /\ \A d \in Drivers : FreshKeys(d)

\* Silver catches up in portions: every bronze row that is not deleted first
\* gets behind the stored offset.
Present(s, p, o) == \E r \in bronze[s] : r.part = p /\ r.off = o

CatchesUp ==
    \A s \in Streams : \A p \in Partitions, o \in Offsets(s) :
        Present(s, p, o) ~> (state[s][p] >= o \/ ~Present(s, p, o))

\* The same after an operator's rebuild, which starts from offset -1 again:
\* silver is filled anew with what bronze holds.
RebuildCatchesUp ==
    \A s \in Streams : \A p \in Partitions, o \in Offsets(s) :
        (rebuilds = 1 /\ Present(s, p, o)) ~> (state[s][p] >= o \/ ~Present(s, p, o))

\* The four commits of a stream implement the ledger, in which a row is
\* settled once and the cursor follows.
Ledger == INSTANCE SilverLedger WITH
    Rows <- [s \in Streams |-> Row(s)],
    landed <- bronze,
    kept <- silver,
    settled <- [s \in Streams |-> InSilver(s) \union Quarantined(s)],
    cursor <- state

ImplementsLedger == Ledger!Spec
=============================================================================
