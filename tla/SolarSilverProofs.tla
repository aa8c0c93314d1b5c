------------------------- MODULE SolarSilverProofs -------------------------
(***************************************************************************)
(* Proofs about SolarSilver for every set of drivers, partitions, ids and  *)
(* message bodies, every cap, every gap and every number of crashes: types,*)
(* progress of the offsets, one row per key, which row that is, and that   *)
(* the commits implement SilverLedger.                                     *)
(***************************************************************************)
EXTENDS SolarSilver, WellFoundedInduction, TLAPS

(***************************************************************************)
(* Facts about the operators.                                              *)
(***************************************************************************)

\* A set of naturals that is not empty has a smallest element.
LEMMA SmallestExists ==
  \A T \in SUBSET Nat : T # {} => \E x \in T : \A y \in T : x <= y
<1> SUFFICES ASSUME NEW T \in SUBSET Nat, T # {}
             PROVE  \E x \in T : \A y \in T : x <= y
  OBVIOUS
<1> DEFINE R == OpToRel(<, Nat)
<1>1. IsWellFoundedOn(R, Nat)
  BY NatLessThanWellFounded
<1>2. \A x, y \in Nat : y < x => <<y, x>> \in R
  BY DEF OpToRel
<1> HIDE DEF R
<1>3. PICK x \in T : \A y \in T : ~(<<y, x>> \in R)
  BY <1>1, WFMin
<1>4. \A y \in T : ~(y < x)
  BY <1>2, <1>3
<1>5. \A y \in T : x <= y
  BY <1>4
<1> QED
  BY <1>5

\* Largest is well defined for the offsets of a batch.
LEMMA LargestExists ==
  ASSUME NEW n \in Nat, NEW S \in SUBSET (0..n), S # {}
  PROVE  Largest(S) \in S /\ \A y \in S : y <= Largest(S)
<1> DEFINE T == {k \in Nat : n - k \in S}
<1>1. PICK o \in S : TRUE
  OBVIOUS
<1>2. o \in 0..n /\ n - o \in Nat /\ n - (n - o) = o
  BY <1>1
<1>3. n - o \in T
  BY <1>2
<1>4. PICK x \in T : \A y \in T : x <= y
  BY <1>3, SmallestExists
<1>5. n - x \in S
  BY <1>4
<1>6. ASSUME NEW y \in S
      PROVE  y <= n - x
  <2>1. y \in 0..n /\ n - y \in Nat /\ n - (n - y) = y
    BY <1>6
  <2>2. n - y \in T
    BY <2>1
  <2>3. x <= n - y /\ x \in Nat
    BY <2>2, <1>4
  <2> QED
    BY <2>1, <2>3
<1>7. \E m \in S : \A y \in S : y <= m
  BY <1>5, <1>6
<1> QED
  BY <1>7 DEF Largest

\* The rules of a stream are numbered from 1 and name reasons.
LEMMA RulesType ==
  ASSUME NEW s \in Streams
  PROVE  /\ DOMAIN Rules[s] \in SUBSET (Nat \ {0})
         /\ \A i \in DOMAIN Rules[s] : /\ Rules[s][i] \in Reasons
                                       /\ 1..(i - 1) \subseteq DOMAIN Rules[s]
<1>1. CASE s = "weather"
  BY <1>1 DEF Rules, WeatherRules, Reasons, Marks
<1>2. CASE s = "inverter"
  BY <1>2 DEF Rules, InverterRules, Reasons, Marks
<1>3. CASE s = "clouds"
  BY <1>3 DEF Rules, CloudRules, Reasons, Marks
<1> QED
  BY <1>1, <1>2, <1>3 DEF Streams

\* first_failure decides: a row is valid or has a first failing rule.
LEMMA RuleDecides ==
  ASSUME NEW s \in Streams, NEW r, ~Valid(s, r)
  PROVE  \E i \in DOMAIN Rules[s] : FirstFailure(s, r, i)
<1> DEFINE Failing == {i \in DOMAIN Rules[s] : Matches(s, r, Rules[s][i])}
<1>1. Failing \in SUBSET Nat /\ Failing # {}
  BY RulesType DEF Valid
<1>2. PICK i \in Failing : \A j \in Failing : i <= j
  BY <1>1, SmallestExists
<1>3. \A j \in 1..(i - 1) : j \in DOMAIN Rules[s] /\ ~(i <= j)
  BY <1>2, RulesType
<1>4. \A j \in 1..(i - 1) : ~Matches(s, r, Rules[s][j])
  BY <1>2, <1>3
<1> QED
  BY <1>2, <1>4 DEF FirstFailure

\* A rejected row is a row of the batch with a reason of its stream ...
LEMMA RejectedType ==
  ASSUME NEW s \in Streams, NEW rows \in SUBSET Row(s)
  PROVE  Rejected(s, rows) \subseteq [row: Row(s), reason: Reasons]
  BY RulesType DEF Rejected

\* ... and every row that is not valid is rejected.
LEMMA InvalidRejected ==
  ASSUME NEW s \in Streams, NEW rows \in SUBSET Row(s), NEW r \in rows, ~Valid(s, r)
  PROVE  \E q \in Rejected(s, rows) : q.row = r
<1>1. PICK i \in DOMAIN Rules[s] : FirstFailure(s, r, i)
  BY RuleDecides
<1>2. [row |-> r, reason |-> Rules[s][i]] \in Rejected(s, rows)
  BY <1>1, RulesType DEF Rejected
<1> QED
  BY <1>2

----------------------------------------------------------------------------
(***************************************************************************)
(* Type correctness.                                                       *)
(***************************************************************************)

\* What Exit and NextStream do to a driver's memory keeps its type.
LEMMA ExitType ==
  ASSUME MemoryOK, NEW d \in Drivers, Exit(d)
  PROVE  MemoryOK'
<1>1. PerStream(NoState) /\ \A s \in Streams : NoState[s] \in Cursor(s)
  BY DEF NoState, PerStream, Cursor
<1>2. "idle" \in Phases /\ "weather" \in Streams
  BY DEF Phases, Streams
<1> QED
  BY <1>1, <1>2 DEF Exit, MemoryOK, PerDriver, PerStream

LEMMA NextStreamType ==
  ASSUME MemoryOK, NEW d \in Drivers, NextStream(d), pc[d] \notin {"split", "append"}
  PROVE  MemoryOK'
<1>1. CASE Exit(d)
  BY <1>1, ExitType
<1>2. CASE /\ After[at[d]] # "end"
           /\ pc' = [pc EXCEPT ![d] = "read"]
           /\ at' = [at EXCEPT ![d] = After[@]]
           /\ batch' = [batch EXCEPT ![d] = {}]
           /\ saved' = [saved EXCEPT ![d] = NoState]
           /\ UNCHANGED <<valid, fresh>>
  <2>1. PerStream(NoState) /\ \A s \in Streams : NoState[s] \in Cursor(s)
    BY DEF NoState, PerStream, Cursor
  <2>2. "read" \in Phases /\ After[at[d]] \in Streams
    BY <1>2 DEF Phases, Streams, After, MemoryOK
  <2>3. valid[d] = {} /\ fresh[d] = {}
    BY DEF MemoryOK
  <2> QED
    BY <1>2, <2>1, <2>2, <2>3 DEF MemoryOK, PerDriver, PerStream
<1> QED
  BY <1>1, <1>2 DEF NextStream

\* Steps that leave the tables or the memory alone keep their types.
LEMMA UnchangedType ==
  /\ TablesOK /\ UNCHANGED tables => TablesOK'
  /\ MemoryOK /\ UNCHANGED memory => MemoryOK'
<1>1. TablesOK /\ UNCHANGED tables => TablesOK'
  BY DEF TablesOK, tables, PerStream
<1>2. MemoryOK /\ UNCHANGED memory => MemoryOK'
  BY DEF MemoryOK, memory, PerStream, PerDriver
<1> QED
  BY <1>1, <1>2

\* The offsets of a batch, and hence the new state, are offsets of the stream.
LEMMA NewStateType ==
  ASSUME TypeOK, NEW d \in Drivers
  PROVE  PerStream(NewState(d)) /\ \A s \in Streams : NewState(d)[s] \in Cursor(s)
<1>1. ASSUME NEW s \in Streams, NEW p \in Partitions, s = at[d], Done(d, p) # {}
      PROVE  Largest(Done(d, p)) \in Offsets(s)
  <2>1. Done(d, p) \in SUBSET (0..MaxOffset[s]) /\ MaxOffset[s] \in Nat
    BY <1>1, ConstantsAssumption DEF TypeOK, MemoryOK, Done, Row, Offsets
  <2>2. Largest(Done(d, p)) \in Done(d, p)
    BY <1>1, <2>1, LargestExists
  <2> QED
    BY <2>1, <2>2 DEF Offsets
<1>2. ASSUME NEW s \in Streams
      PROVE  NewState(d)[s] \in Cursor(s)
  BY <1>1 DEF NewState, Cursor, TypeOK, MemoryOK
<1> QED
  BY <1>2 DEF NewState, PerStream

LEMMA InitType == Init => TypeOK
<1> SUFFICES ASSUME Init PROVE TypeOK
  OBVIOUS
<1>1. TablesOK
  BY DEF Init, TablesOK, NoRows, NoSilver, NoState, PerStream, Cursor
<1>2. MemoryOK
  BY DEF Init, MemoryOK, Phases, Streams, NoState, PerStream, PerDriver, Cursor
<1> QED
  BY <1>1, <1>2, ConstantsAssumption DEF Init, TypeOK

LEMMA EnvironmentType ==
  ASSUME TypeOK, Environment
  PROVE  TypeOK'
<1>1. ASSUME NEW s \in Streams, NEW p \in Partitions, Ingest(s, p)
      PROVE  TypeOK'
  <2>1. PICK off \in Offsets(s), b \in Bodies[s] :
           /\ bronze' = [bronze EXCEPT ![s] = @ \union {[part |-> p, off |-> off, body |-> b]}]
           /\ head' = [head EXCEPT ![s][p] = off + 1]
    BY <1>1 DEF Ingest
  <2>2. [part |-> p, off |-> off, body |-> b] \in Row(s) /\ off + 1 \in Nat
    BY ConstantsAssumption DEF Row, Offsets
  <2>3. TablesOK'
    BY <1>1, <2>1, <2>2 DEF Ingest, TypeOK, TablesOK, PerStream
  <2> QED
    BY <1>1, <2>3, UnchangedType DEF Ingest, TypeOK, bounds
<1>2. ASSUME NEW s \in Streams, NEW p \in Partitions, ExpireBronze(s, p)
      PROVE  TypeOK'
  <2>1. TablesOK'
    BY <1>2 DEF ExpireBronze, TypeOK, TablesOK, PerStream
  <2> QED
    BY <1>2, <2>1, UnchangedType DEF ExpireBronze, TypeOK, bounds
<1>3. ASSUME NEW s \in Streams, LoadDims(s)
      PROVE  TypeOK'
  <2>1. TablesOK'
    BY <1>3 DEF LoadDims, TypeOK, TablesOK, PerStream
  <2> QED
    BY <1>3, <2>1, UnchangedType DEF LoadDims, TypeOK, bounds
<1>4. ASSUME Rebuild
      PROVE  TypeOK'
  <2>1. TablesOK'
    BY <1>4 DEF Rebuild, TypeOK, TablesOK, PerStream, NoSilver, NoRows, NoState, Cursor
  <2> QED
    BY <1>4, <2>1, UnchangedType, ConstantsAssumption DEF Rebuild, TypeOK
<1> QED
  BY <1>1, <1>2, <1>3, <1>4 DEF Environment

LEMMA DriverType ==
  ASSUME TypeOK, NEW d \in Drivers, Launch(d) \/ Work(d) \/ Crash(d)
  PROVE  TypeOK'
<1> DEFINE s == at[d]
<1> s \in Streams
  BY DEF TypeOK, MemoryOK
<1> USE DEF TypeOK
<1>1. ASSUME Launch(d) PROVE TypeOK'
  <2>1. MemoryOK'
    BY <1>1 DEF Launch, MemoryOK, Phases, PerDriver, PerStream, Idle
  <2> QED
    BY <1>1, <2>1, UnchangedType DEF Launch, bounds
<1>2. ASSUME ReadBatch(d) PROVE TypeOK'
  <2>1. NewRows(s) \subseteq Row(s)
    BY DEF NewRows, TablesOK
  <2>2. MemoryOK'
    BY <1>2, <2>1 DEF ReadBatch, MemoryOK, Phases, PerDriver, PerStream
  <2> QED
    BY <1>2, <2>2, UnchangedType DEF ReadBatch, bounds
<1>3. ASSUME NothingNew(d) PROVE TypeOK'
  BY <1>3, NextStreamType, UnchangedType DEF NothingNew, bounds
<1>4. ASSUME QuarantineRejects(d) PROVE TypeOK'
  <2>1. Rejected(s, batch[d]) \subseteq [row: Row(s), reason: Reasons]
    BY RejectedType DEF MemoryOK
  <2>2. TablesOK'
    BY <1>4, <2>1 DEF QuarantineRejects, TablesOK, PerStream
  <2>3. MemoryOK'
    BY <1>4 DEF QuarantineRejects, MemoryOK, Phases, PerDriver, PerStream
  <2> QED
    BY <1>4, <2>2, <2>3 DEF QuarantineRejects, bounds
<1>5. ASSUME NoDimension(d) PROVE TypeOK'
  BY <1>5, ExitType, UnchangedType DEF NoDimension, bounds
<1>6. ASSUME SplitDuplicates(d) PROVE TypeOK'
  <2>1. PICK new \in SUBSET valid[d] :
           /\ fresh' = [fresh EXCEPT ![d] = new]
           /\ quarantine' = [quarantine EXCEPT ![s] =
                                @ \union {[row |-> r, reason |-> "duplicate"] : r \in valid[d] \ new}]
    BY <1>6 DEF SplitDuplicates, New
  <2>2. {[row |-> r, reason |-> "duplicate"] : r \in valid[d] \ new}
           \subseteq [row: Row(s), reason: Reasons]
    BY DEF MemoryOK, Reasons
  <2>3. TablesOK'
    BY <1>6, <2>1, <2>2 DEF SplitDuplicates, TablesOK, PerStream
  <2>4. MemoryOK'
    BY <1>6, <2>1 DEF SplitDuplicates, MemoryOK, Phases, PerDriver, PerStream
  <2> QED
    BY <1>6, <2>3, <2>4 DEF SplitDuplicates, bounds
<1>7. ASSUME AppendSilver(d) PROVE TypeOK'
  <2>1. TablesOK'
    BY <1>7 DEF AppendSilver, TablesOK, PerStream
  <2>2. MemoryOK'
    BY <1>7 DEF AppendSilver, MemoryOK, Phases, PerDriver, PerStream
  <2> QED
    BY <1>7, <2>1, <2>2 DEF AppendSilver, bounds
<1>8. ASSUME CheckpointState(d) PROVE TypeOK'
  <2>1. MemoryOK'
    BY <1>8 DEF CheckpointState, MemoryOK, TablesOK, Phases, PerDriver, PerStream
  <2> QED
    BY <1>8, <2>1, UnchangedType DEF CheckpointState, bounds
<1>9. ASSUME OverwriteState(d) PROVE TypeOK'
  <2>1. TablesOK'
    BY <1>9, NewStateType DEF OverwriteState, TablesOK, PerStream
  <2>2. MemoryOK'
    BY <1>9, NextStreamType DEF OverwriteState
  <2> QED
    BY <1>9, <2>1, <2>2 DEF OverwriteState, bounds
<1>10. ASSUME Crash(d) PROVE TypeOK'
  BY <1>10, ExitType, UnchangedType, ConstantsAssumption DEF Crash
<1> QED
  BY <1>1, <1>2, <1>3, <1>4, <1>5, <1>6, <1>7, <1>8, <1>9, <1>10 DEF Work

\* In every reachable state the tables and the drivers' memory have their types:
\* no reading ends up in the table of another stream, and every step
\* of silver.py keeps the offsets of the state table real Kafka offsets.
THEOREM TypeCorrect == Spec => []TypeOK
<1>1. Init => TypeOK
  BY InitType
<1>2. TypeOK /\ [Next]_vars => TypeOK'
  <2> SUFFICES ASSUME TypeOK, [Next]_vars
               PROVE  TypeOK'
    OBVIOUS
  <2>1. CASE Environment
    BY <2>1, EnvironmentType
  <2>2. CASE \E d \in Drivers : Launch(d) \/ Work(d) \/ Crash(d)
    BY <2>2, DriverType
  <2>3. CASE UNCHANGED vars
    BY <2>3, UnchangedType DEF vars, TypeOK, bounds
  <2> QED
    BY <2>1, <2>2, <2>3 DEF Next
<1> QED
  BY <1>1, <1>2, PTL DEF Spec

----------------------------------------------------------------------------
(***************************************************************************)
(* Nothing is lost.                                                        *)
(***************************************************************************)

\* Rows stay settled while silver and the quarantine only grow.
LEMMA SettledStays ==
  ASSUME NEW s \in Streams, NEW r \in Row(s), Settled(s, r),
         InSilver(s) \subseteq InSilver(s)', quarantine[s] \subseteq quarantine'[s]
  PROVE  Settled(s, r)'
  BY DEF Settled, Quarantined

\* The offset of a row is a number, one more than -1, the start of a cursor.
LEMMA OffsetType ==
  ASSUME NEW s \in Streams, NEW r \in Row(s)
  PROVE  r.off \in Nat /\ r.part \in Partitions
  BY ConstantsAssumption DEF Row, Offsets

LEMMA CursorType ==
  ASSUME NEW s \in Streams, NEW c \in Cursor(s), NEW p \in Partitions
  PROVE  c[p] \in Int
  BY ConstantsAssumption DEF Cursor, Offsets

\* A driver left without a batch and a saved state has nothing to account for.
LEMMA EmptyAccounted ==
  ASSUME TypeOK', NEW d \in Drivers, batch'[d] = {}, saved'[d] = NoState
  PROVE  DriverAccounted(d)'
<1>1. ASSUME NEW s \in Streams
      PROVE  Passed(s, NoState[s])' /\ Below(s, NoState[s])'
  BY OffsetType DEF Passed, Below, NoState, TypeOK, TablesOK
<1>2. ASSUME NEW s \in Streams
      PROVE  Passed(s, saved[d][s])' /\ Below(s, saved[d][s])'
  BY <1>1 DEF Passed, Below
<1> QED
  BY <1>2 DEF DriverAccounted

\* What every step but a rebuild does to the tables: new bronze rows come
\* after the old ones, and settled rows stay settled.
Grows ==
    \A s \in Streams :
        /\ \A r \in bronze'[s] :
              r \in bronze[s] \/ (head[s][r.part] <= r.off /\ r.off < head'[s][r.part])
        /\ \A p \in Partitions : head[s][p] <= head'[s][p]
        /\ \A r \in Row(s) : Settled(s, r) => Settled(s, r)'

KeepsMemory(d) ==
    /\ pc'[d] = pc[d]
    /\ at'[d] = at[d]
    /\ batch'[d] = batch[d]
    /\ valid'[d] = valid[d]
    /\ fresh'[d] = fresh[d]
    /\ saved'[d] = saved[d]

\* A cursor stays good while the tables grow.
LEMMA CursorStays ==
  ASSUME TypeOK, TypeOK', Grows, NEW s \in Streams, NEW c \in Cursor(s),
         Passed(s, c), Below(s, c)
  PROVE  Passed(s, c)' /\ Below(s, c)'
<1>1. ASSUME NEW p \in Partitions
      PROVE  c[p] \in Int /\ head[s][p] \in Nat /\ head'[s][p] \in Nat
  BY CursorType DEF TypeOK, TablesOK
<1>2. Below(s, c)'
  BY <1>1 DEF Below, Grows
<1>3. ASSUME NEW r \in bronze'[s], r.off <= c[r.part]
      PROVE  Settled(s, r)'
  <2>1. r \in Row(s) /\ r.off \in Nat /\ r.part \in Partitions
    BY OffsetType DEF TypeOK, TablesOK
  <2>2. r \in bronze[s]
    BY <1>1, <1>3, <2>1 DEF Grows, Below
  <2>3. Settled(s, r)
    BY <1>3, <2>2 DEF Passed
  <2> QED
    BY <2>1, <2>3 DEF Grows
<1>4. Passed(s, c)'
  BY <1>3 DEF Passed
<1> QED
  BY <1>2, <1>4

\* The tables stay accounted for when they grow and no offset is stored.
LEMMA TablesStay ==
  ASSUME TypeOK, TypeOK', Grows, TablesAccounted, state' = state
  PROVE  TablesAccounted'
<1> SUFFICES ASSUME NEW s \in Streams
             PROVE  /\ Passed(s, state[s])'
                    /\ Below(s, state[s])'
                    /\ \A r \in bronze'[s] : r.off < head'[s][r.part]
  BY DEF TablesAccounted
<1>1. state[s] \in Cursor(s) /\ Passed(s, state[s]) /\ Below(s, state[s])
  BY DEF TablesAccounted, TypeOK, TablesOK
<1>2. Passed(s, state[s])' /\ Below(s, state[s])'
  BY <1>1, CursorStays DEF Passed, Below
<1>3. ASSUME NEW r \in bronze'[s]
      PROVE  r.off < head'[s][r.part]
  <2>1. r.off \in Nat /\ r.part \in Partitions
    BY OffsetType DEF TypeOK, TablesOK
  <2>2. head[s][r.part] \in Nat /\ head'[s][r.part] \in Nat
    BY <2>1 DEF TypeOK, TablesOK
  <2>3. head[s][r.part] <= head'[s][r.part]
    BY <2>1 DEF Grows
  <2>4. CASE r \in bronze[s]
    BY <2>1, <2>2, <2>3, <2>4 DEF TablesAccounted
  <2>5. CASE r.off < head'[s][r.part]
    BY <2>5
  <2> QED
    BY <2>4, <2>5 DEF Grows
<1> QED
  BY <1>2, <1>3

\* The saved state and the batch of a driver stay good while the tables grow.
LEMMA SavedStays ==
  ASSUME TypeOK, TypeOK', Grows, NEW d \in Drivers, DriverAccounted(d), saved'[d] = saved[d]
  PROVE  \A s \in Streams : Passed(s, saved[d][s])' /\ Below(s, saved[d][s])'
<1> SUFFICES ASSUME NEW s \in Streams
             PROVE  Passed(s, saved[d][s])' /\ Below(s, saved[d][s])'
  OBVIOUS
<1>1. saved[d][s] \in Cursor(s) /\ Passed(s, saved[d][s]) /\ Below(s, saved[d][s])
  BY DEF DriverAccounted, TypeOK, MemoryOK
<1>2. \A c \in Cursor(s) : Passed(s, c) /\ Below(s, c) => Passed(s, c)' /\ Below(s, c)'
  BY CursorStays
<1> QED
  BY <1>1, <1>2 DEF Passed, Below

LEMMA BatchStays ==
  ASSUME TypeOK, TypeOK', Grows, NEW d \in Drivers, DriverAccounted(d),
         at'[d] = at[d], batch'[d] = batch[d]
  PROVE  /\ \A r \in batch'[d] : r.off < head'[at'[d]][r.part]
         /\ \A r \in batch'[d] : Settled(at[d], r) => Settled(at[d], r)'
         /\ \A b \in batch'[d], r \in bronze'[at'[d]] :
              (r.part = b.part /\ r.off <= b.off) => (r \in batch'[d] \/ Settled(at[d], r)')
<1> DEFINE s == at[d]
<1>1. s \in Streams /\ batch[d] \subseteq Row(s)
  BY DEF TypeOK, MemoryOK
<1>2. \A r \in Row(s) : Settled(at[d], r)' <=> Settled(s, r)'
  BY DEF Settled, InSilver, Quarantined
<1>3. ASSUME NEW r \in batch[d]
      PROVE  r.off < head'[s][r.part]
  <2>1. r \in Row(s) /\ r.off \in Nat /\ r.part \in Partitions
    BY <1>1, OffsetType
  <2>2. r.off < head[s][r.part]
    BY DEF DriverAccounted
  <2>3. head[s][r.part] \in Nat /\ head'[s][r.part] \in Nat /\ head[s][r.part] <= head'[s][r.part]
    BY <1>1, <2>1 DEF Grows, TypeOK, TablesOK
  <2> QED
    BY <2>1, <2>2, <2>3
<1>4. ASSUME NEW b \in batch[d], NEW r \in bronze'[s], r.part = b.part, r.off <= b.off
      PROVE  r \in batch[d] \/ Settled(s, r)'
  <2>1. /\ r \in Row(s) /\ r.off \in Nat /\ r.part \in Partitions
        /\ b \in Row(s) /\ b.off \in Nat /\ head[s][r.part] \in Nat
    BY <1>1, OffsetType DEF TypeOK, TablesOK
  <2>2. b.off < head[s][r.part]
    BY <1>4 DEF DriverAccounted
  <2>3. r \in bronze[s]
    BY <1>1, <1>4, <2>1, <2>2 DEF Grows
  <2>4. r \in batch[d] \/ Settled(s, r)
    BY <1>4, <2>3 DEF DriverAccounted
  <2> QED
    BY <1>1, <2>1, <2>4 DEF Grows
<1>5. ASSUME NEW b \in batch[d], NEW r \in bronze'[s], r.part = b.part, r.off <= b.off
      PROVE  r \in batch'[d] \/ Settled(at[d], r)'
  BY <1>1, <1>4, <1>5 DEF Settled, InSilver, Quarantined
<1>6. ASSUME NEW r \in batch[d], Settled(at[d], r)
      PROVE  Settled(at[d], r)'
  BY <1>1, <1>2, <1>6 DEF Grows
<1> QED
  BY <1>3, <1>5, <1>6

\* A driver stays accounted for while the tables grow and it does nothing.
LEMMA DriverStays ==
  ASSUME TypeOK, TypeOK', Grows, NEW d \in Drivers, DriverAccounted(d), KeepsMemory(d)
  PROVE  DriverAccounted(d)'
<1>1. at'[d] = at[d] /\ batch'[d] = batch[d] /\ saved'[d] = saved[d]
  BY DEF KeepsMemory
<1>2. ASSUME NEW r \in batch'[d]
      PROVE  Handled(d, r)'
  BY <1>1, BatchStays DEF Handled, KeepsMemory, DriverAccounted
<1> QED
  BY <1>1, <1>2, SavedStays, BatchStays DEF DriverAccounted, KeepsMemory

\* Steps that only touch bronze, or nothing silver.py looks after.
LEMMA SameSettled ==
  ASSUME silver' = silver, quarantine' = quarantine
  PROVE  \A s \in Streams : \A r \in Row(s) : Settled(s, r)' <=> Settled(s, r)
  BY DEF Settled, InSilver, Quarantined

LEMMA SameTablesGrow ==
  ASSUME TypeOK, UNCHANGED <<bronze, head, silver, quarantine>>
  PROVE  Grows
<1>1. ASSUME NEW s \in Streams, NEW p \in Partitions
      PROVE  head[s][p] <= head'[s][p]
  BY DEF TypeOK, TablesOK
<1> QED
  BY <1>1, SameSettled DEF Grows

LEMMA EnvironmentGrows ==
  ASSUME TypeOK, TypeOK', Environment, rebuilds' = rebuilds
  PROVE  Grows /\ UNCHANGED <<state, memory>>
<1>1. ASSUME NEW s \in Streams, NEW p \in Partitions, Ingest(s, p)
      PROVE  Grows /\ UNCHANGED <<state, memory>>
  <2>1. PICK off \in Offsets(s), b \in Bodies[s] :
           /\ off \in head[s][p]..(head[s][p] + MaxGap)
           /\ bronze' = [bronze EXCEPT ![s] = @ \union {[part |-> p, off |-> off, body |-> b]}]
           /\ head' = [head EXCEPT ![s][p] = off + 1]
    BY <1>1 DEF Ingest
  <2>2. head[s][p] \in Nat /\ head[s][p] <= off /\ off \in Nat
    BY <2>1, ConstantsAssumption DEF TypeOK, TablesOK, Offsets
  <2>3. ASSUME NEW z \in Streams, NEW q \in Partitions
        PROVE  head[z][q] <= head'[z][q] /\ head'[s][p] = off + 1
    BY <2>1, <2>2 DEF TypeOK, TablesOK
  <2>4. ASSUME NEW z \in Streams, NEW r \in bronze'[z]
        PROVE  r \in bronze[z] \/ (head[z][r.part] <= r.off /\ r.off < head'[z][r.part])
    <3>1. r \in bronze[z] \/ (z = s /\ r = [part |-> p, off |-> off, body |-> b])
      BY <2>1 DEF TypeOK, TablesOK, PerStream
    <3> QED
      BY <2>2, <2>3, <3>1
  <2>5. silver' = silver /\ quarantine' = quarantine /\ UNCHANGED <<state, memory>>
    BY <1>1 DEF Ingest
  <2> QED
    BY <2>3, <2>4, <2>5, SameSettled DEF Grows
<1>2. ASSUME NEW s \in Streams, NEW p \in Partitions, ExpireBronze(s, p)
      PROVE  Grows /\ UNCHANGED <<state, memory>>
  <2>1. ASSUME NEW z \in Streams
        PROVE  bronze'[z] \subseteq bronze[z]
    BY <1>2 DEF ExpireBronze, TypeOK, TablesOK, PerStream
  <2>2. head' = head /\ silver' = silver /\ quarantine' = quarantine /\ UNCHANGED <<state, memory>>
    BY <1>2 DEF ExpireBronze
  <2>3. ASSUME NEW z \in Streams, NEW q \in Partitions
        PROVE  head[z][q] <= head'[z][q]
    BY <2>2 DEF TypeOK, TablesOK
  <2> QED
    BY <2>1, <2>2, <2>3, SameSettled DEF Grows
<1>3. ASSUME NEW s \in Streams, LoadDims(s)
      PROVE  Grows /\ UNCHANGED <<state, memory>>
  BY <1>3, SameTablesGrow DEF LoadDims
<1>4. ASSUME Rebuild
      PROVE  FALSE
  BY <1>4 DEF Rebuild, TypeOK
<1> QED
  BY <1>1, <1>2, <1>3, <1>4 DEF Environment

LEMMA RebuildAccounted ==
  ASSUME TypeOK, TypeOK', Accounted, Rebuild
  PROVE  Accounted'
<1>1. TablesAccounted'
  <2>1. ASSUME NEW s \in Streams
        PROVE  Passed(s, NoState[s])' /\ Below(s, NoState[s])'
    BY OffsetType DEF Passed, Below, NoState, TypeOK, TablesOK
  <2>2. state' = NoState /\ UNCHANGED <<bronze, head>>
    BY DEF Rebuild
  <2>3. ASSUME NEW s \in Streams
        PROVE  Passed(s, state[s])' /\ Below(s, state[s])'
    BY <2>1, <2>2 DEF Passed, Below
  <2> QED
    BY <2>2, <2>3 DEF TablesAccounted, Accounted
<1>2. ASSUME NEW d \in Drivers
      PROVE  DriverAccounted(d)'
  <2>1. batch'[d] = {} /\ saved'[d] = NoState
    BY DEF Rebuild, Idle, memory, Accounted, DriverAccounted
  <2> QED
    BY <2>1, EmptyAccounted
<1> QED
  BY <1>1, <1>2 DEF Accounted

\* Silver and the quarantine only grow in a driver's appends.
LEMMA AppendsGrow ==
  ASSUME TypeOK, TypeOK', UNCHANGED <<bronze, head>>,
         \A s \in Streams : /\ InSilver(s) \subseteq InSilver(s)'
                            /\ quarantine[s] \subseteq quarantine'[s]
  PROVE  Grows
<1>1. ASSUME NEW s \in Streams, NEW p \in Partitions
      PROVE  head[s][p] <= head'[s][p]
  BY DEF TypeOK, TablesOK
<1>2. ASSUME NEW s \in Streams, NEW r \in Row(s), Settled(s, r)
      PROVE  Settled(s, r)'
  BY <1>2, SettledStays
<1> QED
  BY <1>1, <1>2 DEF Grows

\* Ending the run or going on to the next stream leaves nothing to account for.
LEMMA NextStreamClears ==
  ASSUME TypeOK, NEW d \in Drivers, NextStream(d) \/ Exit(d)
  PROVE  /\ batch'[d] = {} /\ saved'[d] = NoState
         /\ \A e \in Drivers \ {d} : KeepsMemory(e)
  BY DEF NextStream, Exit, KeepsMemory, TypeOK, MemoryOK, PerDriver

LEMMA ReadAccounted ==
  ASSUME TypeOK, TypeOK', Accounted, NEW d \in Drivers, ReadBatch(d)
  PROVE  DriverAccounted(d)'
<1> DEFINE s == at[d]
<1>1. s \in Streams /\ at' = at /\ saved' = saved /\ UNCHANGED <<bronze, head, silver, quarantine>>
  BY DEF ReadBatch, TypeOK, MemoryOK, tables
<1>2. batch'[d] = NewRows(s) /\ pc'[d] = "reject" /\ pc[d] = "read"
  BY DEF ReadBatch, TypeOK, MemoryOK, PerDriver
<1>3. saved'[d] = NoState
  BY <1>1, <1>2 DEF Accounted, DriverAccounted
<1>4. ASSUME NEW z \in Streams
      PROVE  Passed(z, saved[d][z])' /\ Below(z, saved[d][z])'
  <2>1. Passed(z, saved[d][z]) /\ Below(z, saved[d][z])
    BY DEF Accounted, DriverAccounted
  <2> QED
    BY <1>1, <2>1 DEF Passed, Below, Settled, InSilver, Quarantined
<1>5. ASSUME NEW b \in NewRows(s), NEW r \in bronze[s], r.part = b.part, r.off <= b.off
      PROVE  r \in NewRows(s) \/ Settled(s, r)'
  <2>1. /\ r.off \in Nat /\ b.off \in Nat /\ r.part \in Partitions
        /\ state[s][r.part] \in Int /\ MaxRows \in Nat
    BY <1>1, OffsetType, CursorType, ConstantsAssumption DEF NewRows, TypeOK, TablesOK
  <2>2. b.off <= state[s][r.part] + MaxRows
    BY <1>5 DEF NewRows
  <2>3. CASE r.off > state[s][r.part]
    BY <1>5, <2>1, <2>2, <2>3 DEF NewRows
  <2>4. CASE r.off <= state[s][r.part]
    <3>1. Settled(s, r)
      BY <1>1, <2>4 DEF Accounted, TablesAccounted, Passed
    <3> QED
      BY <1>1, <3>1 DEF Settled, InSilver, Quarantined
  <2> QED
    BY <2>1, <2>3, <2>4
<1>6. ASSUME NEW r \in NewRows(s)
      PROVE  r.off < head[s][r.part]
  BY <1>1 DEF NewRows, Accounted, TablesAccounted
<1>7. ASSUME NEW b \in batch'[d], NEW r \in bronze'[at'[d]], r.part = b.part, r.off <= b.off
      PROVE  r \in batch'[d] \/ Settled(at[d], r)'
  BY <1>1, <1>2, <1>5, <1>7 DEF Settled, InSilver, Quarantined
<1> QED
  BY <1>1, <1>2, <1>3, <1>4, <1>6, <1>7 DEF DriverAccounted, Handled

\* The steps of a driver that handle its batch: every row stays handled.
LEMMA RejectHandles ==
  ASSUME TypeOK, TypeOK', Accounted, NEW d \in Drivers, QuarantineRejects(d)
  PROVE  Grows /\ DriverAccounted(d)'
<1> DEFINE s == at[d]
<1>1. s \in Streams /\ at' = at /\ batch' = batch /\ saved' = saved /\ batch[d] \in SUBSET Row(s)
  BY DEF QuarantineRejects, TypeOK, MemoryOK
<1>2. quarantine'[s] = quarantine[s] \union Rejected(s, batch[d])
  BY <1>1 DEF QuarantineRejects, TypeOK, TablesOK, PerStream
<1>3. Grows
  BY AppendsGrow DEF QuarantineRejects, InSilver, TypeOK, TablesOK, PerStream
<1>4. pc'[d] = "split" /\ pc[d] = "reject" /\ valid'[d] = {r \in batch[d] : Valid(s, r)}
  BY DEF QuarantineRejects, TypeOK, MemoryOK, PerDriver
<1>5. ASSUME NEW r \in batch[d]
      PROVE  Handled(d, r)'
  <2>1. CASE Valid(s, r)
    BY <1>4, <2>1 DEF Handled
  <2>2. CASE ~Valid(s, r)
    <3>1. PICK q \in Rejected(s, batch[d]) : q.row = r
      BY <1>1, <2>2, InvalidRejected
    <3>2. q \in quarantine'[at'[d]]
      BY <1>1, <1>2
    <3> QED
      BY <3>1, <3>2 DEF Handled, Settled, Quarantined
  <2> QED
    BY <2>1, <2>2
<1>6. saved'[d] = NoState
  BY <1>1, <1>4 DEF Accounted, DriverAccounted
<1> QED
  BY <1>1, <1>3, <1>4, <1>5, <1>6, SavedStays, BatchStays DEF Accounted, DriverAccounted

LEMMA SplitHandles ==
  ASSUME TypeOK, TypeOK', Accounted, NEW d \in Drivers, SplitDuplicates(d)
  PROVE  Grows /\ DriverAccounted(d)'
<1> DEFINE s == at[d]
<1>1. s \in Streams /\ at' = at /\ batch' = batch /\ saved' = saved /\ silver' = silver
  BY DEF SplitDuplicates, TypeOK, MemoryOK
<1>2. PICK new \in SUBSET valid[d] :
         /\ fresh' = [fresh EXCEPT ![d] = new]
         /\ quarantine' = [quarantine EXCEPT ![s] =
                              @ \union {[row |-> r, reason |-> "duplicate"] : r \in valid[d] \ new}]
  BY DEF SplitDuplicates, New
<1>3. fresh'[d] = new /\ pc'[d] = "append" /\ pc[d] = "split"
  BY <1>2 DEF SplitDuplicates, TypeOK, MemoryOK, PerDriver
<1>4. Grows
  BY <1>1, <1>2, AppendsGrow DEF SplitDuplicates, InSilver, TypeOK, TablesOK, PerStream
<1>5. ASSUME NEW r \in valid[d] \ new
      PROVE  Settled(at[d], r)'
  <2>1. [row |-> r, reason |-> "duplicate"] \in quarantine'[at'[d]]
    BY <1>1, <1>2 DEF TypeOK, TablesOK, PerStream
  <2> QED
    BY <2>1 DEF Settled, Quarantined
<1>6. ASSUME NEW r \in batch[d]
      PROVE  Handled(d, r)'
  <2>1. r \in valid[d] \/ Settled(at[d], r)
    BY <1>3 DEF Handled, Accounted, DriverAccounted
  <2>2. CASE r \in new
    BY <1>3, <2>2 DEF Handled
  <2>3. CASE r \in valid[d] \ new
    BY <1>5, <2>3 DEF Handled
  <2>4. CASE Settled(at[d], r)
    <3>1. Settled(at[d], r)'
      BY <1>1, <1>4, <2>4, BatchStays DEF Accounted
    <3> QED
      BY <3>1 DEF Handled
  <2> QED
    BY <2>1, <2>2, <2>3, <2>4
<1>7. saved'[d] = NoState
  BY <1>1, <1>3 DEF Accounted, DriverAccounted
<1> QED
  BY <1>1, <1>3, <1>4, <1>6, <1>7, SavedStays, BatchStays DEF Accounted, DriverAccounted

LEMMA AppendHandles ==
  ASSUME TypeOK, TypeOK', Accounted, NEW d \in Drivers, AppendSilver(d)
  PROVE  Grows /\ DriverAccounted(d)'
<1> DEFINE s == at[d]
<1>1. /\ s \in Streams /\ at' = at /\ batch' = batch /\ saved' = saved
      /\ quarantine' = quarantine /\ UNCHANGED <<bronze, head>>
  BY DEF AppendSilver, TypeOK, MemoryOK
<1>2. pc'[d] = "checkpoint" /\ pc[d] = "append"
  BY DEF AppendSilver, TypeOK, MemoryOK
<1>3. fresh[d] \subseteq Row(s)
  BY DEF TypeOK, MemoryOK
<1>4. /\ \A r \in Row(s) : silver'[s][r] = IF r \in fresh[d] THEN silver[s][r] + 1 ELSE silver[s][r]
      /\ \A z \in Streams \ {s} : silver'[z] = silver[z]
  BY <1>1 DEF AppendSilver, TypeOK, TablesOK, PerStream
<1>5. ASSUME NEW z \in Streams, NEW r \in Row(z)
      PROVE  silver[z][r] \in Nat /\ (silver[z][r] > 0 => silver'[z][r] > 0)
  <2>1. silver[z][r] \in Nat
    BY DEF TypeOK, TablesOK
  <2>2. CASE z = s
    BY <1>4, <2>1, <2>2
  <2>3. CASE z # s
    BY <1>4, <2>1, <2>3
  <2> QED
    BY <2>1, <2>2, <2>3
<1>6. Grows
  BY <1>1, <1>5, AppendsGrow DEF InSilver
<1>7. ASSUME NEW r \in fresh[d]
      PROVE  Settled(at[d], r)'
  <2>1. silver'[at'[d]][r] > 0 /\ r \in Row(at'[d])
    BY <1>1, <1>3, <1>4, <1>5
  <2> QED
    BY <2>1 DEF Settled, InSilver
<1>8. ASSUME NEW r \in batch[d]
      PROVE  Handled(d, r)'
  <2>1. r \in fresh[d] \/ Settled(at[d], r)
    BY <1>2 DEF Handled, Accounted, DriverAccounted
  <2> QED
    BY <1>1, <1>6, <1>7, <2>1, BatchStays DEF Handled, Accounted
<1>9. saved'[d] = NoState
  BY <1>1, <1>2 DEF Accounted, DriverAccounted
<1> QED
  BY <1>1, <1>2, <1>6, <1>8, <1>9, SavedStays, BatchStays DEF Accounted, DriverAccounted

LEMMA CheckpointHandles ==
  ASSUME TypeOK, TypeOK', Accounted, NEW d \in Drivers, CheckpointState(d)
  PROVE  Grows /\ DriverAccounted(d)'
<1>1. /\ at' = at /\ batch' = batch /\ state' = state
      /\ UNCHANGED <<bronze, head, silver, quarantine>>
  BY DEF CheckpointState, tables
<1>2. pc'[d] = "advance" /\ pc[d] = "checkpoint" /\ saved'[d] = state
  BY DEF CheckpointState, TypeOK, MemoryOK, PerDriver
<1>3. Grows
  BY <1>1, SameTablesGrow
<1>4. ASSUME NEW r \in batch[d]
      PROVE  Handled(d, r)'
  BY <1>1, <1>2, <1>3, BatchStays DEF Handled, Accounted, DriverAccounted
<1>5. TablesAccounted'
  BY <1>1, <1>3, TablesStay DEF Accounted
<1>6. ASSUME NEW s \in Streams
      PROVE  Passed(s, saved[d][s])' /\ Below(s, saved[d][s])'
  BY <1>1, <1>2, <1>5 DEF TablesAccounted, Passed, Below
<1> QED
  BY <1>1, <1>2, <1>3, <1>4, <1>6, BatchStays DEF Accounted, DriverAccounted

\* The new state covers settled rows only: what the batch passed was handled,
\* and the entries that are carried over were good when they were read.
LEMMA OverwriteAccounted ==
  ASSUME TypeOK, TypeOK', Accounted, NEW d \in Drivers, OverwriteState(d)
  PROVE  Grows /\ TablesAccounted'
<1> DEFINE s == at[d]
<1>1. /\ s \in Streams /\ batch[d] \subseteq Row(s) /\ state' = NewState(d)
      /\ UNCHANGED <<bronze, head, silver, quarantine>> /\ pc[d] = "advance"
  BY DEF OverwriteState, TypeOK, MemoryOK
<1>2. Grows
  BY <1>1, SameTablesGrow
<1>3. ASSUME NEW p \in Partitions, Done(d, p) # {}
      PROVE  \E b \in batch[d] : b.part = p /\ b.off = Largest(Done(d, p))
  <2>1. Done(d, p) \in SUBSET (0..MaxOffset[s]) /\ MaxOffset[s] \in Nat
    BY <1>1, ConstantsAssumption DEF Done, Row, Offsets
  <2>2. Largest(Done(d, p)) \in Done(d, p)
    BY <1>3, <2>1, LargestExists
  <2> QED
    BY <2>2 DEF Done
<1>4. ASSUME NEW z \in Streams, NEW p \in Partitions
      PROVE  NewState(d)[z][p] < head[z][p]
  <2>1. CASE z = s /\ Done(d, p) # {}
    <3>1. PICK b \in batch[d] : b.part = p /\ b.off = Largest(Done(d, p))
      BY <1>3, <2>1
    <3> QED
      BY <2>1, <3>1 DEF NewState, Accounted, DriverAccounted
  <2>2. CASE ~(z = s /\ Done(d, p) # {})
    BY <2>2 DEF NewState, Below, Accounted, DriverAccounted
  <2> QED
    BY <2>1, <2>2
<1>5. ASSUME NEW z \in Streams, NEW r \in bronze[z], r.off <= NewState(d)[z][r.part]
      PROVE  Settled(z, r)
  <2>1. r \in Row(z) /\ r.part \in Partitions
    BY OffsetType DEF TypeOK, TablesOK
  <2>2. CASE z = s /\ Done(d, r.part) # {}
    <3>1. PICK b \in batch[d] : b.part = r.part /\ b.off = Largest(Done(d, r.part))
      BY <1>3, <2>1, <2>2
    <3>2. r.off <= b.off
      BY <1>5, <2>1, <2>2, <3>1 DEF NewState
    <3>3. r \in batch[d] \/ Settled(s, r)
      BY <2>2, <3>1, <3>2 DEF Accounted, DriverAccounted
    <3> QED
      BY <1>1, <2>2, <3>3 DEF Accounted, DriverAccounted, Handled
  <2>3. CASE ~(z = s /\ Done(d, r.part) # {})
    BY <1>5, <2>1, <2>3 DEF NewState, Passed, Accounted, DriverAccounted
  <2> QED
    BY <2>2, <2>3
<1>6. ASSUME NEW z \in Streams
      PROVE  /\ Passed(z, state[z])'
             /\ Below(z, state[z])'
             /\ \A r \in bronze'[z] : r.off < head'[z][r.part]
  BY <1>1, <1>4, <1>5 DEF Passed, Below, Settled, InSilver, Quarantined, Accounted, TablesAccounted
<1> QED
  BY <1>2, <1>6 DEF TablesAccounted

LEMMA DriverAccounts ==
  ASSUME TypeOK, TypeOK', Accounted, NEW d \in Drivers, Launch(d) \/ Work(d) \/ Crash(d)
  PROVE  Accounted'
<1> SUFFICES /\ Grows
             /\ TablesAccounted'
             /\ DriverAccounted(d)'
             /\ \A e \in Drivers \ {d} : KeepsMemory(e)
  BY DriverStays DEF Accounted
<1> USE DEF TypeOK, MemoryOK, PerDriver, KeepsMemory
<1>1. CASE Launch(d)
  <2>1. UNCHANGED <<tables, batch, saved>> /\ pc[d] = "idle"
    BY <1>1 DEF Launch, Idle
  <2>2. Grows /\ TablesAccounted'
    BY <2>1, SameTablesGrow, TablesStay DEF tables, Accounted
  <2>3. batch'[d] = {} /\ saved'[d] = NoState
    BY <2>1 DEF Accounted, DriverAccounted
  <2> QED
    BY <1>1, <2>2, <2>3, EmptyAccounted DEF Launch
<1>2. CASE ReadBatch(d)
  <2>1. Grows /\ TablesAccounted'
    BY <1>2, SameTablesGrow, TablesStay DEF ReadBatch, tables, Accounted
  <2> QED
    BY <1>2, <2>1, ReadAccounted DEF ReadBatch
<1>3. CASE NothingNew(d) \/ NoDimension(d) \/ Crash(d)
  <2>1. Grows /\ TablesAccounted'
    BY <1>3, SameTablesGrow, TablesStay DEF NothingNew, NoDimension, Crash, tables, Accounted
  <2>2. NextStream(d) \/ Exit(d)
    BY <1>3 DEF NothingNew, NoDimension, Crash
  <2> QED
    BY <2>1, <2>2, NextStreamClears, EmptyAccounted
<1>4. CASE QuarantineRejects(d)
  <2>1. TablesAccounted'
    BY <1>4, RejectHandles, TablesStay DEF QuarantineRejects, Accounted
  <2> QED
    BY <1>4, <2>1, RejectHandles DEF QuarantineRejects
<1>5. CASE SplitDuplicates(d)
  <2>1. TablesAccounted'
    BY <1>5, SplitHandles, TablesStay DEF SplitDuplicates, Accounted
  <2>2. Grows /\ DriverAccounted(d)'
    BY <1>5, SplitHandles
  <2>3. ASSUME NEW e \in Drivers \ {d}
        PROVE  KeepsMemory(e)
    BY <1>5 DEF SplitDuplicates
  <2> QED
    BY <2>1, <2>2, <2>3
<1>6. CASE AppendSilver(d)
  <2>1. TablesAccounted'
    BY <1>6, AppendHandles, TablesStay DEF AppendSilver, Accounted
  <2> QED
    BY <1>6, <2>1, AppendHandles DEF AppendSilver
<1>7. CASE CheckpointState(d)
  <2>1. TablesAccounted'
    BY <1>7, CheckpointHandles, TablesStay DEF CheckpointState, tables, Accounted
  <2> QED
    BY <1>7, <2>1, CheckpointHandles DEF CheckpointState
<1>8. CASE OverwriteState(d)
  <2>1. NextStream(d)
    BY <1>8 DEF OverwriteState
  <2> QED
    BY <1>8, <2>1, OverwriteAccounted, NextStreamClears, EmptyAccounted
<1> QED
  BY <1>1, <1>2, <1>3, <1>4, <1>5, <1>6, <1>7, <1>8 DEF Work

LEMMA InitAccounted == Init => Accounted
<1> SUFFICES ASSUME Init PROVE Accounted
  OBVIOUS
<1>1. ASSUME NEW s \in Streams
      PROVE  Passed(s, NoState[s]) /\ Below(s, NoState[s])
  BY DEF Init, NoRows, NoState, Passed, Below
<1>2. state = NoState /\ bronze = NoRows /\ \A d \in Drivers : batch[d] = {} /\ saved[d] = NoState
  BY DEF Init
<1>3. TablesAccounted
  BY <1>1, <1>2 DEF TablesAccounted, NoRows
<1>4. \A d \in Drivers : DriverAccounted(d)
  BY <1>1, <1>2 DEF DriverAccounted
<1> QED
  BY <1>3, <1>4 DEF Accounted

LEMMA AccountedAlways == Spec => []Accounted
<1>1. Init => Accounted
  BY InitAccounted
<1>2. TypeOK /\ TypeOK' /\ Accounted /\ [Next]_vars => Accounted'
  <2> SUFFICES ASSUME TypeOK, TypeOK', Accounted, [Next]_vars
               PROVE  Accounted'
    OBVIOUS
  <2>1. CASE Environment /\ rebuilds' = rebuilds
    <3>1. Grows /\ UNCHANGED <<state, memory>>
      BY <2>1, EnvironmentGrows
    <3>2. \A d \in Drivers : KeepsMemory(d)
      BY <3>1 DEF memory, KeepsMemory
    <3> QED
      BY <3>1, <3>2, TablesStay, DriverStays DEF Accounted
  <2>2. CASE Environment /\ rebuilds' # rebuilds
    <3>1. Rebuild
      BY <2>2 DEF Environment, Ingest, ExpireBronze, LoadDims, bounds
    <3> QED
      BY <3>1, RebuildAccounted
  <2>3. CASE \E d \in Drivers : Launch(d) \/ Work(d) \/ Crash(d)
    BY <2>3, DriverAccounts
  <2>4. CASE UNCHANGED vars
    <3>1. Grows /\ state' = state /\ \A d \in Drivers : KeepsMemory(d)
      BY <2>4, SameTablesGrow DEF vars, tables, memory, KeepsMemory
    <3> QED
      BY <3>1, TablesStay, DriverStays DEF Accounted
  <2> QED
    BY <2>1, <2>2, <2>3, <2>4 DEF Next
<1> QED
  BY <1>1, <1>2, TypeCorrect, PTL DEF Spec

\* However many drivers run at once and wherever they die, a bronze row behind
\* the stored offset is in silver or in the quarantine.
THEOREM NothingIsLost == Spec => []NothingLost
<1>1. Accounted => NothingLost
  BY DEF Accounted, TablesAccounted, NothingLost
<1> QED
  BY <1>1, AccountedAlways, PTL

----------------------------------------------------------------------------
(***************************************************************************)
(* Keys are unique while drivers exclude each other.                       *)
(***************************************************************************)

\* Which drivers are busy changes by Launch only to one more.
LEMMA SoloStays ==
  ASSUME TypeOK, Exclusive, Solo, NEW d \in Drivers, Launch(d) \/ Work(d) \/ Crash(d)
  PROVE  Solo'
<1>1. \A e \in Drivers \ {d} : pc'[e] = pc[e]
  BY DEF Work, Launch, Crash, ReadBatch, NothingNew, QuarantineRejects, NoDimension, SplitDuplicates,
     AppendSilver, CheckpointState, OverwriteState, NextStream, Exit, TypeOK, MemoryOK
<1>2. CASE Launch(d)
  BY <1>1, <1>2 DEF Launch, Solo, Idle
<1>3. CASE Work(d) \/ Crash(d)
  <2>1. ~Idle(d)
    BY <1>3 DEF Work, Crash, ReadBatch, NothingNew, QuarantineRejects, NoDimension, SplitDuplicates,
       AppendSilver, CheckpointState, OverwriteState, Idle
  <2> QED
    BY <1>1, <2>1 DEF Solo, Idle
<1> QED
  BY <1>2, <1>3

\* Steps that leave silver alone and add nothing to what drivers will append.
LEMMA KeysStay ==
  ASSUME TypeOK, TypeOK', UniqueKeys, silver' = silver,
         \A e \in Drivers : FreshKeys(e),
         \A e \in Drivers : fresh'[e] = {} \/ (fresh'[e] = fresh[e] /\ at'[e] = at[e])
  PROVE  UniqueKeys' /\ \A e \in Drivers : FreshKeys(e)'
  BY DEF UniqueKeys, FreshKeys, InSilver, SilverKeys

\* split_duplicates leaves distinct keys that silver does not have.
LEMMA SplitKeys ==
  ASSUME TypeOK, TypeOK', KeysExclusive, NEW d \in Drivers, SplitDuplicates(d)
  PROVE  UniqueKeys' /\ \A e \in Drivers : FreshKeys(e)'
<1> DEFINE s == at[d]
<1>1. PICK firsts \in SUBSET valid[d] :
         FirstPerKey(valid[d], firsts) /\ fresh' = [fresh EXCEPT ![d] = New(s, firsts)]
  BY DEF SplitDuplicates
<1>2. silver' = silver /\ at' = at
  BY DEF SplitDuplicates
<1>3. fresh'[d] = New(s, firsts) /\ \A e \in Drivers \ {d} : fresh'[e] = fresh[e]
  BY <1>1 DEF TypeOK, MemoryOK, PerDriver
<1>4. FreshKeys(d)'
  BY <1>1, <1>2, <1>3 DEF FreshKeys, New, FirstPerKey, SilverKeys, InSilver
<1>5. ASSUME NEW e \in Drivers \ {d}
      PROVE  FreshKeys(e)'
  BY <1>2, <1>3 DEF KeysExclusive, FreshKeys, SilverKeys, InSilver
<1>6. UniqueKeys'
  BY <1>2 DEF KeysExclusive, UniqueKeys, InSilver
<1> QED
  BY <1>4, <1>5, <1>6

\* The append adds each of these keys once; no other driver has rows to append.
LEMMA AppendKeys ==
  ASSUME TypeOK, TypeOK', KeysExclusive, NEW d \in Drivers, AppendSilver(d)
  PROVE  UniqueKeys' /\ \A e \in Drivers : FreshKeys(e)'
<1> DEFINE s == at[d]
<1>1. s \in Streams /\ fresh[d] \subseteq Row(s) /\ pc[d] = "append" /\ at' = at
  BY DEF AppendSilver, TypeOK, MemoryOK
<1>2. \A e \in Drivers : fresh'[e] = {}
  BY <1>1 DEF AppendSilver, KeysExclusive, Solo, Idle, TypeOK, MemoryOK, PerDriver
<1>3. /\ \A r \in Row(s) : silver'[s][r] = IF r \in fresh[d] THEN silver[s][r] + 1 ELSE silver[s][r]
      /\ \A z \in Streams \ {s} : silver'[z] = silver[z]
  BY <1>1 DEF AppendSilver, TypeOK, TablesOK, PerStream
<1>4. ASSUME NEW r \in Row(s)
      PROVE  silver[s][r] \in Nat
  BY <1>1 DEF TypeOK, TablesOK
<1>5. ASSUME NEW r \in fresh[d]
      PROVE  silver[s][r] = 0
  BY <1>1, <1>4 DEF KeysExclusive, FreshKeys, SilverKeys, InSilver
<1>6. ASSUME NEW r \in InSilver(s)'
      PROVE  r \in fresh[d] \/ r \in InSilver(s)
  BY <1>1, <1>3 DEF InSilver
<1>7. ASSUME NEW q \in InSilver(s)', NEW r \in InSilver(s)', Key(q) = Key(r)
      PROVE  q = r
  <2>1. CASE q \in fresh[d] /\ r \in fresh[d]
    BY <1>7, <2>1 DEF KeysExclusive, FreshKeys
  <2>2. CASE q \in fresh[d] /\ r \in InSilver(s)
    BY <1>7, <2>2 DEF KeysExclusive, FreshKeys, SilverKeys
  <2>3. CASE q \in InSilver(s) /\ r \in fresh[d]
    BY <1>7, <2>3 DEF KeysExclusive, FreshKeys, SilverKeys
  <2>4. CASE q \in InSilver(s) /\ r \in InSilver(s)
    BY <1>1, <1>7, <2>4 DEF KeysExclusive, UniqueKeys
  <2> QED
    BY <1>6, <2>1, <2>2, <2>3, <2>4
<1>8. ASSUME NEW r \in InSilver(s)'
      PROVE  silver'[s][r] = 1
  <2>1. r \in Row(s)
    BY <1>1 DEF InSilver
  <2>2. CASE r \in fresh[d]
    BY <1>3, <1>5, <2>1, <2>2
  <2>3. CASE r \notin fresh[d]
    BY <1>1, <1>3, <1>6, <2>1, <2>3 DEF KeysExclusive, UniqueKeys
  <2> QED
    BY <2>2, <2>3
<1>9. ASSUME NEW z \in Streams, NEW q \in InSilver(z)', NEW r \in InSilver(z)'
      PROVE  (Key(q) = Key(r) => q = r) /\ silver'[z][r] = 1
  <2>1. CASE z = s
    BY <1>1, <1>7, <1>8, <2>1 DEF InSilver
  <2>2. CASE z # s
    BY <1>3, <2>2 DEF KeysExclusive, UniqueKeys, InSilver
  <2> QED
    BY <2>1, <2>2
<1> QED
  BY <1>2, <1>9 DEF UniqueKeys, FreshKeys

\* Only split_duplicates gives a driver rows to append.
LEMMA FreshStays ==
  ASSUME TypeOK, TypeOK', NEW d \in Drivers, Launch(d) \/ Work(d) \/ Crash(d), ~SplitDuplicates(d)
  PROVE  \A e \in Drivers : fresh'[e] = {} \/ (fresh'[e] = fresh[e] /\ at'[e] = at[e])
<1> SUFFICES ASSUME NEW e \in Drivers
             PROVE  fresh'[e] = {} \/ (fresh'[e] = fresh[e] /\ at'[e] = at[e])
  OBVIOUS
<1>1. CASE fresh' = fresh /\ at' = at
  BY <1>1
<1>2. CASE NextStream(d) \/ Exit(d)
  <2>1. CASE e = d
    <3>1. CASE Exit(d)
      BY <2>1, <3>1 DEF Exit, TypeOK, MemoryOK, PerDriver
    <3>2. CASE fresh' = fresh /\ pc[d] # "append"
      BY <2>1, <3>2 DEF TypeOK, MemoryOK
    <3>3. NothingNew(d) \/ OverwriteState(d) \/ NoDimension(d) \/ Crash(d)
             => Exit(d) \/ pc[d] # "append"
      BY DEF NothingNew, OverwriteState, NoDimension, Crash
    <3>4. fresh' = fresh \/ Exit(d)
      BY <1>2 DEF NextStream
    <3>5. Launch(d) \/ ReadBatch(d) \/ QuarantineRejects(d) \/ CheckpointState(d) => fresh' = fresh /\ pc[d] # "append"
      BY DEF Launch, ReadBatch, QuarantineRejects, CheckpointState, Idle
    <3>6. AppendSilver(d) => fresh'[d] = {}
      BY DEF AppendSilver, TypeOK, MemoryOK, PerDriver
    <3> QED
      BY <2>1, <3>1, <3>2, <3>3, <3>4, <3>5, <3>6 DEF Work
  <2>2. CASE e # d
    BY <1>2, <2>2, NextStreamClears DEF KeepsMemory
  <2> QED
    BY <2>1, <2>2
<1>3. CASE AppendSilver(d)
  BY <1>3 DEF AppendSilver, TypeOK, MemoryOK, PerDriver
<1> QED
  BY <1>1, <1>2, <1>3 DEF Work, Launch, Crash, ReadBatch, NothingNew, QuarantineRejects,
     NoDimension, CheckpointState, OverwriteState

LEMMA DriverKeys ==
  ASSUME TypeOK, TypeOK', Exclusive, KeysExclusive, NEW d \in Drivers,
         Launch(d) \/ Work(d) \/ Crash(d)
  PROVE  KeysExclusive'
<1>1. Solo'
  BY SoloStays DEF KeysExclusive
<1>2. CASE SplitDuplicates(d)
  BY <1>1, <1>2, SplitKeys DEF KeysExclusive
<1>3. CASE AppendSilver(d)
  BY <1>1, <1>3, AppendKeys DEF KeysExclusive
<1>4. CASE ~SplitDuplicates(d) /\ ~AppendSilver(d)
  <2>1. silver' = silver
    BY <1>4 DEF Work, Launch, Crash, ReadBatch, NothingNew, QuarantineRejects, NoDimension,
       CheckpointState, OverwriteState, tables
  <2>2. \A e \in Drivers : fresh'[e] = {} \/ (fresh'[e] = fresh[e] /\ at'[e] = at[e])
    BY <1>4, FreshStays
  <2> QED
    BY <1>1, <2>1, <2>2, KeysStay DEF KeysExclusive
<1> QED
  BY <1>2, <1>3, <1>4

LEMMA EnvironmentKeys ==
  ASSUME TypeOK, TypeOK', KeysExclusive, Environment
  PROVE  KeysExclusive'
<1>1. UNCHANGED memory
  BY DEF Environment, Ingest, ExpireBronze, LoadDims, Rebuild
<1>2. CASE silver' = silver
  BY <1>1, <1>2, KeysStay DEF KeysExclusive, Solo, Idle, memory
<1>3. CASE Rebuild
  <2>1. \A s \in Streams : InSilver(s)' = {}
    BY <1>3 DEF Rebuild, NoSilver, InSilver
  <2>2. \A d \in Drivers : fresh'[d] = {}
    BY <1>3 DEF Rebuild, Idle, memory, TypeOK, MemoryOK
  <2> QED
    BY <1>1, <2>1, <2>2 DEF KeysExclusive, Solo, Idle, UniqueKeys, FreshKeys, memory
<1> QED
  BY <1>2, <1>3 DEF Environment, Ingest, ExpireBronze, LoadDims

LEMMA KeysExclusiveAlways == Exclusive => (Spec => []KeysExclusive)
<1> SUFFICES ASSUME Exclusive
             PROVE  Spec => []KeysExclusive
  OBVIOUS
<1>1. Init => KeysExclusive
  BY DEF Init, KeysExclusive, Solo, Idle, UniqueKeys, InSilver, NoSilver, FreshKeys
<1>2. TypeOK /\ TypeOK' /\ KeysExclusive /\ [Next]_vars => KeysExclusive'
  <2> SUFFICES ASSUME TypeOK, TypeOK', KeysExclusive, [Next]_vars
               PROVE  KeysExclusive'
    OBVIOUS
  <2>1. CASE Environment
    BY <2>1, EnvironmentKeys
  <2>2. CASE \E d \in Drivers : Launch(d) \/ Work(d) \/ Crash(d)
    BY <2>2, DriverKeys
  <2>3. CASE UNCHANGED vars
    BY <2>3, KeysStay DEF vars, tables, memory, KeysExclusive, Solo, Idle
  <2> QED
    BY <2>1, <2>2, <2>3 DEF Next
<1> QED
  BY <1>1, <1>2, TypeCorrect, PTL DEF Spec

\* While at most one driver runs, silver holds one reading per site and time,
\* in a single copy, whatever Kafka redelivers and wherever the driver dies.
THEOREM KeysAreUnique == Exclusive => (Spec => []UniqueKeys)
<1>1. KeysExclusive => UniqueKeys
  BY DEF KeysExclusive
<1> QED
  BY <1>1, KeysExclusiveAlways, PTL

----------------------------------------------------------------------------
(***************************************************************************)
(* A bronze row that the cursor has passed is answered for: silver has its *)
(* key, or a rule refused it.  This is stronger than to be settled, which  *)
(* a row also is as the duplicate of a row that was never appended.        *)
(***************************************************************************)
Refused(s, r) == \E e \in quarantine[s] : e.row = r /\ e.reason # "duplicate"
Answered(s, r) == Key(r) \in SilverKeys(s) \/ Refused(s, r)
Answers(s, cursor) == \A r \in bronze[s] : r.off <= cursor[r.part] => Answered(s, r)

Judged(d, r) ==
    \/ pc[d] = "reject"
    \/ pc[d] = "split" /\ r \in valid[d]
    \/ pc[d] = "append" /\ \E f \in fresh[d] : Key(f) = Key(r)
    \/ Answered(at[d], r)

DriverAnswers(d) ==
    /\ \A s \in Streams : Answers(s, saved[d][s])
    /\ \A r \in batch[d] : Judged(d, r)
    /\ \A b \in batch[d], r \in bronze[at[d]] :
          (r.part = b.part /\ r.off <= b.off) => (r \in batch[d] \/ Answered(at[d], r))

AllAnswered ==
    /\ \A s \in Streams : Answers(s, state[s])
    /\ \A d \in Drivers : DriverAnswers(d)

\* What every step but a rebuild does to the tables.
Gains ==
    \A s \in Streams :
        /\ \A r \in bronze'[s] :
              r \in bronze[s] \/ (head[s][r.part] <= r.off /\ r.off < head'[s][r.part])
        /\ \A p \in Partitions : head[s][p] <= head'[s][p]
        /\ InSilver(s) \subseteq InSilver(s)'
        /\ quarantine[s] \subseteq quarantine'[s]

LEMMA EnvironmentGains ==
  ASSUME TypeOK, TypeOK', Environment, rebuilds' = rebuilds
  PROVE  Gains /\ UNCHANGED <<state, memory>>
<1>1. Grows /\ UNCHANGED <<state, memory>>
  BY EnvironmentGrows
<1>2. ~Rebuild
  BY DEF Rebuild, TypeOK
<1>3. UNCHANGED <<silver, quarantine>>
  BY <1>2 DEF Environment, Ingest, ExpireBronze, LoadDims
<1> QED
  BY <1>1, <1>3 DEF Gains, Grows, InSilver

LEMMA AppendGains ==
  ASSUME TypeOK, TypeOK', NEW d \in Drivers, AppendSilver(d)
  PROVE  /\ \A s \in Streams : InSilver(s) \subseteq InSilver(s)'
         /\ fresh[d] \subseteq InSilver(at[d])'
         /\ InSilver(at[d])' \subseteq InSilver(at[d]) \union fresh[d]
         /\ \A s \in Streams \ {at[d]} : InSilver(s)' = InSilver(s)
<1>1. at[d] \in Streams /\ fresh[d] \subseteq Row(at[d]) /\ at' = at
  BY DEF AppendSilver, TypeOK, MemoryOK
<1>2. /\ \A r \in Row(at[d]) :
            silver'[at[d]][r] = IF r \in fresh[d] THEN silver[at[d]][r] + 1 ELSE silver[at[d]][r]
      /\ \A z \in Streams \ {at[d]} : silver'[z] = silver[z]
  BY <1>1 DEF AppendSilver, TypeOK, TablesOK, PerStream
<1>3. \A r \in Row(at[d]) : silver[at[d]][r] \in Nat
  BY <1>1 DEF TypeOK, TablesOK
<1>4. /\ InSilver(at[d]) \subseteq InSilver(at[d])' /\ fresh[d] \subseteq InSilver(at[d])'
      /\ InSilver(at[d])' \subseteq InSilver(at[d]) \union fresh[d]
  BY <1>1, <1>2, <1>3 DEF InSilver
<1>5. \A z \in Streams \ {at[d]} : InSilver(z)' = InSilver(z)
  BY <1>2 DEF InSilver
<1> QED
  BY <1>1, <1>4, <1>5 DEF InSilver

LEMMA DriverGains ==
  ASSUME TypeOK, TypeOK', NEW d \in Drivers, Launch(d) \/ Work(d) \/ Crash(d)
  PROVE  Gains /\ UNCHANGED <<bronze, head>>
<1>1. UNCHANGED <<bronze, head>>
  BY DEF Launch, Work, Crash, ReadBatch, NothingNew, QuarantineRejects, NoDimension, SplitDuplicates,
     AppendSilver, CheckpointState, OverwriteState, tables
<1>2. \A s \in Streams, p \in Partitions : head[s][p] <= head'[s][p]
  BY <1>1 DEF TypeOK, TablesOK
<1>3. \A s \in Streams : quarantine[s] \subseteq quarantine'[s]
  <2>1. CASE QuarantineRejects(d)
    BY <2>1 DEF QuarantineRejects, TypeOK, TablesOK, PerStream
  <2>2. CASE SplitDuplicates(d)
    BY <2>2 DEF SplitDuplicates, TypeOK, TablesOK, PerStream
  <2>3. CASE ~QuarantineRejects(d) /\ ~SplitDuplicates(d)
    BY <2>3 DEF Launch, Work, Crash, ReadBatch, NothingNew, NoDimension,
       AppendSilver, CheckpointState, OverwriteState, tables
  <2> QED
    BY <2>1, <2>2, <2>3
<1>4. \A s \in Streams : InSilver(s) \subseteq InSilver(s)'
  <2>1. CASE AppendSilver(d)
    BY <2>1, AppendGains
  <2>2. CASE ~AppendSilver(d)
    BY <2>2 DEF Launch, Work, Crash, ReadBatch, NothingNew, NoDimension, QuarantineRejects,
       SplitDuplicates, CheckpointState, OverwriteState, tables, InSilver
  <2> QED
    BY <2>1, <2>2
<1> QED
  BY <1>1, <1>2, <1>3, <1>4 DEF Gains

\* What is answered for stays so.
LEMMA AnsweredStays ==
  ASSUME Gains, NEW s \in Streams, NEW r, Answered(s, r)
  PROVE  Answered(s, r)'
  BY DEF Gains, Answered, Refused, SilverKeys

LEMMA AnswersStay ==
  ASSUME TypeOK, TypeOK', Gains, NEW s \in Streams, NEW c \in Cursor(s), Answers(s, c), Below(s, c)
  PROVE  \A r \in bronze'[s] : r.off <= c[r.part] => Answered(s, r)'
<1> SUFFICES ASSUME NEW r \in bronze'[s], r.off <= c[r.part]
             PROVE  Answered(s, r)'
  OBVIOUS
<1>1. r \in Row(s) /\ r.off \in Nat /\ r.part \in Partitions
  BY OffsetType DEF TypeOK, TablesOK
<1>2. c[r.part] \in Int /\ head[s][r.part] \in Nat /\ c[r.part] < head[s][r.part]
  BY <1>1, CursorType DEF TypeOK, TablesOK, Below
<1>3. r \in bronze[s]
  BY <1>1, <1>2 DEF Gains
<1>4. Answered(s, r)
  BY <1>3 DEF Answers
<1> QED
  BY <1>4, AnsweredStays

LEMMA StateAnswers ==
  ASSUME TypeOK, TypeOK', Accounted, AllAnswered, Gains, state' = state
  PROVE  \A s \in Streams : Answers(s, state[s])'
<1>1. ASSUME NEW s \in Streams
      PROVE  \A r \in bronze'[s] : r.off <= state[s][r.part] => Answered(s, r)'
  BY AnswersStay DEF AllAnswered, Accounted, TablesAccounted, TypeOK, TablesOK
<1> QED
  BY <1>1 DEF Answers

LEMMA SavedAnswers ==
  ASSUME TypeOK, TypeOK', Accounted, AllAnswered, Gains, NEW d \in Drivers, saved'[d] = saved[d]
  PROVE  \A s \in Streams : Answers(s, saved[d][s])'
<1>1. ASSUME NEW s \in Streams
      PROVE  \A r \in bronze'[s] : r.off <= saved[d][s][r.part] => Answered(s, r)'
  <2>1. saved[d][s] \in Cursor(s) /\ Answers(s, saved[d][s]) /\ Below(s, saved[d][s])
    BY DEF AllAnswered, DriverAnswers, Accounted, DriverAccounted, TypeOK, MemoryOK
  <2> QED
    BY <2>1, AnswersStay
<1> QED
  BY <1>1 DEF Answers

\* Of a batch that stays, what was answered for is, and so is every bronze row
\* before one of its rows.
LEMMA BatchAnswers ==
  ASSUME TypeOK, TypeOK', Accounted, AllAnswered, Gains, NEW d \in Drivers,
         at'[d] = at[d], batch'[d] = batch[d]
  PROVE  /\ \A r \in batch'[d] : Answered(at[d], r) => Answered(at[d], r)'
         /\ \A b \in batch'[d], r \in bronze'[at'[d]] :
              (r.part = b.part /\ r.off <= b.off) => (r \in batch'[d] \/ Answered(at[d], r)')
<1> DEFINE s == at[d]
<1>1. s \in Streams /\ batch[d] \subseteq Row(s)
  BY DEF TypeOK, MemoryOK
<1>2. \A r : Answered(at[d], r)' <=> Answered(s, r)'
  BY DEF Answered, Refused, SilverKeys, InSilver
<1>3. \A r : Answered(s, r) => Answered(s, r)'
  BY <1>1, AnsweredStays
<1>4. ASSUME NEW b \in batch[d], NEW r \in bronze'[s], r.part = b.part, r.off <= b.off
      PROVE  r \in batch[d] \/ Answered(s, r)'
  <2>1. /\ r \in Row(s) /\ r.off \in Nat /\ r.part \in Partitions
        /\ b \in Row(s) /\ b.off \in Nat /\ head[s][r.part] \in Nat
    BY <1>1, OffsetType DEF TypeOK, TablesOK
  <2>2. b.off < head[s][r.part]
    BY <1>4 DEF Accounted, DriverAccounted
  <2>3. r \in bronze[s]
    BY <1>1, <1>4, <2>1, <2>2 DEF Gains
  <2>4. r \in batch[d] \/ Answered(s, r)
    BY <1>4, <2>3 DEF AllAnswered, DriverAnswers
  <2> QED
    BY <1>3, <2>4
<1> QED
  BY <1>2, <1>3, <1>4

LEMMA DriverAnswersStay ==
  ASSUME TypeOK, TypeOK', Accounted, AllAnswered, Gains, NEW d \in Drivers, KeepsMemory(d)
  PROVE  DriverAnswers(d)'
<1>1. at'[d] = at[d] /\ batch'[d] = batch[d] /\ saved'[d] = saved[d]
  BY DEF KeepsMemory
<1>2. \A r \in batch'[d] : Judged(d, r)'
  BY <1>1, BatchAnswers DEF Judged, KeepsMemory, AllAnswered, DriverAnswers
<1> QED
  BY <1>1, <1>2, SavedAnswers, BatchAnswers DEF DriverAnswers

LEMMA EmptyAnswers ==
  ASSUME TypeOK', NEW d \in Drivers, batch'[d] = {}, saved'[d] = NoState
  PROVE  DriverAnswers(d)'
<1>1. ASSUME NEW s \in Streams
      PROVE  Answers(s, saved[d][s])'
  BY OffsetType DEF Answers, NoState, TypeOK, TablesOK
<1> QED
  BY <1>1 DEF DriverAnswers

LEMMA ReadAnswers ==
  ASSUME TypeOK, TypeOK', Accounted, AllAnswered, NEW d \in Drivers, ReadBatch(d)
  PROVE  DriverAnswers(d)'
<1> DEFINE s == at[d]
<1>1. s \in Streams /\ at' = at /\ saved' = saved /\ UNCHANGED <<bronze, head, silver, quarantine>>
  BY DEF ReadBatch, TypeOK, MemoryOK, tables
<1>2. batch'[d] = NewRows(s) /\ pc'[d] = "reject"
  BY DEF ReadBatch, TypeOK, MemoryOK, PerDriver
<1>3. \A z \in Streams : Answers(z, saved[d][z])'
  BY <1>1, SavedAnswers, DriverGains DEF Work
<1>4. ASSUME NEW b \in NewRows(s), NEW r \in bronze[s], r.part = b.part, r.off <= b.off
      PROVE  r \in NewRows(s) \/ Answered(s, r)
  <2>1. /\ r.off \in Nat /\ b.off \in Nat /\ r.part \in Partitions
        /\ state[s][r.part] \in Int /\ MaxRows \in Nat
    BY <1>1, OffsetType, CursorType, ConstantsAssumption DEF NewRows, TypeOK, TablesOK
  <2>2. b.off <= state[s][r.part] + MaxRows
    BY <1>4 DEF NewRows
  <2>3. CASE r.off > state[s][r.part]
    BY <1>4, <2>1, <2>2, <2>3 DEF NewRows
  <2>4. CASE r.off <= state[s][r.part]
    BY <1>1, <2>4 DEF AllAnswered, Answers
  <2> QED
    BY <2>1, <2>3, <2>4
<1>5. \A b \in batch'[d], r \in bronze'[at'[d]] :
        (r.part = b.part /\ r.off <= b.off) => (r \in batch'[d] \/ Answered(at[d], r)')
  BY <1>1, <1>2, <1>4 DEF Answered, Refused, SilverKeys, InSilver
<1> QED
  BY <1>2, <1>3, <1>5 DEF DriverAnswers, Judged

\* The quarantine gets the refused rows of the batch.
LEMMA RejectAnswers ==
  ASSUME TypeOK, TypeOK', Accounted, AllAnswered, NEW d \in Drivers, QuarantineRejects(d)
  PROVE  DriverAnswers(d)'
<1> DEFINE s == at[d]
<1>1. s \in Streams /\ at' = at /\ batch' = batch /\ saved' = saved /\ batch[d] \in SUBSET Row(s)
  BY DEF QuarantineRejects, TypeOK, MemoryOK
<1>2. quarantine'[s] = quarantine[s] \union Rejected(s, batch[d])
  BY <1>1 DEF QuarantineRejects, TypeOK, TablesOK, PerStream
<1>3. Gains
  BY DriverGains DEF Work
<1>4. pc'[d] = "split" /\ valid'[d] = {r \in batch[d] : Valid(s, r)}
  BY DEF QuarantineRejects, TypeOK, MemoryOK, PerDriver
<1>5. \A i \in DOMAIN Rules[s] : Rules[s][i] # "duplicate"
  <2>1. CASE s = "weather"
    BY <2>1 DEF Rules, WeatherRules
  <2>2. CASE s = "inverter"
    BY <2>2 DEF Rules, InverterRules
  <2>3. CASE s = "clouds"
    BY <2>3 DEF Rules, CloudRules
  <2> QED
    BY <1>1, <2>1, <2>2, <2>3 DEF Streams
<1>6. ASSUME NEW r \in batch[d]
      PROVE  Judged(d, r)'
  <2>1. CASE Valid(s, r)
    BY <1>4, <2>1 DEF Judged
  <2>2. CASE ~Valid(s, r)
    <3>1. PICK q \in Rejected(s, batch[d]) : q.row = r
      BY <1>1, <2>2, InvalidRejected
    <3>2. q \in quarantine'[at'[d]] /\ q.reason # "duplicate"
      BY <1>1, <1>2, <1>5 DEF Rejected
    <3> QED
      BY <3>1, <3>2 DEF Judged, Answered, Refused
  <2> QED
    BY <2>1, <2>2
<1> QED
  BY <1>1, <1>3, <1>6, SavedAnswers, BatchAnswers DEF DriverAnswers

\* A duplicate has its key in silver, or among the rows about to get there.
LEMMA SplitAnswers ==
  ASSUME TypeOK, TypeOK', Accounted, AllAnswered, NEW d \in Drivers, SplitDuplicates(d)
  PROVE  DriverAnswers(d)'
<1> DEFINE s == at[d]
<1>1. s \in Streams /\ at' = at /\ batch' = batch /\ saved' = saved /\ silver' = silver
  BY DEF SplitDuplicates, TypeOK, MemoryOK
<1>2. Gains
  BY DriverGains DEF Work
<1>3. PICK firsts \in SUBSET valid[d] :
        FirstPerKey(valid[d], firsts) /\ fresh' = [fresh EXCEPT ![d] = New(s, firsts)]
  BY DEF SplitDuplicates
<1>4. fresh'[d] = New(s, firsts) /\ pc'[d] = "append" /\ pc[d] = "split"
  BY <1>3 DEF SplitDuplicates, TypeOK, MemoryOK, PerDriver
<1>5. ASSUME NEW r \in batch[d]
      PROVE  Judged(d, r)'
  <2>1. CASE Answered(at[d], r)
    <3>1. Answered(at[d], r)'
      BY <1>1, <1>2, <2>1, BatchAnswers
    <3> QED
      BY <3>1 DEF Judged
  <2>2. CASE r \in valid[d]
    <3>1. PICK f \in firsts : Key(f) = Key(r)
      BY <1>3, <2>2 DEF FirstPerKey
    <3>2. CASE f \in New(s, firsts)
      BY <1>4, <3>1, <3>2 DEF Judged
    <3>3. CASE f \notin New(s, firsts)
      <4>1. Key(r) \in SilverKeys(s)
        BY <3>1, <3>3 DEF New
      <4>2. Answered(at[d], r)'
        BY <1>1, <4>1 DEF Answered, SilverKeys, InSilver
      <4> QED
        BY <4>2 DEF Judged
    <3> QED
      BY <3>2, <3>3
  <2> QED
    BY <1>4, <2>1, <2>2 DEF AllAnswered, DriverAnswers, Judged
<1> QED
  BY <1>1, <1>2, <1>5, SavedAnswers, BatchAnswers DEF DriverAnswers

LEMMA AppendAnswers ==
  ASSUME TypeOK, TypeOK', Accounted, AllAnswered, NEW d \in Drivers, AppendSilver(d)
  PROVE  DriverAnswers(d)'
<1>1. at' = at /\ batch' = batch /\ saved' = saved /\ pc[d] = "append"
  BY DEF AppendSilver
<1>2. Gains
  BY DriverGains DEF Work
<1>3. ASSUME NEW r \in batch[d]
      PROVE  Judged(d, r)'
  <2>1. CASE Answered(at[d], r)
    <3>1. Answered(at[d], r)'
      BY <1>1, <1>2, <2>1, BatchAnswers
    <3> QED
      BY <3>1 DEF Judged
  <2>2. CASE \E f \in fresh[d] : Key(f) = Key(r)
    <3>1. Key(r) \in SilverKeys(at[d])'
      BY <1>1, <2>2, AppendGains DEF SilverKeys
    <3> QED
      BY <3>1 DEF Judged, Answered
  <2> QED
    BY <1>1, <2>1, <2>2 DEF AllAnswered, DriverAnswers, Judged
<1> QED
  BY <1>1, <1>2, <1>3, SavedAnswers, BatchAnswers DEF DriverAnswers

LEMMA CheckpointAnswers ==
  ASSUME TypeOK, TypeOK', Accounted, AllAnswered, NEW d \in Drivers, CheckpointState(d)
  PROVE  DriverAnswers(d)'
<1>1. at' = at /\ batch' = batch /\ state' = state /\ pc[d] = "checkpoint"
  BY DEF CheckpointState, tables
<1>2. saved'[d] = state
  BY DEF CheckpointState, TypeOK, MemoryOK, PerDriver
<1>3. Gains
  BY DriverGains DEF Work
<1>4. \A s \in Streams : Answers(s, saved[d][s])'
  BY <1>1, <1>2, <1>3, StateAnswers DEF Answers
<1>5. \A r \in batch[d] : Judged(d, r)'
  BY <1>1, <1>3, BatchAnswers DEF Judged, AllAnswered, DriverAnswers
<1> QED
  BY <1>1, <1>3, <1>4, <1>5, BatchAnswers DEF DriverAnswers

LEMMA OverwriteAnswers ==
  ASSUME TypeOK, TypeOK', Accounted, AllAnswered, NEW d \in Drivers, OverwriteState(d)
  PROVE  \A s \in Streams : Answers(s, state[s])'
<1> DEFINE s == at[d]
<1>1. /\ s \in Streams /\ batch[d] \subseteq Row(s) /\ state' = NewState(d)
      /\ UNCHANGED <<bronze, head, silver, quarantine>> /\ pc[d] = "advance"
  BY DEF OverwriteState, TypeOK, MemoryOK
<1>2. ASSUME NEW z \in Streams, NEW r \in bronze[z], r.off <= NewState(d)[z][r.part]
      PROVE  Answered(z, r)
  <2>1. r \in Row(z) /\ r.part \in Partitions
    BY OffsetType DEF TypeOK, TablesOK
  <2>2. CASE z = s /\ Done(d, r.part) # {}
    <3>1. Done(d, r.part) \in SUBSET (0..MaxOffset[s]) /\ MaxOffset[s] \in Nat
      BY <1>1, ConstantsAssumption DEF Done, Row, Offsets
    <3>2. Largest(Done(d, r.part)) \in Done(d, r.part)
      BY <2>2, <3>1, LargestExists
    <3>3. PICK b \in batch[d] : b.part = r.part /\ b.off = Largest(Done(d, r.part))
      BY <3>2 DEF Done
    <3>4. r.off <= b.off
      BY <1>2, <2>1, <2>2, <3>3 DEF NewState
    <3>5. r \in batch[d] \/ Answered(s, r)
      BY <2>2, <3>3, <3>4 DEF AllAnswered, DriverAnswers
    <3> QED
      BY <1>1, <2>2, <3>5 DEF AllAnswered, DriverAnswers, Judged
  <2>3. CASE ~(z = s /\ Done(d, r.part) # {})
    BY <1>2, <2>1, <2>3 DEF NewState, AllAnswered, DriverAnswers, Answers
  <2> QED
    BY <2>2, <2>3
<1> QED
  BY <1>1, <1>2 DEF Answers, Answered, Refused, SilverKeys, InSilver

LEMMA DriverAnswered ==
  ASSUME TypeOK, TypeOK', Accounted, AllAnswered, NEW d \in Drivers, Launch(d) \/ Work(d) \/ Crash(d)
  PROVE  AllAnswered'
<1>1. Gains /\ UNCHANGED <<bronze, head>>
  BY DriverGains
<1> SUFFICES /\ \A s \in Streams : Answers(s, state[s])'
             /\ DriverAnswers(d)'
             /\ \A e \in Drivers \ {d} : KeepsMemory(e)
  BY <1>1, DriverAnswersStay DEF AllAnswered
<1>2. ~OverwriteState(d) => \A s \in Streams : Answers(s, state[s])'
  <2>1. ~OverwriteState(d) => state' = state
    BY DEF Launch, Work, Crash, ReadBatch, NothingNew, NoDimension, QuarantineRejects,
       SplitDuplicates, AppendSilver, CheckpointState, tables
  <2> QED
    BY <1>1, <2>1, StateAnswers
<1>3. CASE Launch(d)
  <2>1. batch'[d] = {} /\ saved'[d] = NoState
    BY <1>3 DEF Launch, Idle, Accounted, DriverAccounted
  <2>2. ~OverwriteState(d)
    BY <1>3 DEF Launch, Idle, OverwriteState
  <2> QED
    BY <1>2, <1>3, <2>1, <2>2, EmptyAnswers DEF Launch, KeepsMemory, TypeOK, MemoryOK
<1>4. CASE NothingNew(d) \/ NoDimension(d) \/ Crash(d) \/ OverwriteState(d)
  <2>1. NextStream(d) \/ Exit(d)
    BY <1>4 DEF NothingNew, NoDimension, Crash, OverwriteState
  <2> QED
    BY <1>2, <2>1, NextStreamClears, EmptyAnswers, OverwriteAnswers
<1>5. CASE ReadBatch(d) \/ QuarantineRejects(d) \/ SplitDuplicates(d) \/ AppendSilver(d) \/ CheckpointState(d)
  <2>1. ~OverwriteState(d)
    BY <1>5 DEF ReadBatch, QuarantineRejects, SplitDuplicates, AppendSilver, CheckpointState, OverwriteState
  <2>2. DriverAnswers(d)'
    BY <1>5, ReadAnswers, RejectAnswers, SplitAnswers, AppendAnswers, CheckpointAnswers
  <2>3. \A e \in Drivers \ {d} : KeepsMemory(e)
    BY <1>5 DEF ReadBatch, QuarantineRejects, SplitDuplicates, AppendSilver, CheckpointState,
       KeepsMemory, TypeOK, MemoryOK, PerDriver
  <2> QED
    BY <1>2, <2>1, <2>2, <2>3
<1> QED
  BY <1>3, <1>4, <1>5 DEF Work

LEMMA AnsweredAlways == Spec => []AllAnswered
<1>1. Init => AllAnswered
  <2> SUFFICES ASSUME Init PROVE AllAnswered
    OBVIOUS
  <2>1. \A s \in Streams : bronze[s] = {}
    BY DEF Init, NoRows
  <2>2. \A d \in Drivers : batch[d] = {}
    BY DEF Init
  <2> QED
    BY <2>1, <2>2 DEF AllAnswered, DriverAnswers, Answers
<1>2. TypeOK /\ TypeOK' /\ Accounted /\ AllAnswered /\ [Next]_vars => AllAnswered'
  <2> SUFFICES ASSUME TypeOK, TypeOK', Accounted, AllAnswered, [Next]_vars
               PROVE  AllAnswered'
    OBVIOUS
  <2>1. CASE Environment /\ rebuilds' = rebuilds
    <3>1. Gains /\ UNCHANGED <<state, memory>>
      BY <2>1, EnvironmentGains
    <3>2. \A d \in Drivers : KeepsMemory(d)
      BY <3>1 DEF memory, KeepsMemory
    <3> QED
      BY <3>1, <3>2, StateAnswers, DriverAnswersStay DEF AllAnswered
  <2>2. CASE Environment /\ rebuilds' # rebuilds
    <3>1. Rebuild
      BY <2>2 DEF Environment, Ingest, ExpireBronze, LoadDims, bounds
    <3>2. \A d \in Drivers : batch'[d] = {} /\ saved'[d] = NoState
      BY <3>1 DEF Rebuild, Idle, memory, Accounted, DriverAccounted
    <3>3. ASSUME NEW s \in Streams
          PROVE  Answers(s, state[s])'
      <4>1. state' = NoState
        BY <3>1 DEF Rebuild
      <4> QED
        BY <4>1, OffsetType DEF Answers, NoState, TypeOK, TablesOK
    <3> QED
      BY <3>2, <3>3, EmptyAnswers DEF AllAnswered
  <2>3. CASE \E d \in Drivers : Launch(d) \/ Work(d) \/ Crash(d)
    BY <2>3, DriverAnswered
  <2>4. CASE UNCHANGED vars
    <3>1. Gains /\ state' = state /\ \A d \in Drivers : KeepsMemory(d)
      BY <2>4 DEF vars, tables, memory, KeepsMemory, Gains, InSilver, TypeOK, TablesOK
    <3> QED
      BY <3>1, StateAnswers, DriverAnswersStay DEF AllAnswered
  <2> QED
    BY <2>1, <2>2, <2>3, <2>4 DEF Next
<1> QED
  BY <1>1, <1>2, TypeCorrect, AccountedAlways, PTL DEF Spec

\* However many drivers run at once and wherever they die, a row that bronze
\* still has and silver passed as a duplicate has its key in silver, or was
\* refused by a rule in another run.
THEOREM OriginalsExist == Spec => []DuplicatesHaveOriginal
<1>1. TypeOK /\ AllAnswered => DuplicatesHaveOriginal
  BY DEF AllAnswered, Answers, Answered, Refused, DuplicatesHaveOriginal
<1> QED
  BY <1>1, TypeCorrect, AnsweredAlways, PTL

----------------------------------------------------------------------------
(***************************************************************************)
(* The lowest offset wins: what silver has, or a driver is about to append *)
(* to it, has no earlier row of its key in bronze that was not refused.    *)
(***************************************************************************)
Lowest(s, r) ==
    \A q \in bronze[s] :
        (Key(q) = Key(r) /\ q.part = r.part /\ q.off < r.off) => Refused(s, q)

AllLowest ==
    /\ \A s \in Streams : \A r \in InSilver(s) : r.off < head[s][r.part] /\ Lowest(s, r)
    /\ \A d \in Drivers : \A f \in fresh[d] : Lowest(at[d], f)

\* New rows of bronze come after it.
LEMMA LowestStays ==
  ASSUME TypeOK, TypeOK', Gains, NEW s \in Streams, NEW r \in Row(s),
         r.off < head[s][r.part], Lowest(s, r)
  PROVE  r.off < head'[s][r.part] /\ Lowest(s, r)'
<1>1. /\ r.off \in Nat /\ r.part \in Partitions
      /\ head[s][r.part] \in Nat /\ head'[s][r.part] \in Nat /\ head[s][r.part] <= head'[s][r.part]
  BY OffsetType DEF Gains, TypeOK, TablesOK
<1>2. ASSUME NEW q \in bronze'[s], Key(q) = Key(r), q.part = r.part, q.off < r.off
      PROVE  Refused(s, q)'
  <2>1. q.off \in Nat
    BY OffsetType DEF TypeOK, TablesOK
  <2>2. q \in bronze[s]
    BY <1>1, <1>2, <2>1 DEF Gains
  <2>3. Refused(s, q)
    BY <1>2, <2>2 DEF Lowest
  <2> QED
    BY <2>3 DEF Gains, Refused
<1> QED
  BY <1>1, <1>2 DEF Lowest

\* Of the rows of a key split_duplicates takes the lowest offset, and only if
\* silver does not have the key.
LEMMA SplitLowest ==
  ASSUME TypeOK, TypeOK', Accounted, AllAnswered, NEW d \in Drivers, SplitDuplicates(d)
  PROVE  \A f \in fresh'[d] : f \in batch[d] /\ Lowest(at[d], f)
<1> DEFINE s == at[d]
<1>1. PICK firsts \in SUBSET valid[d] :
        FirstPerKey(valid[d], firsts) /\ fresh' = [fresh EXCEPT ![d] = New(s, firsts)]
  BY DEF SplitDuplicates
<1>2. fresh'[d] = New(s, firsts) /\ valid[d] \subseteq batch[d] /\ pc[d] = "split"
  BY <1>1 DEF SplitDuplicates, TypeOK, MemoryOK, PerDriver
<1>3. ASSUME NEW f \in New(s, firsts), NEW q \in bronze[s], Key(q) = Key(f), q.part = f.part, q.off < f.off
      PROVE  Refused(s, q)
  <2>1. s \in Streams /\ f \in batch[d] /\ batch[d] \subseteq Row(s) /\ q \in Row(s)
    BY <1>2 DEF New, TypeOK, MemoryOK, TablesOK
  <2>2. q.off \in Nat /\ f.off \in Nat
    BY <2>1, OffsetType
  <2>3. q \in batch[d] \/ Answered(s, q)
    BY <1>3, <2>1, <2>2 DEF AllAnswered, DriverAnswers
  <2>4. q \in valid[d] \/ Answered(s, q)
    BY <1>2, <2>3 DEF AllAnswered, DriverAnswers, Judged
  <2>5. q \notin valid[d]
    <3>1. SUFFICES ASSUME q \in valid[d] PROVE FALSE
      OBVIOUS
    <3>2. PICK g \in firsts : Key(g) = Key(q) /\ g.off <= q.off
      BY <1>1, <3>1 DEF FirstPerKey
    <3>3. g = f
      BY <1>1, <1>3, <3>2 DEF FirstPerKey, New
    <3> QED
      BY <1>3, <2>2, <3>2, <3>3
  <2>6. Key(q) \notin SilverKeys(s)
    BY <1>3 DEF New
  <2> QED
    BY <2>4, <2>5, <2>6 DEF Answered
<1> QED
  BY <1>2, <1>3 DEF New, Lowest

LEMMA LowestAlways == Spec => []AllLowest
<1>1. Init => AllLowest
  BY DEF Init, AllLowest, InSilver, NoSilver
<1>2. TypeOK /\ TypeOK' /\ Accounted /\ AllAnswered /\ AllLowest /\ [Next]_vars => AllLowest'
  <2> SUFFICES ASSUME TypeOK, TypeOK', Accounted, AllAnswered, AllLowest, [Next]_vars
               PROVE  AllLowest'
    OBVIOUS
  <2>1. ASSUME NEW d \in Drivers, NEW f \in fresh[d]
        PROVE  /\ at[d] \in Streams /\ f \in Row(at[d])
               /\ f.off < head[at[d]][f.part] /\ Lowest(at[d], f)
    BY DEF AllLowest, Accounted, DriverAccounted, TypeOK, MemoryOK
  <2>2. ASSUME NEW s \in Streams, NEW r \in InSilver(s)
        PROVE  r \in Row(s) /\ r.off < head[s][r.part] /\ Lowest(s, r)
    BY DEF AllLowest, InSilver
  <2>3. ASSUME Gains, NEW d \in Drivers, NEW f \in fresh[d], at'[d] = at[d]
        PROVE  f.off < head'[at[d]][f.part] /\ Lowest(at[d], f)'
    <3> DEFINE s == at[d]
    <3>1. f.off < head'[s][f.part] /\ Lowest(s, f)'
      BY <2>1, <2>3, LowestStays
    <3> QED
      BY <2>3, <3>1 DEF Lowest, Refused
  <2>4. ASSUME Gains, NEW s \in Streams, NEW r \in InSilver(s)
        PROVE  r.off < head'[s][r.part] /\ Lowest(s, r)'
    BY <2>2, <2>4, LowestStays
  <2>5. CASE /\ Gains
             /\ \A s \in Streams : InSilver(s)' = InSilver(s)
             /\ \A d \in Drivers : fresh'[d] = {} \/ (fresh'[d] = fresh[d] /\ at'[d] = at[d])
    BY <2>3, <2>4, <2>5 DEF AllLowest
  <2>6. CASE Environment /\ rebuilds' = rebuilds
    <3>1. Gains /\ UNCHANGED memory
      BY <2>6, EnvironmentGains
    <3>2. silver' = silver
      BY <2>6 DEF Environment, Ingest, ExpireBronze, LoadDims, Rebuild, TypeOK
    <3> QED
      BY <2>5, <3>1, <3>2 DEF memory, InSilver
  <2>7. CASE Environment /\ rebuilds' # rebuilds
    <3>1. Rebuild
      BY <2>7 DEF Environment, Ingest, ExpireBronze, LoadDims, bounds
    <3>2. (\A s \in Streams : InSilver(s)' = {}) /\ \A d \in Drivers : fresh'[d] = {}
      BY <3>1 DEF Rebuild, NoSilver, InSilver, Idle, memory, TypeOK, MemoryOK
    <3> QED
      BY <3>2 DEF AllLowest
  <2>8. ASSUME NEW d \in Drivers, Launch(d) \/ Work(d) \/ Crash(d)
        PROVE  AllLowest'
    <3>1. Gains /\ UNCHANGED <<bronze, head>>
      BY <2>8, DriverGains
    <3>2. CASE SplitDuplicates(d)
      <4>1. silver' = silver /\ at' = at /\ \A e \in Drivers \ {d} : fresh'[e] = fresh[e]
        BY <3>2 DEF SplitDuplicates, TypeOK, MemoryOK, PerDriver
      <4>2. ASSUME NEW f \in fresh'[d]
            PROVE  Lowest(at[d], f)'
        <5> DEFINE s == at[d]
        <5>1. s \in Streams /\ f \in Row(s) /\ f.off < head[s][f.part] /\ Lowest(s, f)
          BY <3>2, SplitLowest DEF Accounted, DriverAccounted, TypeOK, MemoryOK
        <5> QED
          BY <3>1, <4>1, <5>1, LowestStays
      <4>3. \A s \in Streams : \A r \in InSilver(s)' : r.off < head'[s][r.part] /\ Lowest(s, r)'
        BY <2>4, <3>1, <4>1 DEF InSilver
      <4> QED
        BY <2>3, <3>1, <4>1, <4>2, <4>3 DEF AllLowest
    <3>3. CASE AppendSilver(d)
      <4>1. ASSUME NEW s \in Streams, NEW r \in InSilver(s)'
            PROVE  r.off < head'[s][r.part] /\ Lowest(s, r)'
        <5>1. r \in InSilver(s) \/ (s = at[d] /\ r \in fresh[d])
          BY <3>3, AppendGains DEF AppendSilver, InSilver
        <5>2. CASE s = at[d] /\ r \in fresh[d]
          BY <2>1, <3>1, <5>2, LowestStays
        <5> QED
          BY <2>4, <3>1, <5>1, <5>2
      <4>2. \A e \in Drivers : fresh'[e] = {} \/ (fresh'[e] = fresh[e] /\ at'[e] = at[e])
        BY <2>8, <3>3, FreshStays DEF AppendSilver, SplitDuplicates
      <4> QED
        BY <2>3, <3>1, <4>1, <4>2 DEF AllLowest
    <3>4. CASE ~SplitDuplicates(d) /\ ~AppendSilver(d)
      <4>1. silver' = silver
        BY <2>8, <3>4 DEF Work, Launch, Crash, ReadBatch, NothingNew, QuarantineRejects, NoDimension,
           CheckpointState, OverwriteState, tables
      <4> QED
        BY <2>5, <2>8, <3>1, <3>4, <4>1, FreshStays DEF InSilver
    <3> QED
      BY <3>2, <3>3, <3>4
  <2>9. CASE UNCHANGED vars
    BY <2>9 DEF vars, tables, memory, AllLowest, Lowest, Refused, InSilver
  <2> QED
    BY <2>6, <2>7, <2>8, <2>9 DEF Next
<1> QED
  BY <1>1, <1>2, TypeCorrect, AccountedAlways, AnsweredAlways, PTL DEF Spec

\* Of the rows of a key silver keeps the one of the lowest offset that no rule
\* refused, over all runs, crashes and drivers.
THEOREM LowestIsKept == Spec => []LowestOffsetWins
<1>1. TypeOK /\ AllLowest => LowestOffsetWins
  BY DEF AllLowest, Lowest, Refused, LowestOffsetWins
<1> QED
  BY <1>1, TypeCorrect, LowestAlways, PTL

----------------------------------------------------------------------------
(***************************************************************************)
(* The stored offsets do not go back while drivers exclude each other: the *)
(* rows of a batch are behind them, and no one else stores any between the *)
(* checkpoint and the overwrite.                                           *)
(***************************************************************************)
Ahead(d) ==
    /\ \A r \in batch[d] : r.off > state[at[d]][r.part]
    /\ pc[d] = "advance" => saved[d] = state

AllAhead == \A d \in Drivers : Ahead(d)

LEMMA DriverAhead ==
  ASSUME TypeOK, TypeOK', Accounted, KeysExclusive, AllAhead,
         NEW d \in Drivers, Launch(d) \/ Work(d) \/ Crash(d)
  PROVE  AllAhead'
<1> USE DEF TypeOK, MemoryOK, PerDriver
<1>1. \A e \in Drivers \ {d} : KeepsMemory(e)
  <2>1. NothingNew(d) \/ NoDimension(d) \/ OverwriteState(d) \/ Crash(d) => NextStream(d) \/ Exit(d)
    BY DEF NothingNew, NoDimension, OverwriteState, Crash
  <2> QED
    BY <2>1, NextStreamClears DEF Work, Launch, ReadBatch, QuarantineRejects, SplitDuplicates,
       AppendSilver, CheckpointState, KeepsMemory
<1>2. CASE OverwriteState(d)
  <2>1. batch'[d] = {} /\ pc'[d] # "advance"
    BY <1>2 DEF OverwriteState, NextStream, Exit
  <2>2. ASSUME NEW e \in Drivers \ {d}
        PROVE  batch'[e] = {} /\ pc'[e] # "advance"
    BY <1>1, <1>2 DEF OverwriteState, KeysExclusive, Solo, Idle, KeepsMemory, Accounted, DriverAccounted
  <2> QED
    BY <2>1, <2>2 DEF AllAhead, Ahead
<1>3. CASE ~OverwriteState(d)
  <2>1. state' = state
    BY <1>3 DEF Launch, Work, Crash, ReadBatch, NothingNew, NoDimension, QuarantineRejects,
       SplitDuplicates, AppendSilver, CheckpointState, tables
  <2>2. \A e \in Drivers \ {d} : Ahead(e)'
    BY <1>1, <2>1 DEF AllAhead, Ahead, KeepsMemory
  <2>3. CASE ReadBatch(d)
    <3>1. at' = at /\ batch'[d] = NewRows(at[d]) /\ pc'[d] = "reject"
      BY <2>3 DEF ReadBatch
    <3>2. Ahead(d)'
      BY <2>1, <3>1 DEF NewRows, Ahead
    <3> QED
      BY <2>2, <3>2 DEF AllAhead
  <2>4. CASE CheckpointState(d)
    <3>1. at' = at /\ batch' = batch /\ saved'[d] = state
      BY <2>4 DEF CheckpointState
    <3>2. Ahead(d)'
      BY <2>1, <3>1 DEF AllAhead, Ahead
    <3> QED
      BY <2>2, <3>2 DEF AllAhead
  <2>5. CASE Launch(d) \/ QuarantineRejects(d) \/ SplitDuplicates(d) \/ AppendSilver(d)
    <3>1. at' = at /\ batch' = batch /\ pc'[d] # "advance"
      BY <2>5 DEF Launch, QuarantineRejects, SplitDuplicates, AppendSilver
    <3>2. Ahead(d)'
      BY <2>1, <3>1 DEF AllAhead, Ahead
    <3> QED
      BY <2>2, <3>2 DEF AllAhead
  <2>6. CASE NothingNew(d) \/ NoDimension(d) \/ Crash(d)
    <3>1. NextStream(d) \/ Exit(d)
      BY <2>6 DEF NothingNew, NoDimension, Crash
    <3>2. batch'[d] = {} /\ pc'[d] # "advance"
      BY <3>1 DEF NextStream, Exit
    <3> QED
      BY <2>2, <3>2 DEF AllAhead, Ahead
  <2> QED
    BY <1>3, <2>3, <2>4, <2>5, <2>6 DEF Work
<1> QED
  BY <1>2, <1>3

LEMMA AheadAlways == Exclusive => (Spec => []AllAhead)
<1> SUFFICES ASSUME Exclusive
             PROVE  Spec => []AllAhead
  OBVIOUS
<1>1. Init => AllAhead
  BY DEF Init, AllAhead, Ahead
<1>2. TypeOK /\ TypeOK' /\ Accounted /\ KeysExclusive /\ AllAhead /\ [Next]_vars => AllAhead'
  <2> SUFFICES ASSUME TypeOK, TypeOK', Accounted, KeysExclusive, AllAhead, [Next]_vars
               PROVE  AllAhead'
    OBVIOUS
  <2>1. CASE Environment /\ rebuilds' = rebuilds
    BY <2>1, EnvironmentGains DEF memory, AllAhead, Ahead
  <2>2. CASE Environment /\ rebuilds' # rebuilds
    <3>1. Rebuild
      BY <2>2 DEF Environment, Ingest, ExpireBronze, LoadDims, bounds
    <3>2. \A d \in Drivers : batch'[d] = {} /\ pc'[d] # "advance"
      BY <3>1 DEF Rebuild, Idle, memory, Accounted, DriverAccounted
    <3> QED
      BY <3>2 DEF AllAhead, Ahead
  <2>3. CASE \E d \in Drivers : Launch(d) \/ Work(d) \/ Crash(d)
    BY <2>3, DriverAhead
  <2>4. CASE UNCHANGED vars
    BY <2>4 DEF vars, tables, memory, AllAhead, Ahead
  <2> QED
    BY <2>1, <2>2, <2>3, <2>4 DEF Next
<1> QED
  BY <1>1, <1>2, TypeCorrect, AccountedAlways, KeysExclusiveAlways, PTL DEF Spec

\* Every entry of the new state is the old one, or an offset of the batch.
LEMMA OffsetsGrow ==
  ASSUME TypeOK, TypeOK', AllAhead, [Next]_vars, rebuilds' = rebuilds
  PROVE  \A s \in Streams, p \in Partitions : state'[s][p] >= state[s][p]
<1> SUFFICES ASSUME NEW s \in Streams, NEW p \in Partitions
             PROVE  state'[s][p] >= state[s][p]
  OBVIOUS
<1>1. state[s][p] \in Int /\ state'[s][p] \in Int
  BY CursorType DEF TypeOK, TablesOK
<1>2. ASSUME NEW d \in Drivers, OverwriteState(d)
      PROVE  state'[s][p] >= state[s][p]
  <2>1. /\ batch[d] \subseteq Row(at[d]) /\ at[d] \in Streams
        /\ state' = NewState(d) /\ saved[d] = state
    BY <1>2 DEF OverwriteState, AllAhead, Ahead, TypeOK, MemoryOK
  <2>2. CASE s = at[d] /\ Done(d, p) # {}
    <3>1. Done(d, p) \in SUBSET (0..MaxOffset[s]) /\ MaxOffset[s] \in Nat
      BY <2>1, <2>2, ConstantsAssumption DEF Done, Row, Offsets
    <3>2. Largest(Done(d, p)) \in Done(d, p)
      BY <2>2, <3>1, LargestExists
    <3>3. PICK b \in batch[d] : b.part = p /\ b.off = Largest(Done(d, p))
      BY <3>2 DEF Done
    <3>4. b.off > state[s][p] /\ state'[s][p] = b.off
      BY <2>1, <2>2, <3>3 DEF AllAhead, Ahead, NewState
    <3> QED
      BY <1>1, <3>4
  <2>3. CASE ~(s = at[d] /\ Done(d, p) # {})
    <3>1. state'[s][p] = state[s][p]
      BY <2>1, <2>3 DEF NewState
    <3> QED
      BY <1>1, <3>1
  <2> QED
    BY <2>2, <2>3
<1>3. CASE state' = state
  BY <1>1, <1>3
<1>4. state' = state \/ (\E d \in Drivers : OverwriteState(d)) \/ Rebuild
  BY DEF Next, Environment, Ingest, ExpireBronze, LoadDims, Launch, Work, Crash, ReadBatch, NothingNew,
     NoDimension, QuarantineRejects, SplitDuplicates, AppendSilver, CheckpointState, tables, vars
<1>5. ~Rebuild
  BY DEF Rebuild, TypeOK
<1> QED
  BY <1>2, <1>3, <1>4, <1>5

\* While at most one driver runs, no overwrite of the state takes an offset
\* back, of its own stream or of another one.
THEOREM OffsetsNeverGoBack == Exclusive => (Spec => StateMonotone)
<1> SUFFICES ASSUME Exclusive
             PROVE  Spec => StateMonotone
  OBVIOUS
<1>1. TypeOK /\ TypeOK' /\ AllAhead /\ [Next]_vars
        => [rebuilds' = rebuilds =>
             \A s \in Streams, p \in Partitions : state'[s][p] >= state[s][p]]_vars
  BY OffsetsGrow
<1> QED
  BY <1>1, TypeCorrect, AheadAlways, PTL DEF Spec, StateMonotone

----------------------------------------------------------------------------
(***************************************************************************)
(* The commits of the drivers implement the ledger.                        *)
(***************************************************************************)
SettledRows(s) == InSilver(s) \union Quarantined(s)

LEMMA LedgerKeys ==
  ASSUME NEW s \in Streams
  PROVE  Ledger!KeptKeys(s) = SilverKeys(s)
  BY DEF Ledger!KeptKeys, Ledger!KeyOf, SilverKeys, InSilver, Key

LEMMA InitLedger == Init => Ledger!Init
<1> SUFFICES ASSUME Init PROVE Ledger!Init
  OBVIOUS
<1>1. \A s \in Streams : SettledRows(s) = {}
  BY DEF Init, SettledRows, InSilver, Quarantined, NoSilver, NoRows
<1>2. [s \in Streams |-> SettledRows(s)] = [s \in Streams |-> {}]
  BY <1>1
<1> QED
  BY <1>2 DEF Init, Ledger!Init, NoRows, NoSilver, NoState, SettledRows

\* Steps that append to the quarantine refuse rows.
LEMMA RefusesRows ==
  ASSUME TypeOK, TypeOK', NEW d \in Drivers, QuarantineRejects(d) \/ SplitDuplicates(d)
  PROVE  Ledger!Refuse(at[d])
<1> DEFINE s == at[d]
<1>1. s \in Streams /\ UNCHANGED <<bronze, silver, state>>
  BY DEF QuarantineRejects, SplitDuplicates, TypeOK, MemoryOK
<1>2. \A z \in Streams : quarantine[z] \subseteq quarantine'[z]
  BY DriverGains DEF Gains, Work
<1>3. \A z \in Streams \ {s} : quarantine'[z] = quarantine[z]
  BY DEF QuarantineRejects, SplitDuplicates, TypeOK, TablesOK, PerStream
<1>4. \A z \in Streams : InSilver(z)' = InSilver(z)
  BY <1>1 DEF InSilver
<1>5. \A z \in Streams \ {s} : SettledRows(z)' = SettledRows(z)
  BY <1>3, <1>4 DEF SettledRows, Quarantined
<1>6. \A z \in Streams : SettledRows(z) \subseteq SettledRows(z)'
  BY <1>2, <1>4 DEF SettledRows, Quarantined
<1> DEFINE settled == [z \in Streams |-> SettledRows(z)]
<1>7. settled' = [settled EXCEPT ![s] = settled'[s]] /\ settled[s] \subseteq settled'[s]
  BY <1>1, <1>5, <1>6
<1> QED
  BY <1>1, <1>7 DEF Ledger!Refuse, SettledRows

\* The append keeps rows whose keys were not kept.
LEMMA KeepsRows ==
  ASSUME TypeOK, TypeOK', KeysExclusive, NEW d \in Drivers, AppendSilver(d)
  PROVE  Ledger!Keep(at[d])
<1> DEFINE s == at[d]
<1>1. /\ s \in Streams /\ fresh[d] \subseteq Row(s)
      /\ UNCHANGED <<bronze, state, quarantine, at>>
  BY DEF AppendSilver, TypeOK, MemoryOK
<1>2. /\ DOMAIN silver = Streams /\ DOMAIN silver' = Streams
      /\ \A r \in Row(s) : silver'[s][r] = IF r \in fresh[d] THEN silver[s][r] + 1 ELSE silver[s][r]
      /\ \A z \in Streams \ {s} : silver'[z] = silver[z]
  BY <1>1 DEF AppendSilver, TypeOK, TablesOK, PerStream
<1>3. silver' = [silver EXCEPT ![s] = silver'[s]]
  BY DEF AppendSilver, TypeOK, TablesOK, PerStream
<1>4. \A r \in Row(s) : silver[s][r] \in Nat
  BY <1>1 DEF TypeOK, TablesOK
<1> DEFINE taken == {r \in Row(s) : silver'[s][r] # silver[s][r]}
<1>5. taken = fresh[d]
  BY <1>1, <1>2, <1>4
<1>6. Ledger!Taken(s) = taken
  BY <1>1 DEF Ledger!Taken
<1>7. \A r \in taken : silver'[s][r] = silver[s][r] + 1 /\ Key(r) \notin SilverKeys(s)
  BY <1>1, <1>2, <1>5 DEF KeysExclusive, FreshKeys
<1>8. \A q, r \in taken : Key(q) = Key(r) => q = r
  BY <1>5 DEF KeysExclusive, FreshKeys
<1>9. SettledRows(s)' = SettledRows(s) \union taken /\ \A z \in Streams \ {s} : SettledRows(z)' = SettledRows(z)
  BY <1>1, <1>5, AppendGains DEF SettledRows, Quarantined, AppendSilver
<1> DEFINE settled == [z \in Streams |-> SettledRows(z)]
<1>10. settled' = [settled EXCEPT ![s] = @ \union taken]
  BY <1>1, <1>9
<1> HIDE DEF taken
<1> QED
  BY <1>1, <1>3, <1>6, <1>7, <1>8, <1>10, LedgerKeys DEF Ledger!Keep, Ledger!KeyOf, Key, SettledRows

\* The overwrite of the state moves the cursor on over settled rows.
LEMMA ConfirmsRows ==
  ASSUME TypeOK, TypeOK', Accounted', AllAhead, [Next]_vars, NEW d \in Drivers, OverwriteState(d)
  PROVE  Ledger!Confirm
<1>1. UNCHANGED <<bronze, silver, quarantine, bounds>>
  BY DEF OverwriteState
<1>2. \A s \in Streams, p \in Partitions : state'[s][p] >= state[s][p]
  BY <1>1, OffsetsGrow DEF bounds
<1>3. state' \in [Streams -> [Partitions -> Int]]
  <2>1. \A s \in Streams : \A c \in Cursor(s) : c \in [Partitions -> Int]
    BY ConstantsAssumption DEF Cursor, Offsets
  <2>2. state' = [s \in Streams |-> state'[s]]
    BY DEF OverwriteState, NewState
  <2>3. \A s \in Streams : state'[s] \in Cursor(s)
    BY DEF TypeOK, TablesOK
  <2> QED
    BY <2>1, <2>2, <2>3
<1>4. \A s \in Streams : SettledRows(s)' = SettledRows(s)
  BY <1>1 DEF SettledRows, InSilver, Quarantined
<1>5. ASSUME NEW s \in Streams, NEW r \in bronze[s], r.off <= state'[s][r.part]
      PROVE  r \in SettledRows(s)
  BY <1>1, <1>4, <1>5 DEF Accounted, TablesAccounted, Passed, Settled, SettledRows
<1>6. [s \in Streams |-> SettledRows(s)]' = [s \in Streams |-> SettledRows(s)]
  BY <1>4
<1> QED
  BY <1>1, <1>2, <1>3, <1>5, <1>6 DEF Ledger!Confirm, SettledRows

LEMMA EnvironmentLedger ==
  ASSUME TypeOK, TypeOK', Environment
  PROVE  Ledger!Next \/ UNCHANGED Ledger!ledger
<1>1. ASSUME UNCHANGED <<silver, quarantine, state>>
      PROVE  UNCHANGED <<silver, [s \in Streams |-> SettledRows(s)], state>>
  BY <1>1 DEF SettledRows, InSilver, Quarantined
<1>2. ASSUME NEW s \in Streams, NEW p \in Partitions, Ingest(s, p) \/ ExpireBronze(s, p)
      PROVE  Ledger!Land(s)
  <2>1. UNCHANGED <<silver, [z \in Streams |-> SettledRows(z)], state>>
    BY <1>1, <1>2 DEF Ingest, ExpireBronze
  <2>2. DOMAIN bronze = Streams /\ bronze'[s] \subseteq Row(s)
    BY DEF TypeOK, TablesOK, PerStream
  <2>3. CASE Ingest(s, p)
    <3>1. PICK r : bronze' = [bronze EXCEPT ![s] = @ \union {r}]
      BY <2>3 DEF Ingest
    <3>2. bronze'[s] = bronze[s] \union {r} /\ r \in Row(s)
      BY <2>2, <3>1
    <3>3. bronze' = [bronze EXCEPT ![s] = bronze'[s]]
      BY <2>2, <3>1
    <3> QED
      BY <2>1, <3>2, <3>3 DEF Ledger!Land, SettledRows
  <2>4. CASE ExpireBronze(s, p)
    <3>1. PICK old : bronze' = [bronze EXCEPT ![s] = @ \ old]
      BY <2>4 DEF ExpireBronze
    <3>2. bronze'[s] \subseteq bronze[s] /\ bronze' = [bronze EXCEPT ![s] = bronze'[s]]
      BY <2>2, <3>1
    <3> QED
      BY <2>1, <3>2 DEF Ledger!Land, SettledRows
  <2> QED
    BY <1>2, <2>3, <2>4
<1>3. ASSUME NEW s \in Streams, LoadDims(s)
      PROVE  UNCHANGED Ledger!ledger
  BY <1>1, <1>3 DEF LoadDims, Ledger!ledger, SettledRows
<1>4. CASE Rebuild
  <2>1. \A s \in Streams : SettledRows(s)' = {}
    BY <1>4 DEF Rebuild, SettledRows, InSilver, Quarantined, NoSilver, NoRows
  <2>2. [s \in Streams |-> SettledRows(s)]' = [s \in Streams |-> {}]
    BY <2>1
  <2>3. Ledger!Restart
    BY <1>4, <2>2 DEF Rebuild, Ledger!Restart, NoSilver, NoState, SettledRows
  <2> QED
    BY <2>3 DEF Ledger!Next
<1> QED
  BY <1>2, <1>3, <1>4 DEF Environment, Ledger!Next

\* While at most one driver runs, the commits of silver.py implement the
\* ledger: rows are kept or refused once, a key is kept once, and the cursor
\* only ever moves on, over rows that are settled.
THEOREM CommitsImplementLedger == Exclusive => (Spec => ImplementsLedger)
<1> SUFFICES ASSUME Exclusive
             PROVE  Spec => ImplementsLedger
  OBVIOUS
<1>1. /\ TypeOK /\ TypeOK' /\ Accounted' /\ KeysExclusive /\ AllAhead /\ [Next]_vars
      => [Ledger!Next]_(Ledger!ledger)
  <2> SUFFICES ASSUME TypeOK, TypeOK', Accounted', KeysExclusive, AllAhead, [Next]_vars
               PROVE  Ledger!Next \/ UNCHANGED Ledger!ledger
    OBVIOUS
  <2>1. ASSUME UNCHANGED <<bronze, silver, quarantine, state>>
        PROVE  UNCHANGED Ledger!ledger
    BY <2>1 DEF Ledger!ledger, InSilver, Quarantined
  <2>2. CASE Environment
    BY <2>2, EnvironmentLedger
  <2>3. ASSUME NEW d \in Drivers, Launch(d) \/ Work(d) \/ Crash(d)
        PROVE  Ledger!Next \/ UNCHANGED Ledger!ledger
    <3>1. at[d] \in Streams
      BY DEF TypeOK, MemoryOK
    <3>2. CASE QuarantineRejects(d) \/ SplitDuplicates(d)
      BY <3>1, <3>2, RefusesRows DEF Ledger!Next
    <3>3. CASE AppendSilver(d)
      BY <3>1, <3>3, KeepsRows DEF Ledger!Next
    <3>4. CASE OverwriteState(d)
      BY <3>4, ConfirmsRows DEF Ledger!Next
    <3>5. CASE UNCHANGED tables
      BY <2>1, <3>5 DEF tables
    <3> QED
      BY <2>3, <3>2, <3>3, <3>4, <3>5 DEF Launch, Work, Crash, ReadBatch, NothingNew, NoDimension,
         CheckpointState
  <2>4. CASE UNCHANGED vars
    BY <2>1, <2>4 DEF vars, tables
  <2> QED
    BY <2>2, <2>3, <2>4 DEF Next
<1> QED
  BY <1>1, InitLedger, TypeCorrect, AccountedAlways, KeysExclusiveAlways, AheadAlways, PTL
  DEF Spec, ImplementsLedger, Ledger!Spec
=============================================================================
