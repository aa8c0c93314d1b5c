-------------------------- MODULE MasterDataProofs --------------------------
(***************************************************************************)
(* Proofs about MasterData, for all keys, retention times, delays of       *)
(* records and numbers of deployments and crashes.                         *)
(***************************************************************************)
EXTENDS MasterData, SequenceTheorems, WellFoundedInduction, TLAPS

(***************************************************************************)
(* The newest of some records                                              *)
(***************************************************************************)

LEMMA LargestExists ==
  ASSUME NEW n \in Nat, NEW S \in SUBSET (0..n), S # {}
  PROVE  \E m \in S : \A y \in S : y <= m
<1> DEFINE R == OpToRel(<, Nat)
           T == {k \in Nat : n - k \in S}
<1>1. IsWellFoundedOn(R, Nat)
  BY NatLessThanWellFounded
<1>2. \A x, y \in Nat : y < x => <<y, x>> \in R
  BY DEF OpToRel
<1>3. PICK o \in S : TRUE
  OBVIOUS
<1>4. o \in 0..n /\ n - o \in Nat /\ n - (n - o) = o
  BY <1>3
<1>5. T \subseteq Nat /\ n - o \in T
  BY <1>3, <1>4
<1> HIDE DEF R
<1>6. PICK x \in T : \A y \in T : ~(<<y, x>> \in R)
  BY <1>1, <1>5, WFMin
<1>7. x \in Nat /\ n - x \in S /\ \A y \in T : ~(y < x)
  BY <1>2, <1>5, <1>6
<1>8. ASSUME NEW y \in S
      PROVE  y <= n - x
  <2>1. y \in 0..n /\ n - y \in Nat /\ n - (n - y) = y
    BY <1>8
  <2>2. ~(n - y < x)
    BY <1>7, <2>1
  <2> QED
    BY <1>7, <2>1, <2>2
<1> QED
  BY <1>7, <1>8

\* Records of a topic: the Kreis of a site is its own, if it is sent at all.
Record(t) ==
    {r \in [key: KeysOf[t], published: 0..MaxTime, arrived: 0..MaxTime, code: Kreise \union {NoCode}] :
        t = "dim_site" => r.code \in {NoCode, CodeOf[r.key]}}

TopicsOK ==
    /\ topic = [t \in Dims |-> topic[t]]
    /\ \A t \in Dims : topic[t] \in Seq(Record(t))

\* Rows repeat the Kreis of their site.
RowsOK(t, rows) ==
    /\ rows \subseteq Rows(t)
    /\ \A q, r \in rows : q.key = r.key => q = r
    /\ t = "dim_site" => \A q \in rows : q.code \in {NoCode, CodeOf[q.key]}

DimsOK ==
    /\ dim = [t \in Dims |-> dim[t]]
    /\ \A t \in Dims : RowsOK(t, dim[t])

DriverOK ==
    /\ at \in 1..3 /\ pc \in {"idle", "count", "replace"}
    /\ crashes \in 0..MaxCrashes

WorldOK ==
    /\ now \in 0..MaxTime
    /\ generator \in {"down", "old", "new"}
    /\ deploys \in 0..MaxDeploys

MasterInv == TopicsOK /\ DimsOK /\ DriverOK /\ WorldOK

LEMMA RecordAt ==
  ASSUME MasterInv, NEW t \in Dims, NEW n \in DOMAIN topic[t]
  PROVE  topic[t][n] \in Record(t) /\ topic[t][n].published \in 0..MaxTime
<1>1. topic[t] \in Seq(Record(t))
  BY DEF MasterInv, TopicsOK
<1>2. n \in 1..Len(topic[t]) /\ topic[t][n] \in Record(t)
  BY <1>1, LenProperties, ElementOfSeq
<1> QED
  BY <1>2 DEF Record

LEMMA NewestIs ==
  ASSUME MasterInv, NEW t \in Dims, NEW S \in SUBSET (DOMAIN topic[t]), S # {}
  PROVE  /\ Newest(t, S) \in S
         /\ \A n \in S : topic[t][n].published <= topic[t][Newest(t, S)].published
<1>1. topic[t] \in Seq(Record(t)) /\ MaxTime \in Nat
  BY ConstantsAssumption DEF MasterInv, TopicsOK
<1>2. Len(topic[t]) \in Nat /\ DOMAIN topic[t] = 1..Len(topic[t])
  BY <1>1, LenProperties
<1>3. \A n \in S : topic[t][n].published \in 0..MaxTime /\ n \in 0..Len(topic[t])
  BY <1>2, RecordAt
<1> DEFINE Days == {topic[t][n].published : n \in S}
<1>11. Days \in SUBSET (0..MaxTime) /\ Days # {}
  BY <1>3
<1>4. PICK d \in Days : \A y \in Days : y <= d
  <2> HIDE DEF Days
  <2> QED
    BY <1>1, <1>11, LargestExists
<1> DEFINE Late == {n \in S : topic[t][n].published = d}
<1>5. Late # {} /\ Late \subseteq 0..Len(topic[t])
  BY <1>3, <1>4
<1>6. PICK m \in Late : \A y \in Late : y <= m
  BY <1>2, <1>5, LargestExists
<1>7. m \in S /\ topic[t][m].published = d /\ \A n \in S : topic[t][n].published <= topic[t][m].published
  BY <1>4, <1>6
<1>8. ASSUME NEW n \in S \ {m}
      PROVE  Newer(t, m, n)
  <2>1. n \in Nat /\ m \in Nat /\ topic[t][n].published \in Nat /\ topic[t][m].published \in Nat
    BY <1>2, <1>3, <1>7
  <2>2. topic[t][n].published = topic[t][m].published => n <= m
    BY <1>6, <1>7
  <2> QED
    BY <1>7, <1>8, <2>1, <2>2 DEF Newer
<1>9. /\ Newest(t, S) \in S
      /\ \A n \in S \ {Newest(t, S)} : Newer(t, Newest(t, S), n)
  BY <1>7, <1>8 DEF Newest
<1>10. ASSUME NEW n \in S
       PROVE  topic[t][n].published <= topic[t][Newest(t, S)].published
  BY <1>3, <1>9 DEF Newer
<1> QED
  BY <1>9, <1>10

----------------------------------------------------------------------------
(***************************************************************************)
(* The rows that replace a table                                           *)
(***************************************************************************)

LEMMA CodeIs ==
  ASSUME MasterInv, NEW t \in Dims, NEW key \in KeysOf[t]
  PROVE  /\ Code(t, key) \in Kreise \union {NoCode}
         /\ t = "dim_site" => Code(t, key) \in {NoCode, CodeOf[key]}
         /\ (\E n \in Offsets(t, key) : topic[t][n].code # NoCode) => Code(t, key) # NoCode
<1> DEFINE coded == {n \in Offsets(t, key) : topic[t][n].code # NoCode}
<1>1. CASE coded = {}
  BY <1>1 DEF Code
<1>2. CASE coded # {}
  <2>1. coded \in SUBSET DOMAIN topic[t]
    BY DEF Offsets
  <2>2. Newest(t, coded) \in coded /\ Code(t, key) = topic[t][Newest(t, coded)].code
    BY <1>2, <2>1, NewestIs DEF Code
  <2>3. PICK n \in coded : n = Newest(t, coded)
    BY <2>2
  <2>4. topic[t][n].key = key /\ topic[t][n].code # NoCode /\ topic[t][n] \in Record(t)
    BY <2>1, RecordAt DEF Offsets
  <2> QED
    BY <2>2, <2>3, <2>4 DEF Record
<1> QED
  BY <1>1, <1>2

LEMMA RowIs ==
  ASSUME MasterInv, NEW t \in Dims, NEW key \in KeysOf[t], Offsets(t, key) # {}
  PROVE  /\ Row(t, key) \in Rows(t)
         /\ Row(t, key).key = key /\ Row(t, key).code = Code(t, key)
         /\ \A n \in Offsets(t, key) : topic[t][n].published <= Row(t, key).published
<1>1. Offsets(t, key) \in SUBSET DOMAIN topic[t]
  BY DEF Offsets
<1>2. /\ Newest(t, Offsets(t, key)) \in Offsets(t, key)
      /\ \A n \in Offsets(t, key) : topic[t][n].published <= topic[t][Newest(t, Offsets(t, key))].published
  BY <1>1, NewestIs
<1>3. topic[t][Newest(t, Offsets(t, key))].published \in 0..MaxTime
  BY <1>1, <1>2, RecordAt
<1> QED
  BY <1>2, <1>3, CodeIs DEF Row, Rows

LEMMA LatestIs ==
  ASSUME MasterInv, NEW t \in Dims
  PROVE  RowsOK(t, Latest(t))
<1>1. ASSUME NEW q \in Latest(t)
      PROVE  /\ q \in Rows(t) /\ q = Row(t, q.key)
             /\ t = "dim_site" => q.code \in {NoCode, CodeOf[q.key]}
  <2>1. PICK key \in KeysOf[t] : q = Row(t, key) /\ Offsets(t, key) # {}
    BY DEF Latest
  <2>2. q \in Rows(t) /\ q.key = key /\ q.code = Code(t, key)
    BY <2>1, RowIs
  <2> QED
    BY <2>1, <2>2, CodeIs
<1> QED
  BY <1>1 DEF RowsOK

----------------------------------------------------------------------------
(***************************************************************************)
(* The invariant                                                           *)
(***************************************************************************)

LEMMA TablesAre == Len(Tables) = 3 /\ \A n \in 1..3 : Tables[n] \in Dims
  BY DEF Tables, Dims

LEMMA InitMaster == Init => MasterInv
<1> SUFFICES ASSUME Init PROVE MasterInv
  OBVIOUS
<1>1. 0 \in 0..MaxTime /\ 0 \in 0..MaxCrashes /\ 0 \in 0..MaxDeploys
  BY ConstantsAssumption
<1>2. TopicsOK
  BY DEF Init, TopicsOK
<1>3. DimsOK
  BY DEF Init, DimsOK, RowsOK
<1> QED
  BY <1>1, <1>2, <1>3 DEF Init, MasterInv, DriverOK, WorldOK

LEMMA Kept ==
  /\ TopicsOK /\ UNCHANGED topic => TopicsOK'
  /\ DimsOK /\ UNCHANGED dim => DimsOK'
  /\ DriverOK /\ UNCHANGED <<driver, crashes>> => DriverOK'
  /\ WorldOK /\ UNCHANGED <<now, generator, deploys>> => WorldOK'
<1>1. TopicsOK /\ UNCHANGED topic => TopicsOK'
  BY DEF TopicsOK
<1>2. DimsOK /\ UNCHANGED dim => DimsOK'
  BY DEF DimsOK
<1> QED
  BY <1>1, <1>2 DEF DriverOK, WorldOK, driver

LEMMA PublishKeeps ==
  ASSUME MasterInv, NEW t \in Dims, NEW key \in KeysOf[t], Publishes(t, key)
  PROVE  MasterInv'
<1>1. PICK published \in Nat \intersect (now - Skew[t])..now :
         topic' = [topic EXCEPT ![t] = Append(@, [key |-> key, code |-> CodeSent(t, key),
                                                  published |-> published, arrived |-> now])]
  BY DEF Publishes
<1> DEFINE record == [key |-> key, code |-> CodeSent(t, key), published |-> published, arrived |-> now]
<1>2. MaxTime \in Nat /\ now \in 0..MaxTime /\ Skew[t] \in Nat
  BY ConstantsAssumption DEF MasterInv, WorldOK
<1>3. published \in 0..MaxTime
  BY <1>2
<1>4. /\ CodeSent(t, key) \in Kreise \union {NoCode}
      /\ t = "dim_site" => CodeSent(t, key) \in {NoCode, CodeOf[key]}
  BY ConstantsAssumption DEF CodeSent, KeysOf
<1>5. record \in Record(t)
  BY <1>2, <1>3, <1>4 DEF Record
<1>6. topic[t] \in Seq(Record(t))
  BY DEF MasterInv, TopicsOK
<1>7. Append(topic[t], record) \in Seq(Record(t))
  BY <1>5, <1>6, AppendProperties
<1>8. topic' = [topic EXCEPT ![t] = Append(topic[t], record)]
  BY <1>1
<1> HIDE DEF record
<1>9. TopicsOK'
  BY <1>7, <1>8 DEF MasterInv, TopicsOK
<1> QED
  BY <1>9, Kept DEF Publishes, MasterInv

LEMMA ExpiryKeeps ==
  ASSUME MasterInv, NEW t \in Dims, Expires(t)
  PROVE  MasterInv'
<1>1. PICK n \in DOMAIN topic[t] : topic' = [topic EXCEPT ![t] = SubSeq(@, n + 1, Len(@))]
  BY DEF Expires
<1>2. topic[t] \in Seq(Record(t)) /\ Len(topic[t]) \in Nat /\ n \in 1..Len(topic[t])
  BY LenProperties DEF MasterInv, TopicsOK
<1>3. \A i \in (n + 1)..Len(topic[t]) : topic[t][i] \in Record(t)
  BY <1>2, ElementOfSeq
<1>4. SubSeq(topic[t], n + 1, Len(topic[t])) \in Seq(Record(t))
  BY <1>2, <1>3, SubSeqProperties
<1>5. topic' = [topic EXCEPT ![t] = SubSeq(topic[t], n + 1, Len(topic[t]))]
  BY <1>1
<1>6. TopicsOK'
  BY <1>4, <1>5 DEF MasterInv, TopicsOK
<1> QED
  BY <1>6, Kept DEF Expires, MasterInv

LEMMA ReplaceKeeps ==
  ASSUME MasterInv, Replaces
  PROVE  MasterInv'
<1>1. PICK t \in Dims : t = Tables[at]
  BY TablesAre DEF MasterInv, DriverOK
<1>2. dim' = [dim EXCEPT ![t] = Latest(t)] /\ RowsOK(t, Latest(t))
  BY <1>1, LatestIs DEF Replaces
<1>3. DimsOK'
  BY <1>2 DEF MasterInv, DimsOK
<1>4. DriverOK'
  BY TablesAre DEF Replaces, GoesOn, MasterInv, DriverOK
<1> QED
  BY <1>3, <1>4, Kept DEF Replaces, MasterInv

LEMMA MasterStep ==
  ASSUME MasterInv, [Next]_vars
  PROVE  MasterInv'
<1>0. MaxTime \in Nat /\ MaxCrashes \in Nat /\ MaxDeploys \in Nat
  BY ConstantsAssumption
<1>1. CASE Deploys
  <2>1. WorldOK'
    BY <1>0, <1>1 DEF MasterInv, Deploys, WorldOK
  <2> QED
    BY <1>1, <2>1, Kept DEF MasterInv, Deploys
<1>2. CASE Tick
  <2>1. WorldOK'
    BY <1>0, <1>2 DEF MasterInv, Tick, WorldOK
  <2> QED
    BY <1>2, <2>1, Kept DEF MasterInv, Tick
<1>3. CASE Launch \/ NothingToLoad \/ Counts
  <2>1. DriverOK'
    BY <1>3, TablesAre DEF MasterInv, Launch, NothingToLoad, Counts, GoesOn, DriverOK
  <2> QED
    BY <1>3, <2>1, Kept DEF MasterInv, Launch, NothingToLoad, Counts
<1>4. CASE Crash
  <2>1. DriverOK'
    BY <1>0, <1>4 DEF MasterInv, Crash, DriverOK
  <2> QED
    BY <1>4, <2>1, Kept DEF MasterInv, Crash
<1>5. CASE UNCHANGED vars
  BY <1>5, Kept DEF MasterInv, vars
<1> QED
  BY <1>1, <1>2, <1>3, <1>4, <1>5, PublishKeeps, ExpiryKeeps, ReplaceKeeps DEF Next

LEMMA MasterInvAlways == Spec => []MasterInv
  BY InitMaster, MasterStep, PTL DEF Spec
----------------------------------------------------------------------------
(***************************************************************************)
(* Theorems                                                                *)
(***************************************************************************)

\* Type correctness, which says that a table has a row per key.
THEOREM MasterTypes == Spec => []TypeOK
<1>1. MasterInv => TypeOK
  <2>1. ASSUME NEW S, NEW T, S \subseteq T, NEW s \in Seq(S)
        PROVE  s \in Seq(T)
    BY <2>1
  <2>2. \A t \in Dims : Record(t) \subseteq
          [key: KeysOf[t], published: 0..MaxTime, arrived: 0..MaxTime, code: Kreise \union {NoCode}]
    BY DEF Record
  <2>3. MasterInv => \A t \in Dims : topic[t] \in
          Seq([key: KeysOf[t], published: 0..MaxTime, arrived: 0..MaxTime, code: Kreise \union {NoCode}])
    BY <2>1, <2>2 DEF MasterInv, TopicsOK
  <2> QED
    BY <2>3, TablesAre DEF MasterInv, TypeOK, DimsOK, RowsOK, DriverOK, WorldOK
<1> QED
  BY <1>1, MasterInvAlways, PTL

\* A step that changes a table replaces it by the rows of the topic, which the
\* step leaves as it is.
LEMMA RowsAfter ==
  ASSUME MasterInv, [Next]_vars, NEW t \in Dims
  PROVE  dim'[t] = dim[t] \/ (dim'[t] = Latest(t) /\ topic' = topic)
<1>1. CASE Replaces
  <2>1. PICK s \in Dims : s = Tables[at]
    BY TablesAre DEF MasterInv, DriverOK
  <2>2. dim' = [dim EXCEPT ![s] = Latest(s)] /\ topic' = topic
    BY <1>1, <2>1 DEF Replaces
  <2> QED
    BY <2>2 DEF MasterInv, DimsOK
<1>2. CASE ~Replaces
  <2>1. dim' = dim
    <3>1. CASE \E s \in Dims : Expires(s) \/ \E key \in KeysOf[s] : Publishes(s, key)
      BY <3>1 DEF Expires, Publishes
    <3>2. CASE Deploys \/ Tick \/ Launch \/ NothingToLoad \/ Counts \/ Crash
      BY <3>2 DEF Deploys, Tick, Launch, NothingToLoad, Counts, Crash
    <3>3. CASE UNCHANGED vars
      BY <3>3 DEF vars
    <3> QED
      BY <1>2, <3>1, <3>2, <3>3 DEF Next
  <2> QED
    BY <2>1
<1> QED
  BY <1>1, <1>2

\* The row that a key of a table has after its replacement.
LEMMA RowOfKey ==
  ASSUME MasterInv, NEW t \in Dims, NEW q \in dim[t], Offsets(t, q.key) # {}
  PROVE  q.key \in KeysOf[t] /\ Row(t, q.key) \in Latest(t) /\ Row(t, q.key).key = q.key
<1>1. q.key \in KeysOf[t]
  BY DEF MasterInv, DimsOK, RowsOK, Rows
<1> QED
  BY <1>1, RowIs DEF Latest

\* Whatever records arrive, expire or come late: a key that a table has stays
\* there as long as Kafka has a record of it, so silver keeps its readings.
THEOREM KnownKeysStay == Spec => KnownStays
<1> DEFINE Stays == \A t \in Dims : \A q \in dim[t] :
                      Offsets(t, q.key)' # {} => \E r \in dim'[t] : r.key = q.key
<1>1. ASSUME MasterInv, [Next]_vars
      PROVE  Stays
  <2> SUFFICES ASSUME NEW t \in Dims, NEW q \in dim[t], Offsets(t, q.key)' # {}
               PROVE  \E r \in dim'[t] : r.key = q.key
    OBVIOUS
  <2>1. CASE dim'[t] = dim[t]
    BY <2>1
  <2>2. CASE dim'[t] = Latest(t) /\ topic' = topic
    <3>1. Offsets(t, q.key) # {}
      BY <2>2 DEF Offsets
    <3> QED
      BY <1>1, <2>2, <3>1, RowOfKey
  <2> QED
    BY <1>1, <2>1, <2>2, RowsAfter
<1> QED
  BY <1>1, MasterInvAlways, PTL DEF Spec, KnownStays

\* Whatever generators are deployed: a site keeps its Kreis as long as Kafka has
\* any record with it, however many newer ones come without.
THEOREM CodesStick == Spec => CodeSticks
<1> DEFINE Sticks == \A q \in dim["dim_site"] :
              q.code # NoCode /\ (\E n \in Offsets("dim_site", q.key)' : topic'["dim_site"][n].code # NoCode) =>
                  \E r \in dim'["dim_site"] : r.key = q.key /\ r.code = q.code
<1>1. ASSUME MasterInv, [Next]_vars
      PROVE  Sticks
  <2>0. "dim_site" \in Dims
    BY DEF Dims
  <2> SUFFICES ASSUME NEW q \in dim["dim_site"], q.code # NoCode,
                      \E n \in Offsets("dim_site", q.key)' : topic'["dim_site"][n].code # NoCode
               PROVE  \E r \in dim'["dim_site"] : r.key = q.key /\ r.code = q.code
    OBVIOUS
  <2>1. CASE dim'["dim_site"] = dim["dim_site"]
    BY <2>1
  <2>2. CASE dim'["dim_site"] = Latest("dim_site") /\ topic' = topic
    <3>1. \E n \in Offsets("dim_site", q.key) : topic["dim_site"][n].code # NoCode
      BY <2>2 DEF Offsets
    <3>2. /\ q.key \in KeysOf["dim_site"] /\ Row("dim_site", q.key) \in Latest("dim_site")
          /\ Row("dim_site", q.key).key = q.key
      BY <1>1, <2>0, <3>1, RowOfKey
    <3>3. Row("dim_site", q.key).code = Code("dim_site", q.key)
      BY DEF Row
    <3>4. Code("dim_site", q.key) = CodeOf[q.key]
      BY <1>1, <2>0, <3>1, <3>2, CodeIs
    <3>5. q.code = CodeOf[q.key]
      BY <1>1, <2>0 DEF MasterInv, DimsOK, RowsOK
    <3> QED
      BY <2>2, <3>2, <3>3, <3>4, <3>5
  <2> QED
    BY <1>1, <2>0, <2>1, <2>2, RowsAfter
<1> QED
  BY <1>1, MasterInvAlways, PTL DEF Spec, CodeSticks

\* Whatever order records arrive in: no row gives way to one published before
\* it while Kafka has one published as late.
THEOREM RowsDoNotAge == Spec => NeverOlder
<1> DEFINE Ages == \A t \in Dims : \A q \in dim[t], r \in dim'[t] :
              q.key = r.key /\ (\E n \in Offsets(t, q.key)' : topic'[t][n].published >= q.published) =>
                  r.published >= q.published
<1>1. ASSUME MasterInv, [Next]_vars
      PROVE  Ages
  <2> SUFFICES ASSUME NEW t \in Dims, NEW q \in dim[t], NEW r \in dim'[t], q.key = r.key,
                      NEW n \in Offsets(t, q.key)', topic'[t][n].published >= q.published
               PROVE  r.published >= q.published
    OBVIOUS
  <2>0. q.published \in Nat /\ q.key \in KeysOf[t]
    BY <1>1 DEF MasterInv, DimsOK, RowsOK, Rows
  <2>1. CASE dim'[t] = dim[t]
    <3>1. r = q
      BY <1>1, <2>1 DEF MasterInv, DimsOK, RowsOK
    <3> QED
      BY <2>0, <3>1
  <2>2. CASE dim'[t] = Latest(t) /\ topic' = topic
    <3>1. n \in Offsets(t, q.key) /\ topic[t][n].published >= q.published
      BY <2>2 DEF Offsets
    <3>2. /\ Row(t, q.key) \in Rows(t) /\ Row(t, q.key).key = q.key /\ Row(t, q.key) \in Latest(t)
          /\ topic[t][n].published <= Row(t, q.key).published
      BY <1>1, <2>0, <3>1, RowIs, RowOfKey
    <3>3. r = Row(t, q.key)
      BY <1>1, <2>2, <3>2, LatestIs DEF RowsOK
    <3>4. topic[t][n].published \in Nat /\ Row(t, q.key).published \in Nat
      BY <1>1, <3>1, <3>2, RecordAt DEF Rows, Offsets
    <3> QED
      BY <2>0, <3>1, <3>2, <3>3, <3>4
  <2> QED
    BY <1>1, <2>1, <2>2, RowsAfter
<1> QED
  BY <1>1, MasterInvAlways, PTL DEF Spec, NeverOlder
=============================================================================
