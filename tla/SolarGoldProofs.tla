-------------------------- MODULE SolarGoldProofs --------------------------
(***************************************************************************)
(* Proofs about SolarGold, for all sites, days, batches of readings and    *)
(* numbers of silver runs, crashes and upgrades.                           *)
(***************************************************************************)
EXTENDS SolarGold, SequenceTheorems, WellFoundedInduction, TLAPS

(***************************************************************************)
(* Smallest and largest elements, slots and days                           *)
(***************************************************************************)

LEMMA MinExists ==
  ASSUME NEW S \in SUBSET Nat, S # {}
  PROVE  Min(S) \in S /\ \A y \in S : Min(S) <= y
<1> DEFINE R == OpToRel(<, Nat)
<1>1. IsWellFoundedOn(R, Nat)
  BY NatLessThanWellFounded
<1>2. \A x, y \in Nat : y < x => <<y, x>> \in R
  BY DEF OpToRel
<1> HIDE DEF R
<1>3. PICK x \in S : \A y \in S : ~(<<y, x>> \in R)
  BY <1>1, WFMin
<1>4. \A y \in S : ~(y < x)
  BY <1>2, <1>3
<1>5. \A y \in S : x <= y
  BY <1>4
<1> QED
  BY <1>5 DEF Min

LEMMA MaxExists ==
  ASSUME NEW n \in Nat, NEW S \in SUBSET (0..n), S # {}
  PROVE  Max(S) \in S /\ \A y \in S : y <= Max(S)
<1> DEFINE T == {k \in Nat : n - k \in S}
<1>1. PICK o \in S : TRUE
  OBVIOUS
<1>2. o \in 0..n /\ n - o \in Nat /\ n - (n - o) = o
  BY <1>1
<1>3. n - o \in T
  BY <1>2
<1>4. PICK x \in T : \A y \in T : x <= y
  BY <1>3, MinExists
<1>5. n - x \in S
  BY <1>4
<1>6. ASSUME NEW y \in S
      PROVE  n - x >= y
  <2>1. y \in 0..n /\ n - y \in Nat /\ n - (n - y) = y
    BY <1>6
  <2>2. n - y \in T
    BY <2>1
  <2>3. x <= n - y /\ x \in Nat
    BY <2>2, <1>4
  <2> QED
    BY <2>1, <2>3
<1>7. \E m \in S : \A y \in S : m >= y
  BY <1>5, <1>6
<1>8. Max(S) \in S /\ \A y \in S : Max(S) >= y
  BY <1>7 DEF Max
<1>9. \A y \in S : y \in Int
  OBVIOUS
<1> QED
  BY <1>8, <1>9

LEMMA SlotsAreNaturals ==
  /\ SlotsPerDay * (MaxDay + 1) - 1 \in Nat
  /\ Slots \subseteq Nat
<1>1. SlotsPerDay \in Nat \ {0} /\ MaxDay \in Nat
  BY ConstantsAssumption
<1>2. SlotsPerDay * (MaxDay + 1) >= 1
  BY <1>1
<1> QED
  BY <1>1, <1>2 DEF Slots

\* Days follow each other as their slots do.
LEMMA DayOrder ==
  ASSUME NEW a \in Nat, NEW b \in Nat
  PROVE  /\ Day(a) \in Nat
         /\ a <= b => Day(a) <= Day(b)
         /\ a < b /\ Day(a) < Day(b) => \E c \in (a + 1)..b : Dark(c)
<1>1. SlotsPerDay \in Nat \ {0}
  BY ConstantsAssumption
<1> DEFINE p == a \div SlotsPerDay
           q == b \div SlotsPerDay
           x == a % SlotsPerDay
           y == b % SlotsPerDay
<1>2. p \in Nat /\ x \in 0..(SlotsPerDay - 1) /\ a = SlotsPerDay * p + x
  BY <1>1
<1>3. q \in Nat /\ y \in 0..(SlotsPerDay - 1) /\ b = SlotsPerDay * q + y
  BY <1>1
<1> HIDE DEF p, q, x, y
<1>4. ASSUME q + 1 <= p
      PROVE  b < a
  <2>1. SlotsPerDay * (q + 1) <= SlotsPerDay * p
    BY <1>1, <1>2, <1>3, <1>4
  <2> QED
    BY <1>1, <1>2, <1>3, <2>1
<1>5. ASSUME a < b, p < q
      PROVE  \E c \in (a + 1)..b : Dark(c)
  <2>1. SlotsPerDay * (p + 1) <= SlotsPerDay * q
    BY <1>1, <1>2, <1>3, <1>5
  <2>2. SlotsPerDay * q \in (a + 1)..b
    BY <1>1, <1>2, <1>3, <2>1
  <2>3. (SlotsPerDay * q) % SlotsPerDay = 0
    BY <1>1, <1>3
  <2> QED
    BY <2>2, <2>3 DEF Dark
<1> QED
  BY <1>2, <1>3, <1>4, <1>5 DEF Day, p, q

----------------------------------------------------------------------------
(***************************************************************************)
(* Types                                                                   *)
(***************************************************************************)

Reading == [site: Sites, slot: Slots, low: BOOLEAN, at: 1..MaxCommits]
Running == pc \in Tables \union {"watermark", "state"}

TypeInv ==
    /\ TypeOK
    /\ snapshot \subseteq Reading
    /\ \A r \in readings \union snapshot : r.at <= commits
    /\ pc = "read" => old = <<>>

LEMMA TablesAre ==
  /\ Tables = {"site_15min", "fleet_15min", "site_daily", "region_daily", "fault_events"}
  /\ KEYED_BY_CODE \in Seq(Tables) /\ Len(KEYED_BY_CODE) = 5
<1>1. Tables = {"site_15min", "fleet_15min", "site_daily", "region_daily", "fault_events"}
  BY DEF Tables, KEYED_BY_CODE, Range
<1> QED
  BY <1>1 DEF KEYED_BY_CODE

\* What is left of the old tables when one has been dropped.
LEMMA OldAre ==
  ASSUME old \in {SubSeq(KEYED_BY_CODE, n, 5) : n \in 1..6}
  PROVE  /\ old # <<>> => Head(old) \in Tables
         /\ old # <<>> => Tail(old) \in {SubSeq(KEYED_BY_CODE, n, 5) : n \in 1..6}
         /\ old = KEYED_BY_CODE => Head(old) = "site_15min"
<1>1. PICK n \in 1..6 : old = SubSeq(KEYED_BY_CODE, n, 5)
  OBVIOUS
<1>2. CASE n = 6
  <2>1. old = <<>>
    BY <1>1, <1>2, SubSeqEmpty
  <2> QED
    BY <2>1 DEF KEYED_BY_CODE
<1>3. CASE n \in 1..5
  <2>3. n \in 1..Len(KEYED_BY_CODE) /\ 5 \in n..Len(KEYED_BY_CODE)
    BY <1>3, TablesAre
  <2>1. Head(old) = KEYED_BY_CODE[n] /\ Tail(old) = SubSeq(KEYED_BY_CODE, n + 1, 5)
    BY <1>1, <2>3, TablesAre, HeadTailOfSubSeq
  <2>2. KEYED_BY_CODE[n] \in Tables
    BY <2>3, TablesAre, ElementOfSeq
  <2> QED
    BY <1>3, <2>1, <2>2 DEF KEYED_BY_CODE
<1>4. n = 6 \/ n \in 1..5
  OBVIOUS
<1> QED
  BY <1>2, <1>3, <1>4, Zenon

LEMMA KeyedIsOld ==
  /\ KEYED_BY_CODE \in {SubSeq(KEYED_BY_CODE, n, 5) : n \in 1..6}
  /\ <<>> \in {SubSeq(KEYED_BY_CODE, n, 5) : n \in 1..6}
<1>1. KEYED_BY_CODE = SubSeq(KEYED_BY_CODE, 1, 5)
  BY TablesAre, SubSeqFull
<1>2. <<>> = SubSeq(KEYED_BY_CODE, 6, 5)
  BY SubSeqEmpty
<1> QED
  BY <1>1, <1>2

\* What a run goes by: the first slot of a new reading and the last processed_at.
LEMMA RunValues ==
  ASSUME TypeInv, Changed(snapshot) # {}
  PROVE  /\ Start \in Nat /\ \A r \in Changed(snapshot) : Start <= r.slot
         /\ SeenUntil \in (seen + 1)..commits /\ \A r \in Changed(snapshot) : r.at <= SeenUntil
         /\ Max({r.slot : r \in snapshot}) \in Slots
<1>1. Changed(snapshot) \subseteq snapshot /\ snapshot \subseteq Reading
      /\ commits \in Nat /\ seen \in Nat
  BY ConstantsAssumption DEF Changed, TypeInv, TypeOK
<1> DEFINE S == {r.slot : r \in Changed(snapshot)}
           A == {r.at : r \in Changed(snapshot)}
           T == {r.slot : r \in snapshot}
<1>2. S \in SUBSET Nat /\ S # {}
  BY <1>1, SlotsAreNaturals DEF Reading
<1>3. A \in SUBSET (0..commits) /\ A # {} /\ \A a \in A : a > seen
  <2>1. \A r \in Changed(snapshot) : r.at > seen /\ r.at \in 1..MaxCommits /\ r.at <= commits
    BY <1>1 DEF Reading, Changed, TypeInv
  <2>2. \A r \in Changed(snapshot) : r.at > seen /\ r.at \in 0..commits
    BY <1>1, <2>1, ConstantsAssumption
  <2> QED
    BY <2>2
<1>4. T \in SUBSET Slots /\ T # {}
  BY <1>1 DEF Reading
<1>5. Start \in S /\ \A y \in S : Start <= y
  BY <1>2, MinExists DEF Start
<1>6. SeenUntil \in A /\ \A y \in A : y <= SeenUntil
  BY <1>1, <1>3, MaxExists DEF SeenUntil
<1>7. Max(T) \in T
  BY <1>4, SlotsAreNaturals, MaxExists DEF Slots
<1>8. Start \in Nat /\ \A r \in Changed(snapshot) : Start <= r.slot
  BY <1>2, <1>5
<1>9. SeenUntil \in Nat /\ SeenUntil > seen /\ SeenUntil <= commits /\ \A r \in Changed(snapshot) : r.at <= SeenUntil
  BY <1>3, <1>6
<1> QED
  BY <1>1, <1>4, <1>7, <1>8, <1>9

LEMMA InitType == Init => TypeInv
<1> SUFFICES ASSUME Init PROVE TypeInv
  OBVIOUS
<1>1. 0 \in Days /\ 0 \in Slots
  BY ConstantsAssumption, SlotsAreNaturals DEF Days, Slots
<1>2. commits \in 0..MaxCommits /\ seen \in 0..commits /\ marked \in 0..commits
      /\ crashes \in 0..MaxCrashes /\ upgrades \in 0..Upgrades
  BY ConstantsAssumption DEF Init
<1> QED
  BY <1>1, <1>2, KeyedIsOld, TablesAre DEF Init, TypeInv, TypeOK

LEMMA TypeStep ==
  ASSUME TypeInv, [Next]_vars
  PROVE  TypeInv'
<1> USE DEF TypeInv, TypeOK
<1>0. commits \in Nat /\ MaxCommits \in Nat /\ seen \in Nat /\ marked \in Nat
  BY ConstantsAssumption
<1>1. CASE SilverCommits
  <2>1. PICK batch \in Batches :
           readings' = readings \union
               {[site |-> r.site, slot |-> r.slot, low |-> r.low, at |-> commits + 1] : r \in batch}
    BY <1>1 DEF SilverCommits
  <2>2. commits' = commits + 1 /\ commits + 1 \in 1..MaxCommits
    BY <1>0, <1>1 DEF SilverCommits
  <2>3. \A r \in batch : r.site \in Sites /\ r.slot \in Slots /\ r.low \in BOOLEAN
    BY ConstantsAssumption DEF Slots
  <2>4. readings' \subseteq Reading /\ \A r \in readings' : r.at <= commits'
    BY <1>0, <2>1, <2>2, <2>3 DEF Reading
  <2>5. \A r \in snapshot : r.at <= commits'
    BY <1>0, <2>2 DEF Reading
  <2>6. seen \in 0..commits' /\ marked \in 0..commits' /\ commits' \in 0..MaxCommits
    BY <1>0, <2>2
  <2> QED
    BY <1>1, <2>4, <2>5, <2>6 DEF SilverCommits, driver, Changed, Reading
<1>2. CASE Midnight
  BY <1>2, ConstantsAssumption DEF Midnight, driver, Days, Changed
<1>3. CASE Maintains
  <2>1. cutoff' \in Days
    BY <1>3, ConstantsAssumption DEF Maintains, Days
  <2> QED
    BY <1>3, <2>1 DEF Maintains, driver, Changed
<1>4. CASE Launch
  BY <1>4, TablesAre DEF Launch, silver, Changed
<1>5. CASE DropOld
  <2>1. old' \in {SubSeq(KEYED_BY_CODE, n, 5) : n \in 1..6} /\ Head(old) \in Tables
    BY <1>5, OldAre DEF DropOld
  <2>2. DOMAIN gold' = Tables /\ marked' \in 0..commits
    BY <1>0, <1>5 DEF DropOld
  <2> QED
    BY <1>5, <2>1, <2>2, TablesAre DEF DropOld, silver, driver, Changed
<1>6. CASE Forget
  <2>1. /\ seen' = 0 /\ pc' = "read" /\ old = <<>> /\ lost' = FALSE
        /\ UNCHANGED <<silver, gold, watermark, old, snapshot, crashes, upgrades, marked>>
    BY <1>6 DEF Forget
  <2>2. seen' \in 0..commits'
    BY <1>0, <2>1 DEF silver
  <2> QED
    BY <2>1, <2>2, TablesAre DEF silver
<1>7. CASE NothingNew
  BY <1>7, TablesAre DEF NothingNew, silver, Changed
<1>8. CASE ReadChanged
  BY <1>8, TablesAre DEF ReadChanged, silver, Changed, Reading
<1>9. CASE MergeTable
  <2>1. After[pc] \in Tables \union {"watermark"}
    BY <1>9, TablesAre DEF MergeTable, After
  <2>2. DOMAIN gold' = Tables
    BY <1>9 DEF MergeTable, ReplaceWindow
  <2>3. Changed(snapshot) # {} /\ old = <<>> /\ UNCHANGED <<seen, snapshot, old>>
    BY <1>9 DEF MergeTable
  <2> QED
    BY <1>9, <2>1, <2>2, <2>3, TablesAre DEF MergeTable, silver, Changed
<1>10. CASE WriteWatermark
  <2>1. Changed(snapshot) # {} /\ old = <<>> /\ pc' = "state"
    BY <1>10 DEF WriteWatermark, After
  <2>2. watermark' \in Slots /\ marked' \in 0..commits
    BY <1>0, <1>10, <2>1, RunValues DEF WriteWatermark
  <2> QED
    BY <1>10, <2>1, <2>2, TablesAre DEF WriteWatermark, silver, Changed
<1>11. CASE WriteState
  <2>1. seen' \in 0..commits
    BY <1>0, <1>11, RunValues DEF WriteState
  <2> QED
    BY <1>11, <2>1, TablesAre DEF WriteState, silver, Changed
<1>12. CASE Crash
  BY <1>12, ConstantsAssumption, TablesAre DEF Crash, silver, Changed
<1>13. CASE Upgrade
  BY <1>13, ConstantsAssumption, TablesAre, KeyedIsOld DEF Upgrade, silver, driver, Changed
<1>14. CASE UNCHANGED vars
  BY <1>14 DEF vars, silver, driver, Changed
<1> QED
  BY <1>1, <1>2, <1>3, <1>4, <1>5, <1>6, <1>7, <1>8, <1>9, <1>10, <1>11, <1>12, <1>13, <1>14 DEF Next

LEMMA TypeInvAlways == Spec => []TypeInv
  BY InitType, TypeStep, PTL DEF Spec

\* Type correctness, which says that a run that has got past the check for old
\* tables has new readings to work on, whatever is deleted meanwhile, and that
\* it records no processed_at and no slot that silver has not written.
THEOREM GoldTypes == Spec => []TypeOK
<1>1. TypeInv => TypeOK
  BY DEF TypeInv
<1> QED
  BY <1>1, TypeInvAlways, PTL

----------------------------------------------------------------------------
(***************************************************************************)
(* The watermark                                                           *)
(***************************************************************************)

SiteHas(r) ==
    \E q \in gold["site_15min"] : q.site = r.site /\ q.slot = r.slot /\ r \in q.of
FleetHas(r) ==
    \E f \in gold["fleet_15min"] : f.slot = r.slot /\ \E q \in f.from : r \in q.of

SiteDone == pc \in {"fleet_15min", "site_daily", "region_daily", "fault_events", "watermark", "state"}
FleetDone == SiteDone /\ pc # "fleet_15min"

\* What state and watermark speak of is in the first two tables, unless they
\* are being rebuilt; a run has loaded it, and merges it into these tables
\* before it writes any of the two.
KnownInv ==
    ~lost /\ old = <<>> /\ pc # "drop" => \A r \in readings : r.at <= seen => SiteHas(r) /\ FleetHas(r)
MarkedInv == ~lost => \A r \in readings : r.at <= marked => SiteHas(r) /\ FleetHas(r)
DroppedInv == pc = "drop" /\ old = <<>> => marked = 0
LoadedInv == Running => \A r \in readings : r.at <= SeenUntil \/ r.at <= marked => r \in snapshot
MergedInv ==
    ~lost => \A r \in readings : /\ SiteDone /\ r.at <= SeenUntil => SiteHas(r)
                                 /\ FleetDone /\ r.at <= SeenUntil => FleetHas(r)

MarkInv == KnownInv /\ MarkedInv /\ DroppedInv /\ LoadedInv /\ MergedInv

\* A run that is past the check for old tables.
LEMMA RunningIs ==
  ASSUME TypeInv, Running
  PROVE  /\ Changed(snapshot) # {} /\ pc \notin {"drop", "idle", "read"}
         /\ commits \in Nat /\ seen \in Nat /\ marked \in Nat /\ marked <= commits /\ seen <= commits
         /\ SeenUntil \in Nat /\ seen < SeenUntil /\ SeenUntil <= commits
         /\ Start \in Nat
         /\ \A r \in snapshot : r.at \in Nat /\ r.slot \in Nat /\ (r.at <= seen \/ Start <= r.slot)
<1>1. Changed(snapshot) # {} /\ pc \notin {"drop", "idle", "read"}
  BY TablesAre DEF TypeInv, TypeOK, Running
<1>2. commits \in Nat /\ seen \in 0..commits /\ marked \in 0..commits
  BY ConstantsAssumption DEF TypeInv, TypeOK
<1>3. /\ Start \in Nat /\ \A r \in Changed(snapshot) : Start <= r.slot
      /\ SeenUntil \in (seen + 1)..commits
  BY <1>1, RunValues
<1>6. MaxCommits \in Nat /\ snapshot \subseteq Reading
  BY ConstantsAssumption DEF TypeInv
<1>7. \A r \in snapshot : r.at \in 1..MaxCommits /\ r.slot \in Slots
  BY <1>6 DEF Reading
<1>8. Slots \subseteq Nat
  BY SlotsAreNaturals
<1>9. \A r \in snapshot : r.slot \in Nat
  BY <1>7, <1>8, Zenon
<1>10. ASSUME NEW r \in snapshot
       PROVE  r.at \in Nat
  <2>1. r.at \in 1..MaxCommits
    BY <1>7, Zenon
  <2>2. 1..MaxCommits \subseteq Nat
    BY <1>6
  <2> QED
    BY <2>1, <2>2, Zenon
<1>4. \A r \in snapshot : r.at \in Nat /\ r.slot \in Nat
  BY <1>9, <1>10, Zenon
<1>5. \A r \in snapshot : r.at <= seen \/ Start <= r.slot
  BY <1>2, <1>3, <1>4 DEF Changed
<1> QED
  BY <1>1, <1>2, <1>3, <1>4, <1>5

\* What merging the first table does: a reading the run has loaded gets its row
\* anew, or is of an earlier slot and keeps it.
LEMMA SiteMerge ==
  ASSUME TypeInv, MergeTable, pc = "site_15min", NEW r \in snapshot
  PROVE  SiteHas(r)' \/ (r.slot < Start /\ (SiteHas(r) => SiteHas(r)'))
<1>1. Running /\ Start \in Nat /\ r.slot \in Nat
  BY RunningIs, TablesAre DEF Running
<1> DEFINE new == SiteRows(FromStart(snapshot))
<1>2. gold'["site_15min"] = {q \in gold["site_15min"] : ~InWindow("site_15min", q, Start)
            /\ \A n \in new : Key("site_15min", n) # Key("site_15min", q)} \union new
  BY DEF MergeTable, ReplaceWindow, Recomputed, TypeInv, TypeOK, Tables
<1>3. CASE Start <= r.slot
  <2>1. r \in FromStart(snapshot)
    BY <1>3 DEF FromStart
  <2>2. SiteRow(FromStart(snapshot), r.site, r.slot) \in new
    BY <2>1 DEF SiteRows
  <2>3. PICK q \in new : q = SiteRow(FromStart(snapshot), r.site, r.slot)
    BY <2>2
  <2>4. q.site = r.site /\ q.slot = r.slot /\ r \in q.of
    BY <2>1, <2>3 DEF SiteRow
  <2> QED
    BY <1>2, <2>4 DEF SiteHas
<1>4. ASSUME r.slot < Start, SiteHas(r)
      PROVE  SiteHas(r)'
  <2>1. PICK q \in gold["site_15min"] : q.site = r.site /\ q.slot = r.slot /\ r \in q.of
    BY <1>4 DEF SiteHas
  <2>2. ~InWindow("site_15min", q, Start)
    BY <1>1, <1>4, <2>1 DEF InWindow
  <2>3. ASSUME NEW n \in new
        PROVE  Key("site_15min", n) # Key("site_15min", q)
    <3>1. PICK o \in FromStart(snapshot) : n = SiteRow(FromStart(snapshot), o.site, o.slot)
      BY <2>3 DEF SiteRows
    <3>2. n.slot = o.slot /\ o.slot >= Start
      BY <3>1 DEF SiteRow, FromStart
    <3>3. n.slot # q.slot
      BY <1>1, <1>4, <2>1, <3>2
    <3> QED
      BY <3>3 DEF Key
  <2> QED
    BY <1>2, <2>1, <2>2, <2>3 DEF SiteHas
<1> QED
  BY <1>1, <1>3, <1>4

LEMMA FleetMerge ==
  ASSUME TypeInv, MergeTable, pc = "fleet_15min", NEW r \in snapshot
  PROVE  \/ r.slot < Start /\ (FleetHas(r) => FleetHas(r)')
         \/ SiteHas(r) => FleetHas(r)'
<1>1. Running /\ Start \in Nat /\ r.slot \in Nat
  BY RunningIs, TablesAre DEF Running
<1> DEFINE rows == FromStart(gold["site_15min"])
           new == FleetRows(rows)
<1>2. gold'["fleet_15min"] = {f \in gold["fleet_15min"] : ~InWindow("fleet_15min", f, Start)
            /\ \A n \in new : Key("fleet_15min", n) # Key("fleet_15min", f)} \union new
  BY DEF MergeTable, ReplaceWindow, Recomputed, TypeInv, TypeOK, Tables
<1>3. ASSUME Start <= r.slot, SiteHas(r)
      PROVE  FleetHas(r)'
  <2>1. PICK q \in gold["site_15min"] : q.site = r.site /\ q.slot = r.slot /\ r \in q.of
    BY <1>3 DEF SiteHas
  <2>2. q \in rows
    BY <1>3, <2>1 DEF FromStart
  <2>3. PICK f \in new : f = [slot |-> q.slot, from |-> {p \in rows : p.slot = q.slot}]
    BY <2>2 DEF FleetRows
  <2>4. f.slot = r.slot /\ q \in f.from
    BY <2>1, <2>2, <2>3
  <2> QED
    BY <1>2, <2>1, <2>4 DEF FleetHas
<1>4. ASSUME r.slot < Start, FleetHas(r)
      PROVE  FleetHas(r)'
  <2>1. PICK f \in gold["fleet_15min"] : f.slot = r.slot /\ \E q \in f.from : r \in q.of
    BY <1>4 DEF FleetHas
  <2>2. ~InWindow("fleet_15min", f, Start)
    BY <1>1, <1>4, <2>1 DEF InWindow
  <2>3. ASSUME NEW n \in new
        PROVE  Key("fleet_15min", n) # Key("fleet_15min", f)
    <3>1. n.slot >= Start
      BY <2>3 DEF FleetRows, FromStart
    <3>2. n.slot # f.slot
      BY <1>1, <1>4, <2>1, <3>1
    <3> QED
      BY <3>2 DEF Key
  <2> QED
    BY <1>2, <2>1, <2>2, <2>3 DEF FleetHas
<1> QED
  BY <1>1, <1>3, <1>4

LEMMA MarkStep ==
  ASSUME TypeInv, MarkInv, [Next]_vars
  PROVE  MarkInv'
<1> USE DEF MarkInv
<1>0. commits \in Nat /\ seen \in Nat /\ marked \in Nat /\ seen <= commits /\ marked <= commits
      /\ \A r \in readings : r.at \in Nat /\ r.at >= 1 /\ r.at <= commits
  <2>1. MaxCommits \in Nat
    BY ConstantsAssumption
  <2> QED
    BY <2>1 DEF TypeInv, TypeOK, Reading
<1>1. CASE SilverCommits
  <2>1. \A r \in readings' : r \in readings \/ r.at = commits + 1
    BY <1>1 DEF SilverCommits
  <2>2. UNCHANGED <<gold, seen, marked, pc, snapshot, old, lost>>
    BY <1>1 DEF SilverCommits, driver
  <2>3. \A r \in readings' : r.at <= seen \/ r.at <= marked => r \in readings
    BY <1>0, <2>1
  <2>4. Running => \A r \in readings' : r.at <= SeenUntil => r \in readings
    BY <1>0, <2>1, RunningIs
  <2>5. KnownInv' /\ MarkedInv' /\ DroppedInv'
    BY <2>2, <2>3 DEF KnownInv, MarkedInv, DroppedInv, SiteHas, FleetHas
  <2>6. LoadedInv'
    BY <2>2, <2>3, <2>4 DEF LoadedInv, Running, SeenUntil, Changed
  <2>7. SiteDone => Running
    BY TablesAre DEF SiteDone, Running
  <2>8. MergedInv'
    BY <2>2, <2>4, <2>7 DEF MergedInv, SiteDone, FleetDone, SeenUntil, Changed, SiteHas, FleetHas
  <2> QED
    BY <2>5, <2>6, <2>8
<1>2. CASE Maintains
  <2>1. readings' \subseteq readings /\ UNCHANGED <<gold, seen, marked, pc, snapshot, old, lost>>
    BY <1>2 DEF Maintains, driver
  <2> QED
    BY <2>1 DEF KnownInv, MarkedInv, DroppedInv, LoadedInv, MergedInv, Running, SiteDone, FleetDone,
                SeenUntil, Changed, SiteHas, FleetHas
<1>3. CASE DropOld
  <2>1. marked' = 0 /\ pc' = "drop" /\ readings' = readings
    BY <1>3 DEF DropOld, driver, silver
  <2> QED
    BY <1>0, <2>1, TablesAre DEF KnownInv, MarkedInv, DroppedInv, LoadedInv, MergedInv, Running, SiteDone, FleetDone
<1>4. CASE Forget
  <2>1. seen' = 0 /\ pc' = "read" /\ marked = 0 /\ UNCHANGED <<readings, gold, marked>>
    BY <1>4 DEF Forget, silver, DroppedInv
  <2> QED
    BY <1>0, <2>1, TablesAre DEF KnownInv, MarkedInv, DroppedInv, LoadedInv, MergedInv, Running, SiteDone,
                                 FleetDone, SiteHas, FleetHas
<1>5. CASE ReadChanged
  <2>1. pc = "read" /\ pc' = "site_15min" /\ snapshot' = readings /\ UNCHANGED <<readings, gold, seen, marked, old, lost>>
    BY <1>5 DEF ReadChanged, silver
  <2> QED
    BY <2>1 DEF KnownInv, MarkedInv, DroppedInv, LoadedInv, MergedInv, SiteDone, FleetDone, SiteHas, FleetHas
<1>6. CASE MergeTable
  <2>1. /\ pc \in Tables /\ pc' = After[pc] /\ UNCHANGED <<readings, seen, marked, snapshot, old, lost>>
        /\ \A t \in Tables \ {pc} : gold'[t] = gold[t]
    BY <1>6 DEF MergeTable, ReplaceWindow, silver, TypeInv, TypeOK
  <2>2. Running /\ pc # "drop" /\ pc' # "drop" /\ SeenUntil' = SeenUntil /\ old = <<>>
    BY <2>1, TablesAre DEF Running, After, SeenUntil, Changed, TypeInv, TypeOK
  <2>3. ASSUME ~lost, NEW r \in readings, r.at <= SeenUntil \/ r.at <= marked \/ r.at <= seen
        PROVE  r \in snapshot /\ (r.at <= seen \/ Start <= r.slot) /\ (r.at <= seen => SiteHas(r) /\ FleetHas(r))
    BY <1>0, <2>2, <2>3, RunningIs DEF LoadedInv, KnownInv
  <2>4. CASE pc = "site_15min"
    <3>1. \A r \in readings : FleetHas(r)' = FleetHas(r)
      BY <2>1, <2>4, TablesAre DEF FleetHas
    <3>2. ~lost => \A r \in readings : r.at <= SeenUntil \/ r.at <= marked \/ r.at <= seen => SiteHas(r)'
      BY <1>6, <2>2, <2>3, <2>4, RunningIs, SiteMerge
    <3>3. pc' = "fleet_15min"
      BY <2>1, <2>4 DEF After
    <3> QED
      BY <2>1, <2>2, <3>1, <3>2, <3>3 DEF KnownInv, MarkedInv, DroppedInv, LoadedInv, MergedInv, FleetDone
  <2>5. CASE pc = "fleet_15min"
    <3>1. \A r \in readings : SiteHas(r)' = SiteHas(r)
      BY <2>1, <2>5, TablesAre DEF SiteHas
    <3>2. ~lost => \A r \in readings : r.at <= SeenUntil \/ r.at <= seen => SiteHas(r) /\ FleetHas(r)'
      BY <1>6, <2>2, <2>3, <2>5, RunningIs, FleetMerge DEF MergedInv, SiteDone
    <3>3. ~lost => \A r \in readings : r.at <= marked => FleetHas(r)'
      BY <1>6, <2>2, <2>3, <2>5, RunningIs, FleetMerge DEF MarkedInv
    <3> QED
      BY <2>1, <2>2, <3>1, <3>2, <3>3 DEF KnownInv, MarkedInv, DroppedInv, LoadedInv, MergedInv
  <2>6. CASE pc \notin {"site_15min", "fleet_15min"}
    <3>1. \A r \in readings : SiteHas(r)' = SiteHas(r) /\ FleetHas(r)' = FleetHas(r)
      BY <2>1, <2>6, TablesAre DEF SiteHas, FleetHas
    <3>2. FleetDone
      BY <2>1, <2>6, TablesAre DEF FleetDone, SiteDone
    <3> QED
      BY <2>1, <2>2, <3>1, <3>2 DEF KnownInv, MarkedInv, DroppedInv, LoadedInv, MergedInv, FleetDone
  <2> QED
    BY <2>4, <2>5, <2>6
<1>7. CASE WriteWatermark
  <2>1. pc = "watermark" /\ pc' = "state" /\ marked' = SeenUntil /\ UNCHANGED <<readings, gold, seen, snapshot, old, lost>>
    BY <1>7 DEF WriteWatermark, After, silver
  <2>2. SeenUntil' = SeenUntil /\ FleetDone /\ SiteDone /\ Running
    BY <2>1 DEF SeenUntil, Changed, FleetDone, SiteDone, Running
  <2> QED
    BY <2>1, <2>2 DEF KnownInv, MarkedInv, DroppedInv, LoadedInv, MergedInv, SiteHas, FleetHas
<1>8. CASE WriteState
  <2>1. pc = "state" /\ pc' = "idle" /\ seen' = SeenUntil /\ UNCHANGED <<readings, gold, marked, old, lost>>
    BY <1>8 DEF WriteState, silver
  <2>2. FleetDone /\ SiteDone
    BY <2>1 DEF FleetDone, SiteDone
  <2> QED
    BY <2>1, <2>2, TablesAre DEF KnownInv, MarkedInv, DroppedInv, LoadedInv, MergedInv, SiteHas, FleetHas,
                                 Running, SiteDone, FleetDone
<1>9. CASE Crash
  <2>1. /\ pc' = "idle" /\ UNCHANGED <<readings, gold, seen, marked, old>>
        /\ lost' = (lost \/ (pc = "drop" /\ old = <<>>))
    BY <1>9 DEF Crash, silver
  <2> QED
    BY <2>1, TablesAre DEF KnownInv, MarkedInv, DroppedInv, LoadedInv, MergedInv, SiteHas, FleetHas,
                           Running, SiteDone, FleetDone
<1>10. CASE Launch \/ NothingNew
  <2>1. /\ pc # "drop" /\ pc' \in {"idle", "read", "drop"} /\ UNCHANGED <<readings, gold, seen, marked, lost, old>>
        /\ pc' = "drop" => old # <<>>
    BY <1>10 DEF Launch, NothingNew, silver
  <2> QED
    BY <2>1, TablesAre DEF KnownInv, MarkedInv, DroppedInv, LoadedInv, MergedInv, SiteHas, FleetHas,
                           Running, SiteDone, FleetDone
<1>11. CASE UNCHANGED <<readings, gold, seen, marked, pc, snapshot, lost, old>>
  BY <1>11 DEF KnownInv, MarkedInv, DroppedInv, LoadedInv, MergedInv, Running, SiteDone, FleetDone,
               SeenUntil, Changed, SiteHas, FleetHas
<1>12. CASE Upgrade
  <2>1. old' = KEYED_BY_CODE /\ UNCHANGED <<readings, gold, seen, marked, pc, snapshot, lost>>
    BY <1>12 DEF Upgrade, silver, driver
  <2>2. old' # <<>>
    BY <2>1, TablesAre
  <2> QED
    BY <2>1, <2>2 DEF KnownInv, MarkedInv, DroppedInv, LoadedInv, MergedInv, Running, SiteDone, FleetDone,
                      SeenUntil, Changed, SiteHas, FleetHas
<1> QED
  BY <1>1, <1>2, <1>3, <1>4, <1>5, <1>6, <1>7, <1>8, <1>9, <1>10, <1>11, <1>12
  DEF Next, vars, silver, driver, Midnight

\* The watermark never says too much, at any moment and after any number of
\* late readings, deletions and crashes, those among the DROPs of a rebuild
\* included: the slots before it are complete in fleet_15min but for readings
\* processed later.  The one exception is that of WatermarkHolds: a driver has
\* died between the last DROP and the DELETE of the state.
THEOREM MarkIsTrue == Spec => []WatermarkHolds
<1>1. Init => MarkInv
  BY DEF Init, MarkInv, KnownInv, MarkedInv, DroppedInv, LoadedInv, MergedInv
<1>2. TypeInv /\ MarkInv /\ [Next]_vars => MarkInv'
  BY MarkStep
<1>3. MarkInv => WatermarkHolds
  BY DEF MarkInv, MarkedInv, FleetHas, WatermarkHolds
<1> QED
  BY <1>1, <1>2, <1>3, TypeInvAlways, PTL DEF Spec

----------------------------------------------------------------------------
(***************************************************************************)
(* The fault events                                                        *)
(***************************************************************************)

\* Underperforming slots lie in daylight, so that no event crosses midnight and
\* the window of a run, which starts with a day, cuts none in two.
DaylightInv == \A q \in gold["site_15min"] : q.slot \in Nat /\ (q.under => ~Dark(q.slot))
OneDay(e) == e.start \in Nat /\ e.end \in Nat /\ Day(e.end) = Day(e.start)
OneDayInv == \A e \in gold["fault_events"] : OneDay(e)

EventsInv == DaylightInv /\ OneDayInv /\ EventsDisjoint

\* The events of rows that lie in daylight.
LEMMA EventsAre ==
  ASSUME NEW rows, \A q \in rows : q.slot \in Nat /\ (q.under => ~Dark(q.slot))
  PROVE  /\ \A e \in EventRows(rows) : OneDay(e) /\ \E q \in rows : e.start = q.slot
         /\ \A e, f \in EventRows(rows) : e.site = f.site /\ e.start < f.start => e.end < f.start
<1> DEFINE bad == {r \in rows : r.under}
<1>1. ASSUME NEW e \in EventRows(rows)
      PROVE  /\ Island(bad, e.site, e.start, e.end)
             /\ e.start \in Nat /\ e.end \in Nat
             /\ \E q \in rows : e.start = q.slot
  <2>1. PICK p \in bad \X bad : /\ Island(bad, p[1].site, p[1].slot, p[2].slot)
                                /\ e = [site |-> p[1].site, start |-> p[1].slot, end |-> p[2].slot,
                                        from |-> {r \in bad : r.site = p[1].site /\ r.slot \in p[1].slot..p[2].slot}]
    BY <1>1 DEF EventRows
  <2>2. e.site = p[1].site /\ e.start = p[1].slot /\ e.end = p[2].slot
    BY <2>1
  <2>3. p[1] \in rows /\ p[2] \in rows
    BY <2>1
  <2> QED
    BY <2>1, <2>2, <2>3
<1>2. \A site, slot : Under(bad, site, slot) => ~Dark(slot)
  BY DEF Under
<1> HIDE DEF bad
<1>3. ASSUME NEW e \in EventRows(rows)
      PROVE  OneDay(e)
  <2>1. e.start \in Nat /\ e.end \in Nat /\ e.start <= e.end
        /\ \A slot \in e.start..e.end : ~Dark(slot)
    BY <1>1, <1>2, <1>3 DEF Island
  <2>2. \A c \in (e.start + 1)..e.end : c \in e.start..e.end
    BY <2>1
  <2>3. ~(e.start < e.end /\ Day(e.start) < Day(e.end))
    BY <2>1, <2>2, DayOrder
  <2>4. Day(e.start) <= Day(e.end) /\ Day(e.start) \in Nat /\ Day(e.end) \in Nat
    BY <2>1, DayOrder
  <2>5. Day(e.end) = Day(e.start)
    BY <2>1, <2>3, <2>4
  <2> QED
    BY <2>1, <2>5 DEF OneDay
<1>4. ASSUME NEW e \in EventRows(rows), NEW f \in EventRows(rows), e.site = f.site, e.start < f.start
      PROVE  e.end < f.start
  <2>1. e.start \in Nat /\ e.end \in Nat /\ f.start \in Nat
    BY <1>1, <1>4
  <2>2. (\A slot \in e.start..e.end : Under(bad, e.site, slot)) /\ ~Under(bad, f.site, f.start - 1)
    BY <1>1, <1>4 DEF Island
  <2>3. f.start - 1 \notin e.start..e.end
    BY <1>4, <2>2
  <2> QED
    BY <1>4, <2>1, <2>3
<1> QED
  BY <1>1, <1>3, <1>4

LEMMA EventsStep ==
  ASSUME TypeInv, EventsInv, [Next]_vars
  PROVE  EventsInv'
<1>1. CASE MergeTable
  <2>1. /\ pc \in Tables
        /\ \A t \in Tables \ {pc} : gold'[t] = gold[t]
        /\ gold'[pc] = {r \in gold[pc] : ~InWindow(pc, r, Start) /\ \A n \in Recomputed(pc) : Key(pc, n) # Key(pc, r)}
                       \union Recomputed(pc)
    BY <1>1 DEF MergeTable, ReplaceWindow, TypeInv, TypeOK
  <2>2. Running /\ Start \in Nat /\ \A r \in snapshot : r.slot \in Nat
    BY <2>1, RunningIs DEF Running
  <2>3. CASE pc = "site_15min"
    <3>1. gold'["fault_events"] = gold["fault_events"]
      BY <2>1, <2>3, TablesAre
    <3>2. ASSUME NEW q \in SiteRows(FromStart(snapshot))
          PROVE  q.slot \in Nat /\ (q.under => ~Dark(q.slot))
      <4>1. PICK r \in FromStart(snapshot) : q = SiteRow(FromStart(snapshot), r.site, r.slot)
        BY <3>2 DEF SiteRows
      <4>2. r \in snapshot
        BY <4>1 DEF FromStart
      <4> QED
        BY <2>2, <4>1, <4>2 DEF SiteRow
    <3>3. gold'["site_15min"] \subseteq gold["site_15min"] \union SiteRows(FromStart(snapshot))
      BY <2>1, <2>3 DEF Recomputed
    <3>4. DaylightInv'
      BY <3>2, <3>3 DEF EventsInv, DaylightInv
    <3> QED
      BY <3>1, <3>4 DEF EventsInv, OneDayInv, EventsDisjoint
  <2>4. CASE pc = "fault_events"
    <3> DEFINE rows == FromDay(gold["site_15min"])
               new == EventRows(rows)
    <3>1. gold'["site_15min"] = gold["site_15min"]
      BY <2>1, <2>4, TablesAre
    <3>2. \A q \in rows : q.slot \in Nat /\ (q.under => ~Dark(q.slot)) /\ Day(q.slot) >= Day(Start)
      BY DEF FromDay, EventsInv, DaylightInv
    <3>3. /\ \A e \in new : OneDay(e) /\ Day(e.start) >= Day(Start)
          /\ \A e, f \in new : e.site = f.site /\ e.start < f.start => e.end < f.start
      <4> HIDE DEF rows
      <4> QED
        BY <3>2, EventsAre
    <3>4. \A e \in gold'["fault_events"] :
             e \in new \/ (e \in gold["fault_events"] /\ OneDay(e) /\ ~(Day(e.start) >= Day(Start)))
      BY <2>1, <2>4 DEF InWindow, Recomputed, EventsInv, OneDayInv
    <3> HIDE DEF rows, new
    <3>5. OneDayInv'
      BY <3>3, <3>4 DEF OneDayInv, OneDay
    <3>6. ASSUME NEW e \in gold'["fault_events"], NEW f \in gold'["fault_events"],
                 e.site = f.site, e.start < f.start
          PROVE  e.end < f.start
      <4>1. OneDay(e) /\ OneDay(f)
        BY <3>3, <3>4
      <4>2. e.start \in Nat /\ e.end \in Nat /\ f.start \in Nat /\ Day(e.end) = Day(e.start)
        BY <4>1 DEF OneDay
      <4>3. Day(e.start) \in Nat /\ Day(f.start) \in Nat /\ Day(Start) \in Nat
            /\ (f.start <= e.end => Day(f.start) <= Day(e.end))
            /\ Day(e.start) <= Day(f.start)
        BY <2>2, <3>6, <4>2, DayOrder
      <4>4. CASE e \in new /\ f \in new
        BY <3>3, <3>6, <4>4
      <4>5. CASE e \notin new /\ f \in new
        <5>1. Day(e.end) < Day(f.start)
          BY <3>3, <3>4, <4>2, <4>3, <4>5
        <5> QED
          BY <4>2, <4>3, <5>1
      <4>6. CASE e \notin new /\ f \notin new
        BY <3>4, <3>6, <4>6 DEF EventsInv, EventsDisjoint
      <4>7. CASE e \in new /\ f \notin new
        BY <3>3, <3>4, <4>3, <4>7
      <4> QED
        BY <4>4, <4>5, <4>6, <4>7
    <3>7. EventsDisjoint'
      BY <3>6 DEF EventsDisjoint
    <3> QED
      BY <3>1, <3>5, <3>7 DEF EventsInv, DaylightInv
  <2>5. CASE pc \notin {"site_15min", "fault_events"}
    <3>1. gold'["site_15min"] = gold["site_15min"] /\ gold'["fault_events"] = gold["fault_events"]
      BY <2>1, <2>5, TablesAre
    <3> QED
      BY <3>1 DEF EventsInv, DaylightInv, OneDayInv, EventsDisjoint
  <2> QED
    BY <2>3, <2>4, <2>5
<1>2. CASE DropOld
  <2>1. gold'["site_15min"] \subseteq gold["site_15min"] /\ gold'["fault_events"] \subseteq gold["fault_events"]
    BY <1>2, TablesAre DEF DropOld, TypeInv, TypeOK
  <2> QED
    BY <2>1 DEF EventsInv, DaylightInv, OneDayInv, EventsDisjoint
<1>3. CASE UNCHANGED gold
  BY <1>3 DEF EventsInv, DaylightInv, OneDayInv, EventsDisjoint
<1> QED
  BY <1>1, <1>2, <1>3 DEF Next, vars, silver, driver, SilverCommits, Midnight, Maintains, Launch, Forget,
     NothingNew, ReadChanged, WriteWatermark, WriteState, Crash, Upgrade

LEMMA EventsInvAlways == Spec => []EventsInv
<1>1. Init => EventsInv
  BY TablesAre DEF Init, EventsInv, DaylightInv, OneDayInv, EventsDisjoint
<1>2. TypeInv /\ EventsInv /\ [Next]_vars => EventsInv'
  BY EventsStep
<1> QED
  BY <1>1, <1>2, TypeInvAlways, PTL DEF Spec

\* No two events of a site overlap, at any moment, however often late readings
\* join and split them: a run replaces whole days of events, and the dark slot
\* at the start of each day keeps every event within its day.
THEOREM EventsAreDisjoint == Spec => []EventsDisjoint
<1>1. EventsInv => EventsDisjoint
  BY DEF EventsInv
<1> QED
  BY <1>1, EventsInvAlways, PTL

----------------------------------------------------------------------------
(***************************************************************************)
(* Each table against the readings: a row belongs to a slot or a day, its  *)
(* unit, and the rows of a unit depend on the readings of that unit only.  *)
(***************************************************************************)

ByDay(t) == t \notin {"site_15min", "fleet_15min"}
UnitOf(t, slot) == IF ByDay(t) THEN Day(slot) ELSE slot
Of(t, w) == IF t = "fault_events" THEN Day(w.start) ELSE IF ByDay(t) THEN w.day ELSE w.slot

Derived(t, rows) ==
    IF t = "site_15min" THEN rows
    ELSE IF t = "fleet_15min" THEN FleetRows(rows)
    ELSE IF t = "site_daily" THEN DailyRows(rows)
    ELSE IF t = "region_daily" THEN RegionRows(DailyRows(rows))
    ELSE EventRows(rows)

Target(t, rs) == Derived(t, SiteRows(rs))

InDaylight(rows) == \A q \in rows : q.slot \in Nat /\ (q.under => ~Dark(q.slot))
Timed(rs) == \A r \in rs : r.slot \in Nat

LEMMA UnitsAreNaturals ==
  ASSUME NEW t \in Tables, NEW a \in Nat, NEW b \in Nat
  PROVE  UnitOf(t, a) \in Nat /\ (a <= b => UnitOf(t, a) <= UnitOf(t, b))
  BY DayOrder DEF UnitOf

LEMMA SiteRowsAre ==
  ASSUME NEW rs, Timed(rs)
  PROVE  InDaylight(SiteRows(rs)) /\ \A q \in SiteRows(rs) : \E r \in rs : r.slot = q.slot
<1> SUFFICES ASSUME NEW q \in SiteRows(rs)
             PROVE  q.slot \in Nat /\ (q.under => ~Dark(q.slot)) /\ \E r \in rs : r.slot = q.slot
  BY DEF InDaylight
<1>1. PICK r \in rs : q = SiteRow(rs, r.site, r.slot)
  BY DEF SiteRows
<1> QED
  BY <1>1 DEF SiteRow, Timed

\* Every derived row has a row of its unit that it is derived from.
LEMMA DerivedAre ==
  ASSUME NEW t \in Tables, NEW rows, InDaylight(rows), NEW w \in Derived(t, rows)
  PROVE  \E q \in rows : Of(t, w) = UnitOf(t, q.slot)
<1>1. CASE t = "site_15min"
  BY <1>1 DEF Derived, Of, UnitOf, ByDay
<1>2. CASE t = "fleet_15min"
  BY <1>2 DEF Derived, FleetRows, Of, UnitOf, ByDay
<1>3. \A d \in DailyRows(rows) : \E q \in rows : d.day = Day(q.slot)
  BY DEF DailyRows
<1>4. CASE t = "site_daily"
  BY <1>3, <1>4 DEF Derived, Of, UnitOf, ByDay
<1>5. CASE t = "region_daily"
  <2>1. PICK d \in DailyRows(rows) : w.day = d.day
    BY <1>5 DEF Derived, RegionRows
  <2> QED
    BY <1>3, <1>5, <2>1 DEF Of, UnitOf, ByDay
<1>6. CASE t = "fault_events"
  <2>1. PICK q \in rows : w.start = q.slot
    BY <1>6, EventsAre DEF Derived, InDaylight
  <2> QED
    BY <1>6, <2>1 DEF Of, UnitOf, ByDay
<1> QED
  BY <1>1, <1>2, <1>4, <1>5, <1>6, TablesAre

\* Two sets of rows that agree on a day have the same daily rows of that day ...
LEMMA DailyLocal ==
  ASSUME NEW P, NEW Q, NEW x,
         \A q : Day(q.slot) = x => (q \in P <=> q \in Q)
  PROVE  \A w \in DailyRows(P) : w.day = x => w \in DailyRows(Q)
<1> SUFFICES ASSUME NEW w \in DailyRows(P), w.day = x
             PROVE  w \in DailyRows(Q)
  OBVIOUS
<1>1. PICK r \in P : w = [site |-> r.site, day |-> Day(r.slot),
                          from |-> {q \in P : q.site = r.site /\ Day(q.slot) = Day(r.slot)}]
  BY DEF DailyRows
<1>2. Day(r.slot) = x
  BY <1>1
<1>3. r \in Q /\ {q \in P : q.site = r.site /\ Day(q.slot) = Day(r.slot)}
                 = {q \in Q : q.site = r.site /\ Day(q.slot) = Day(r.slot)}
  BY <1>2
<1> QED
  BY <1>1, <1>3 DEF DailyRows

\* ... and the same events: none begins or ends with the day.
LEMMA EventsLocal ==
  ASSUME NEW P, NEW Q, InDaylight(P), InDaylight(Q), NEW x \in Nat,
         \A q : Day(q.slot) = x => (q \in P <=> q \in Q)
  PROVE  \A e \in EventRows(P) : Day(e.start) = x => e \in EventRows(Q)
<1> DEFINE badP == {r \in P : r.under}
           badQ == {r \in Q : r.under}
<1> SUFFICES ASSUME NEW e \in EventRows(P), Day(e.start) = x
             PROVE  e \in EventRows(Q)
  OBVIOUS
<1>1. PICK p \in badP \X badP : /\ p[1].site = p[2].site
                                /\ Island(badP, p[1].site, p[1].slot, p[2].slot)
                                /\ e = [site |-> p[1].site, start |-> p[1].slot, end |-> p[2].slot,
                                        from |-> {r \in badP : r.site = p[1].site /\ r.slot \in p[1].slot..p[2].slot}]
  BY DEF EventRows
<1> DEFINE s == p[1].site
           a == p[1].slot
           b == p[2].slot
<1>2. e.site = s /\ e.start = a /\ e.end = b
  BY <1>1
<1>3. OneDay(e)
  BY EventsAre DEF InDaylight
<1>4. a \in Nat /\ b \in Nat /\ Day(a) = x /\ Day(b) = x
  BY <1>2, <1>3 DEF OneDay
<1>5. \A slot : Day(slot) = x => (Under(badP, s, slot) <=> Under(badQ, s, slot))
  BY DEF Under
<1>6. \A slot : Under(badP, s, slot) \/ Under(badQ, s, slot) => slot \in Nat /\ ~Dark(slot)
  BY DEF Under, InDaylight
<1>7. p[1] \in badQ /\ p[2] \in badQ
  BY <1>4
<1> HIDE DEF badP, badQ, s, a, b
<1>8. Island(badP, s, a, b)
  BY <1>1 DEF s, a, b
<1>9. \A slot \in a..b : slot \in Nat /\ Day(slot) = x
  <2>1. \A slot \in a..b : slot \in Nat /\ Day(slot) <= x /\ x <= Day(slot) /\ Day(slot) \in Nat
    BY <1>4, DayOrder
  <2> QED
    BY <2>1
<1>10. ~Under(badQ, s, a - 1)
  <2>1. SUFFICES ASSUME a - 1 \in Nat, Under(badQ, s, a - 1)
                 PROVE  FALSE
    BY <1>6
  <2>2. ~Dark(a)
    BY <1>4, <1>6, <1>8 DEF Island
  <2>3. Day(a - 1) \in Nat /\ Day(a - 1) <= Day(a) /\ ~(Day(a - 1) < Day(a))
    <3>1. a - 1 < a /\ a - 1 <= a /\ ((a - 1) + 1)..a = {a}
      BY <1>4
    <3>2. /\ Day(a - 1) \in Nat
          /\ a - 1 <= a => Day(a - 1) <= Day(a)
          /\ a - 1 < a /\ Day(a - 1) < Day(a) => \E c \in ((a - 1) + 1)..a : Dark(c)
      BY <1>4, <2>1, DayOrder, Zenon
    <3> QED
      BY <2>2, <3>1, <3>2, Zenon
  <2>4. Day(a - 1) = x
    BY <1>4, <2>3
  <2> QED
    BY <1>5, <1>8, <2>1, <2>4 DEF Island
<1>11. ~Under(badQ, s, b + 1)
  <2>1. SUFFICES ASSUME ~Dark(b + 1), Under(badQ, s, b + 1)
                 PROVE  FALSE
    BY <1>6
  <2>2. Day(b + 1) \in Nat /\ Day(b) <= Day(b + 1) /\ ~(Day(b) < Day(b + 1))
    <3>1. b < b + 1 /\ (b + 1)..(b + 1) = {b + 1} /\ b + 1 \in Nat
      BY <1>4
    <3> QED
      BY <1>4, <2>1, <3>1, DayOrder
  <2>3. Day(b + 1) = x
    BY <1>4, <2>2
  <2> QED
    BY <1>5, <1>8, <2>1, <2>3 DEF Island
<1>12. Island(badQ, s, a, b)
  BY <1>5, <1>8, <1>9, <1>10, <1>11 DEF Island
<1>13. {r \in badP : r.site = s /\ r.slot \in a..b} = {r \in badQ : r.site = s /\ r.slot \in a..b}
  BY <1>9 DEF badP, badQ
<1> QED
  BY <1>1, <1>7, <1>12, <1>13 DEF EventRows, badP, badQ, s, a, b

LEMMA DerivedLocal ==
  ASSUME NEW t \in Tables, NEW P, NEW Q, InDaylight(P), InDaylight(Q), NEW x \in Nat,
         \A q : UnitOf(t, q.slot) = x => (q \in P <=> q \in Q)
  PROVE  \A w : Of(t, w) = x => (w \in Derived(t, P) <=> w \in Derived(t, Q))
<1>1. CASE t = "site_15min"
  BY <1>1 DEF Derived, Of, UnitOf, ByDay
<1>2. CASE t = "fleet_15min"
  <2>1. \A q : q.slot = x => (q \in P <=> q \in Q)
    BY <1>2 DEF UnitOf, ByDay
  <2>2. {q \in P : q.slot = x} = {q \in Q : q.slot = x}
    BY <2>1
  <2>3. ASSUME NEW A, NEW B, {q \in A : q.slot = x} = {q \in B : q.slot = x},
               NEW w \in FleetRows(A), w.slot = x
        PROVE  w \in FleetRows(B)
    <3>1. PICK r \in A : w = [slot |-> r.slot, from |-> {q \in A : q.slot = r.slot}]
      BY <2>3 DEF FleetRows
    <3>2. r.slot = x
      BY <2>3, <3>1
    <3>3. r \in B /\ {q \in A : q.slot = r.slot} = {q \in B : q.slot = r.slot}
      BY <2>3, <3>2
    <3> QED
      BY <3>1, <3>3 DEF FleetRows
  <2>4. \A w : w.slot = x => (w \in FleetRows(P) <=> w \in FleetRows(Q))
    BY <2>2, <2>3
  <2> QED
    BY <1>2, <2>4 DEF Derived, Of, ByDay
<1>3. ASSUME ByDay(t)
      PROVE  \A q : Day(q.slot) = x => (q \in P <=> q \in Q)
  BY <1>3 DEF UnitOf
<1>4. ASSUME ByDay(t)
      PROVE  \A w : w.day = x => (w \in DailyRows(P) <=> w \in DailyRows(Q))
  BY <1>3, <1>4, DailyLocal
<1>5. CASE t = "site_daily"
  BY <1>4, <1>5 DEF Derived, Of, ByDay
<1>6. CASE t = "region_daily"
  <2>1. \A w : w.day = x => (w \in DailyRows(P) <=> w \in DailyRows(Q))
    BY <1>4, <1>6 DEF ByDay
  <2>2. {e \in DailyRows(P) : e.day = x} = {e \in DailyRows(Q) : e.day = x}
    BY <2>1
  <2>3. ASSUME NEW A, NEW B, {e \in A : e.day = x} = {e \in B : e.day = x},
               NEW w \in RegionRows(A), w.day = x
        PROVE  w \in RegionRows(B)
    <3>1. PICK d \in A : w = [day |-> d.day, from |-> {e \in A : e.day = d.day}]
      BY <2>3 DEF RegionRows
    <3>2. d.day = x
      BY <2>3, <3>1
    <3>3. d \in B /\ {e \in A : e.day = d.day} = {e \in B : e.day = d.day}
      BY <2>3, <3>2
    <3> QED
      BY <3>1, <3>3 DEF RegionRows
  <2>4. \A w : w.day = x => (w \in RegionRows(DailyRows(P)) <=> w \in RegionRows(DailyRows(Q)))
    BY <2>2, <2>3
  <2> QED
    BY <1>6, <2>4 DEF Derived, Of, ByDay
<1>7. CASE t = "fault_events"
  <2>1. \A q : Day(q.slot) = x => (q \in P <=> q \in Q)
    BY <1>3, <1>7 DEF ByDay
  <2>2. \A e : Day(e.start) = x => (e \in EventRows(P) <=> e \in EventRows(Q))
    BY <2>1, EventsLocal
  <2> QED
    BY <1>7, <2>2 DEF Derived, Of
<1> QED
  BY <1>1, <1>2, <1>5, <1>6, <1>7, TablesAre

\* The rows of a unit are made of the readings of that unit.
LEMMA SiteLocal ==
  ASSUME NEW t \in Tables, NEW R, NEW S, NEW x,
         \A r : UnitOf(t, r.slot) = x => (r \in R <=> r \in S)
  PROVE  \A q \in SiteRows(R) : UnitOf(t, q.slot) = x => q \in SiteRows(S)
<1> SUFFICES ASSUME NEW q \in SiteRows(R), UnitOf(t, q.slot) = x
             PROVE  q \in SiteRows(S)
  OBVIOUS
<1>1. PICK r \in R : q = SiteRow(R, r.site, r.slot)
  BY DEF SiteRows
<1>2. q.slot = r.slot
  BY <1>1 DEF SiteRow
<1>3. {o \in R : o.slot = r.slot} = {o \in S : o.slot = r.slot} /\ r \in S
  BY <1>2
<1>4. SiteRow(R, r.site, r.slot) = SiteRow(S, r.site, r.slot)
  BY <1>3 DEF SiteRow
<1> QED
  BY <1>1, <1>3, <1>4 DEF SiteRows

LEMMA TargetLocal ==
  ASSUME NEW t \in Tables, NEW R, NEW S, Timed(R), Timed(S), NEW x \in Nat,
         \A r : UnitOf(t, r.slot) = x => (r \in R <=> r \in S)
  PROVE  \A w : Of(t, w) = x => (w \in Target(t, R) <=> w \in Target(t, S))
<1>1. \A q : UnitOf(t, q.slot) = x => (q \in SiteRows(R) <=> q \in SiteRows(S))
  BY SiteLocal
<1>2. InDaylight(SiteRows(R)) /\ InDaylight(SiteRows(S))
  BY SiteRowsAre
<1> QED
  BY <1>1, <1>2, DerivedLocal DEF Target

----------------------------------------------------------------------------
(***************************************************************************)
(* All tables are current once gold has caught up                          *)
(***************************************************************************)

LiveUnit(t, x) == IF ByDay(t) THEN Live(x) ELSE Live(Day(x))
ExactAt(t, x) == \A w : Of(t, w) = x => (w \in gold[t] <=> w \in Target(t, readings))

\* No reading of the unit is newer than the state, than what the run will write there.
Seen(t, x) == \A r \in readings : UnitOf(t, r.slot) = x => r.at <= seen
SeenSoon(t, x) == \A r \in readings : UnitOf(t, r.slot) = x => r.at <= SeenUntil

Merged(t) ==
    \/ pc \in {"watermark", "state"}
    \/ t = "site_15min" /\ pc \in {"fleet_15min", "site_daily", "region_daily", "fault_events"}
    \/ t = "fleet_15min" /\ pc \in {"site_daily", "region_daily", "fault_events"}
    \/ t = "site_daily" /\ pc \in {"region_daily", "fault_events"}
    \/ t = "region_daily" /\ pc = "fault_events"

\* What the state speaks of is in every table, as it is in silver now; the run
\* has merged the same for what it is going to write to the state.
SeenInv == ~lost /\ old = <<>> /\ pc # "drop" =>
               \A t \in Tables, x \in Nat : LiveUnit(t, x) /\ Seen(t, x) => ExactAt(t, x)
DoneInv == ~lost /\ Running => \A t \in Tables, x \in Nat :
               Merged(t) /\ LiveUnit(t, x) /\ SeenSoon(t, x) => ExactAt(t, x)
\* The copy the run works on has not aged in the slots it will call processed.
CopyInv == Running => \A x \in Nat : Live(Day(x)) /\ SeenSoon("site_15min", x) =>
               \A r : r.slot = x => (r \in snapshot <=> r \in readings)
UnitsInv == \A t \in Tables : \A w \in gold[t] : Of(t, w) \in Nat
CutoffInv == cutoff \in Nat /\ (cutoff = 0 \/ cutoff + Keep <= today)
\* Tables of an older layout are all empty when the state is deleted: from the
\* first DROP on those not yet dropped are the old ones, and no run gets past them.
OldInv == /\ pc \in {"idle", "drop"} \/ old = <<>>
          /\ old # <<>> \/ pc = "drop" =>
                 \A t \in Tables : gold[t] = {} \/ \E n \in 1..Len(old) : old[n] = t

CurrentInv == SeenInv /\ DoneInv /\ CopyInv /\ UnitsInv /\ CutoffInv /\ OldInv

LEMMA ReadingsAreTimed ==
  ASSUME TypeInv
  PROVE  /\ Timed(readings) /\ Timed(snapshot) /\ Timed(FromStart(snapshot))
         /\ \A r \in readings : r.at \in Nat /\ r.at >= 1 /\ r.at <= commits
<1>1. MaxCommits \in Nat
  BY ConstantsAssumption
<1>2. \A r \in readings \union snapshot : r.at \in 1..MaxCommits /\ r.at <= commits /\ r.slot \in Slots
  BY DEF TypeInv, TypeOK, Reading
<1>3. 1..MaxCommits \subseteq Nat /\ \A n \in 1..MaxCommits : n >= 1
  BY <1>1
<1>4. \A r \in readings \union snapshot : r.slot \in Nat
  BY <1>2, SlotsAreNaturals, Zenon
<1>5. \A r \in readings : r.at \in Nat /\ r.at >= 1 /\ r.at <= commits
  BY <1>2, <1>3, Zenon
<1> QED
  BY <1>4, <1>5 DEF Timed, FromStart

\* Where silver changes nothing in a unit, the unit stays exact.
LEMMA StaysExact ==
  ASSUME TypeInv, TypeInv', UNCHANGED gold, NEW t \in Tables, NEW x \in Nat, ExactAt(t, x),
         \A r : UnitOf(t, r.slot) = x => (r \in readings <=> r \in readings')
  PROVE  ExactAt(t, x)'
<1>1. Timed(readings) /\ Timed(readings')
  <2>1. \A r \in readings \union readings' : r.slot \in Slots
    BY DEF TypeInv, TypeOK
  <2> QED
    BY <2>1, SlotsAreNaturals DEF Timed
<1>2. \A w : Of(t, w) = x => (w \in Target(t, readings) <=> w \in Target(t, readings'))
  BY <1>1, TargetLocal
<1> QED
  BY <1>2 DEF ExactAt

\* The run's copy in the slots of a unit.
LEMMA CopyOfUnit ==
  ASSUME TypeInv, Running, CopyInv, NEW t \in Tables, NEW x \in Nat, LiveUnit(t, x), SeenSoon(t, x)
  PROVE  /\ \A r : r.slot \in Nat /\ UnitOf(t, r.slot) = x => (r \in snapshot <=> r \in readings)
         /\ \A slot \in Nat : UnitOf(t, slot) = x =>
               LiveUnit("site_15min", slot) /\ SeenSoon("site_15min", slot)
<1>1. ASSUME NEW slot \in Nat, UnitOf(t, slot) = x
      PROVE  LiveUnit("site_15min", slot) /\ SeenSoon("site_15min", slot)
  BY <1>1 DEF LiveUnit, SeenSoon, UnitOf, ByDay
<1>2. \A slot \in Nat : LiveUnit("site_15min", slot) <=> Live(Day(slot))
  BY DEF LiveUnit, ByDay
<1> QED
  BY <1>1, <1>2 DEF CopyInv

\* What replace_window does to a unit: before the window nothing, in it
\* everything.
LEMMA WindowReplaced ==
  ASSUME TypeInv, UnitsInv, MergeTable,
         \A n \in Recomputed(pc) : Of(pc, n) \in Nat /\ Of(pc, n) >= UnitOf(pc, Start),
         NEW x \in Nat
  PROVE  /\ \A w : Of(pc, w) = x =>
               (w \in gold'[pc] <=> w \in IF x < UnitOf(pc, Start) THEN gold[pc] ELSE Recomputed(pc))
         /\ \A w \in gold'[pc] : Of(pc, w) \in Nat
<1>1. /\ pc \in Tables
      /\ gold'[pc] = {w \in gold[pc] : ~InWindow(pc, w, Start) /\ \A n \in Recomputed(pc) : Key(pc, n) # Key(pc, w)}
                     \union Recomputed(pc)
  BY DEF MergeTable, ReplaceWindow, TypeInv, TypeOK
<1>2. Start \in Nat /\ UnitOf(pc, Start) \in Nat
  BY <1>1, RunningIs, UnitsAreNaturals DEF Running
<1>3. \A w : InWindow(pc, w, Start) <=> Of(pc, w) >= UnitOf(pc, Start)
  <2>1. CASE pc \in {"site_15min", "fleet_15min"}
    BY <2>1 DEF InWindow, Of, UnitOf, ByDay
  <2>2. CASE pc \in {"site_daily", "region_daily"}
    BY <2>2 DEF InWindow, Of, UnitOf, ByDay
  <2>3. CASE pc = "fault_events"
    BY <2>3 DEF InWindow, Of, UnitOf, ByDay
  <2> QED
    BY <1>1, <2>1, <2>2, <2>3, TablesAre
<1>4. \A n, w : Key(pc, n) = Key(pc, w) => Of(pc, n) = Of(pc, w)
  <2>1. CASE pc = "site_15min"
    BY <2>1 DEF Key, Of, ByDay
  <2>2. CASE pc = "fleet_15min"
    BY <2>2 DEF Key, Of, ByDay
  <2>3. CASE pc = "site_daily"
    BY <2>3 DEF Key, Of, ByDay
  <2>4. CASE pc = "region_daily"
    BY <2>4 DEF Key, Of, ByDay
  <2>5. CASE pc = "fault_events"
    BY <2>5 DEF Key, Of, ByDay
  <2> QED
    BY <1>1, <2>1, <2>2, <2>3, <2>4, <2>5, TablesAre
<1>5. \A w \in gold[pc] : Of(pc, w) \in Nat
  BY <1>1 DEF UnitsInv
<1> QED
  BY <1>1, <1>2, <1>3, <1>4, <1>5

\* What a run recomputes is what the readings give, for every unit of the window
\* that the run will call processed.
LEMMA RecomputedIsTarget ==
  ASSUME TypeInv, EventsInv, CurrentInv, MergeTable
  PROVE  /\ \A n \in Recomputed(pc) : Of(pc, n) \in Nat /\ Of(pc, n) >= UnitOf(pc, Start)
         /\ ~lost => \A x \in Nat : x >= UnitOf(pc, Start) /\ LiveUnit(pc, x) /\ SeenSoon(pc, x) =>
               \A w : Of(pc, w) = x => (w \in Recomputed(pc) <=> w \in Target(pc, readings))
<1>1. pc \in Tables /\ Running /\ Start \in Nat
  BY RunningIs DEF MergeTable, Running
<1>2. Timed(readings) /\ Timed(FromStart(snapshot))
  BY ReadingsAreTimed
<1>3. CASE pc = "site_15min"
  <2>1. Recomputed(pc) = SiteRows(FromStart(snapshot)) /\ \A rs : Target(pc, rs) = SiteRows(rs)
    BY <1>3 DEF Recomputed, Target, Derived
  <2>2. \A n \in Recomputed(pc) : Of(pc, n) \in Nat /\ Of(pc, n) >= UnitOf(pc, Start)
    <3> SUFFICES ASSUME NEW n \in Recomputed(pc)
                 PROVE  n.slot \in Nat /\ n.slot >= Start
      BY <1>3 DEF Of, UnitOf, ByDay
    <3>1. PICK r \in FromStart(snapshot) : r.slot = n.slot
      BY <1>2, <2>1, SiteRowsAre
    <3> QED
      BY <1>2, <3>1 DEF Timed, FromStart
  <2>3. ASSUME ~lost, NEW x \in Nat, x >= UnitOf(pc, Start), LiveUnit(pc, x), SeenSoon(pc, x)
        PROVE  \A w : Of(pc, w) = x => (w \in Recomputed(pc) <=> w \in Target(pc, readings))
    <3>1. \A r : r.slot \in Nat /\ UnitOf(pc, r.slot) = x => (r \in snapshot <=> r \in readings)
      BY <1>1, <2>3, CopyOfUnit DEF CurrentInv
    <3>2. \A slot : UnitOf(pc, slot) = x => slot \in Nat /\ slot >= Start
      BY <1>3, <2>3 DEF UnitOf, ByDay
    <3>3. \A r : UnitOf(pc, r.slot) = x => (r \in FromStart(snapshot) <=> r \in readings)
      BY <3>1, <3>2 DEF FromStart
    <3>4. \A w : Of(pc, w) = x => (w \in Target(pc, FromStart(snapshot)) <=> w \in Target(pc, readings))
      BY <1>1, <1>2, <3>3, TargetLocal
    <3> QED
      BY <2>1, <3>4
  <2> QED
    BY <2>2, <2>3
<1>4. CASE pc # "site_15min"
  <2> DEFINE rows == {q \in gold["site_15min"] : UnitOf(pc, q.slot) >= UnitOf(pc, Start)}
  <2>1. InDaylight(rows) /\ \A q \in gold["site_15min"] : q.slot \in Nat
    BY DEF EventsInv, DaylightInv, InDaylight
  <2>2. Recomputed(pc) = Derived(pc, rows)
    <3>1. CASE pc = "fleet_15min"
      <4>1. rows = FromStart(gold["site_15min"])
        BY <3>1 DEF FromStart, UnitOf, ByDay
      <4> QED
        BY <3>1, <4>1 DEF Recomputed, Derived
    <3>2. CASE pc \in {"site_daily", "region_daily", "fault_events"}
      <4>1. rows = FromDay(gold["site_15min"])
        BY <3>2 DEF FromDay, UnitOf, ByDay
      <4> HIDE DEF rows
      <4> QED
        BY <3>2, <4>1 DEF Recomputed, Derived
    <3> QED
      BY <1>1, <1>4, <3>1, <3>2, TablesAre
  <2>3. ASSUME NEW n \in Recomputed(pc)
        PROVE  Of(pc, n) \in Nat /\ Of(pc, n) >= UnitOf(pc, Start)
    <3>1. PICK q \in rows : Of(pc, n) = UnitOf(pc, q.slot)
      <4> HIDE DEF rows
      <4> QED
        BY <1>1, <2>1, <2>2, <2>3, DerivedAre
    <3>2. UnitOf(pc, q.slot) \in Nat
      BY <1>1, <2>1, UnitsAreNaturals
    <3> QED
      BY <3>1, <3>2
  <2>4. ASSUME ~lost, NEW x \in Nat, x >= UnitOf(pc, Start), LiveUnit(pc, x), SeenSoon(pc, x)
        PROVE  \A w : Of(pc, w) = x => (w \in Recomputed(pc) <=> w \in Target(pc, readings))
    <3>1. \A slot \in Nat : UnitOf(pc, slot) = x =>
             LiveUnit("site_15min", slot) /\ SeenSoon("site_15min", slot)
      BY <1>1, <2>4, CopyOfUnit DEF CurrentInv
    <3>2. \A slot \in Nat : UnitOf(pc, slot) = x => ExactAt("site_15min", slot)
      <4>1. Merged("site_15min") /\ "site_15min" \in Tables
        BY <1>1, <1>4, TablesAre DEF Merged
      <4> QED
        BY <1>1, <2>4, <3>1, <4>1 DEF CurrentInv, DoneInv
    <3>3. \A q : q.slot \in Nat /\ UnitOf(pc, q.slot) = x =>
             (q \in gold["site_15min"] <=> q \in SiteRows(readings))
      BY <3>2 DEF ExactAt, Of, ByDay, Target, Derived
    <3>4. InDaylight(SiteRows(readings))
      BY <1>2, SiteRowsAre
    <3>5. \A q : UnitOf(pc, q.slot) = x => (q \in rows <=> q \in SiteRows(readings))
      BY <2>1, <2>4, <3>3, <3>4 DEF InDaylight
    <3> HIDE DEF rows
    <3>6. \A w : Of(pc, w) = x => (w \in Derived(pc, rows) <=> w \in Derived(pc, SiteRows(readings)))
      BY <1>1, <2>1, <3>4, <3>5, DerivedLocal
    <3> QED
      BY <2>2, <3>6 DEF Target
  <2> QED
    BY <2>3, <2>4
<1> QED
  BY <1>3, <1>4

LEMMA CurrentStep ==
  ASSUME TypeInv, TypeInv', EventsInv, CurrentInv, [Next]_vars
  PROVE  CurrentInv'
<1> USE DEF CurrentInv
<1>0. /\ commits \in Nat /\ seen \in Nat /\ seen <= commits
      /\ \A r \in readings : r.at \in Nat /\ r.at >= 1 /\ r.at <= commits
  <2>1. MaxCommits \in Nat
    BY ConstantsAssumption
  <2> QED
    BY <2>1, ReadingsAreTimed DEF TypeInv, TypeOK
<1>1. CASE SilverCommits
  <2>1. /\ readings \subseteq readings' /\ \A r \in readings' : r \in readings \/ r.at = commits + 1
        /\ UNCHANGED <<gold, seen, pc, snapshot, cutoff, today, old, lost>>
    BY <1>1 DEF SilverCommits, driver
  <2>2. Running' = Running /\ SeenUntil' = SeenUntil
    BY <2>1 DEF Running, SeenUntil, Changed
  <2>3. Running => SeenUntil \in Nat /\ SeenUntil <= commits
    BY RunningIs
  <2>4. ASSUME NEW t \in Tables, NEW x \in Nat, \A r \in readings' : UnitOf(t, r.slot) = x => r.at <= commits
        PROVE  \A r : UnitOf(t, r.slot) = x => (r \in readings <=> r \in readings')
    BY <1>0, <2>1, <2>4
  <2>5. ASSUME NEW t \in Tables, NEW x \in Nat
        PROVE  /\ LiveUnit(t, x)' <=> LiveUnit(t, x)
               /\ Merged(t)' <=> Merged(t)
    BY <2>1 DEF LiveUnit, Live, Merged
  <2>6. ASSUME NEW t \in Tables, NEW x \in Nat, Seen(t, x)'
        PROVE  Seen(t, x) /\ \A r : UnitOf(t, r.slot) = x => (r \in readings <=> r \in readings')
    BY <1>0, <2>1, <2>6 DEF Seen
  <2>7. ASSUME Running, NEW t \in Tables, NEW x \in Nat, SeenSoon(t, x)'
        PROVE  SeenSoon(t, x) /\ \A r : UnitOf(t, r.slot) = x => (r \in readings <=> r \in readings')
    <3>1. \A r \in readings' : UnitOf(t, r.slot) = x => r.at <= SeenUntil
      BY <2>2, <2>7 DEF SeenSoon
    <3>2. \A r \in readings' : UnitOf(t, r.slot) = x => r \in readings
      BY <1>0, <2>1, <2>3, <2>7, <3>1
    <3> QED
      BY <2>1, <3>1, <3>2 DEF SeenSoon
  <2>8. SeenInv'
    BY <2>1, <2>5, <2>6, StaysExact DEF SeenInv
  <2>9. DoneInv'
    BY <2>1, <2>2, <2>5, <2>7, StaysExact DEF DoneInv
  <2>10. CopyInv'
    <3>1. SUFFICES ASSUME Running, NEW x \in Nat, Live(Day(x)), SeenSoon("site_15min", x)',
                          NEW r, r.slot = x
                   PROVE  r \in snapshot <=> r \in readings'
      BY <2>1, <2>2 DEF CopyInv, Live
    <3>2. UnitOf("site_15min", x) = x
      BY DEF UnitOf, ByDay
    <3> QED
      BY <2>7, <3>1, <3>2, TablesAre DEF CopyInv
  <2> QED
    BY <2>1, <2>8, <2>9, <2>10 DEF UnitsInv, CutoffInv, OldInv
<1>2. CASE Maintains
  <2>1. /\ readings' = {r \in readings : Day(r.slot) >= cutoff'}
        /\ UNCHANGED <<gold, seen, pc, snapshot, today, old, lost>>
    BY <1>2 DEF Maintains, driver
  <2>2. CutoffInv' /\ cutoff \in Nat /\ cutoff' \in Nat /\ cutoff <= cutoff'
    <3>1. Keep \in Nat /\ today \in Nat /\ cutoff' = IF today > Keep THEN today - Keep ELSE 0
      BY <1>2, ConstantsAssumption DEF Maintains, TypeInv, TypeOK, Days
    <3> QED
      BY <2>1, <3>1 DEF CutoffInv
  <2>3. Running' = Running /\ SeenUntil' = SeenUntil
    BY <2>1 DEF Running, SeenUntil, Changed
  <2>4. ASSUME NEW t \in Tables, NEW x \in Nat, LiveUnit(t, x)'
        PROVE  LiveUnit(t, x) /\ \A r : UnitOf(t, r.slot) = x => (r \in readings <=> r \in readings')
    <3>1. \A slot : UnitOf(t, slot) = x => Day(slot) >= cutoff'
      BY <2>4 DEF LiveUnit, UnitOf, Live
    <3>2. Day(x) \in Nat
      BY DayOrder
    <3>3. LiveUnit(t, x)
      BY <2>2, <2>4, <3>2 DEF LiveUnit, Live
    <3> QED
      BY <2>1, <3>1, <3>3
  <2>5. ASSUME NEW t \in Tables, NEW x \in Nat, LiveUnit(t, x)'
        PROVE  /\ Seen(t, x)' <=> Seen(t, x)
               /\ SeenSoon(t, x)' <=> SeenSoon(t, x)
               /\ Merged(t)' <=> Merged(t)
    BY <2>1, <2>3, <2>4, <2>5 DEF Seen, SeenSoon, Merged
  <2>6. SeenInv'
    BY <2>1, <2>4, <2>5, StaysExact DEF SeenInv
  <2>7. DoneInv'
    BY <2>1, <2>3, <2>4, <2>5, StaysExact DEF DoneInv
  <2>8. CopyInv'
    <3>1. SUFFICES ASSUME Running, NEW x \in Nat, Live(Day(x))', SeenSoon("site_15min", x)',
                          NEW r, r.slot = x
                   PROVE  r \in snapshot <=> r \in readings'
      BY <2>1, <2>3 DEF CopyInv
    <3>2. UnitOf("site_15min", x) = x /\ LiveUnit("site_15min", x)' /\ (LiveUnit("site_15min", x) <=> Live(Day(x)))
      BY <3>1 DEF UnitOf, ByDay, LiveUnit
    <3> QED
      BY <2>4, <2>5, <3>1, <3>2, TablesAre DEF CopyInv
  <2> QED
    BY <2>1, <2>2, <2>6, <2>7, <2>8 DEF UnitsInv, OldInv
<1>3. CASE DropOld
  <2>1. /\ pc = "drop" /\ pc' = "drop" /\ old # <<>> /\ old' = Tail(old)
        /\ gold' = [gold EXCEPT ![Head(old)] = {}] /\ UNCHANGED <<cutoff, today>>
    BY <1>3 DEF DropOld, driver, silver
  <2>2. \A t \in Tables : gold'[t] = IF t = Head(old) THEN {} ELSE gold[t]
    BY <2>1 DEF TypeInv, TypeOK
  <2>3. old \in Seq(Tables)
    <3>1. PICK n \in 1..6 : old = SubSeq(KEYED_BY_CODE, n, 5)
      BY DEF TypeInv, TypeOK
    <3>2. n \in Int /\ 5 \in Int /\ \A i \in n..5 : i \in 1..Len(KEYED_BY_CODE)
      BY <3>1, TablesAre
    <3>3. \A i \in n..5 : KEYED_BY_CODE[i] \in Tables
      BY <3>2, TablesAre, ElementOfSeq, Zenon
    <3>4. SubSeq(KEYED_BY_CODE, n, 5) \in Seq(Tables)
      BY <3>2, <3>3, SubSeqProperties, Zenon
    <3> QED
      BY <3>1, <3>4
  <2>4. /\ Head(old) = old[1] /\ Len(old) \in Nat /\ Len(old) >= 1 /\ Len(Tail(old)) = Len(old) - 1
        /\ \A n \in 1..Len(Tail(old)) : Tail(old)[n] = old[n + 1]
    BY <2>1, <2>3, HeadTailProperties
  <2>5. ASSUME NEW t \in Tables
        PROVE  gold'[t] = {} \/ \E n \in 1..Len(old') : old'[n] = t
    <3>1. CASE gold[t] = {} \/ t = Head(old)
      BY <2>2, <3>1
    <3>2. CASE gold[t] # {} /\ t # Head(old)
      <4>1. PICK n \in 1..Len(old) : old[n] = t
        BY <2>1, <3>2 DEF OldInv
      <4>2. n # 1 /\ n - 1 \in 1..Len(Tail(old)) /\ (n - 1) + 1 = n
        BY <2>4, <3>2, <4>1
      <4>3. Tail(old)[n - 1] = t
        BY <2>4, <4>1, <4>2
      <4> QED
        BY <2>1, <4>2, <4>3
    <3> QED
      BY <3>1, <3>2
  <2> QED
    BY <2>1, <2>2, <2>5, TablesAre DEF SeenInv, DoneInv, CopyInv, UnitsInv, CutoffInv, OldInv, Running
<1>4. CASE Forget
  <2>1. /\ pc = "drop" /\ old = <<>> /\ old' = <<>> /\ seen' = 0 /\ pc' = "read"
        /\ UNCHANGED <<readings, gold, cutoff, today>>
    BY <1>4 DEF Forget, silver
  <2>2. \A t \in Tables : gold[t] = {}
    BY <2>1 DEF OldInv
  <2>3. ASSUME NEW t \in Tables, NEW x \in Nat, Seen(t, x)'
        PROVE  ExactAt(t, x)'
    <3>1. \A r \in readings : UnitOf(t, r.slot) # x
      BY <1>0, <2>1, <2>3 DEF Seen
    <3>2. ASSUME NEW w \in Target(t, readings)
          PROVE  Of(t, w) # x
      <4>1. InDaylight(SiteRows(readings)) /\ \A q \in SiteRows(readings) : \E r \in readings : r.slot = q.slot
        BY SiteRowsAre, ReadingsAreTimed
      <4>2. PICK q \in SiteRows(readings) : Of(t, w) = UnitOf(t, q.slot)
        BY <3>2, <4>1, DerivedAre DEF Target
      <4> QED
        BY <3>1, <4>1, <4>2
    <3> QED
      BY <2>1, <2>2, <3>2 DEF ExactAt
  <2>4. SeenInv'
    BY <2>1, <2>3 DEF SeenInv
  <2> QED
    BY <2>1, <2>4, TablesAre DEF DoneInv, CopyInv, UnitsInv, CutoffInv, OldInv, Running
<1>5. CASE ReadChanged
  <2>1. /\ pc = "read" /\ pc' = "site_15min" /\ snapshot' = readings
        /\ UNCHANGED <<readings, gold, seen, cutoff, today, old, lost>>
    BY <1>5 DEF ReadChanged, silver
  <2> QED
    BY <2>1 DEF SeenInv, DoneInv, CopyInv, UnitsInv, CutoffInv, OldInv, Merged, ExactAt, LiveUnit, Live, Seen
<1>6. CASE MergeTable
  <2>1. /\ pc \in Tables /\ pc' = After[pc] /\ UNCHANGED <<readings, cutoff, today, seen, old, snapshot, lost>>
        /\ \A t \in Tables \ {pc} : gold'[t] = gold[t]
    BY <1>6 DEF MergeTable, ReplaceWindow, silver, TypeInv, TypeOK
  <2>2. /\ Running /\ Running' /\ pc # "drop" /\ pc' # "drop" /\ SeenUntil' = SeenUntil /\ old = <<>>
        /\ \A t \in Tables : Merged(t)' => Merged(t) \/ t = pc
    BY <2>1, TablesAre DEF Running, After, SeenUntil, Changed, Merged, TypeInv, TypeOK
  <2>3. /\ Start \in Nat /\ SeenUntil \in Nat /\ seen <= SeenUntil
        /\ \A r \in snapshot : r.slot \in Nat /\ (r.at <= seen \/ Start <= r.slot)
    BY <2>2, RunningIs
  <2>4. ASSUME NEW t \in Tables, NEW x \in Nat
        PROVE  /\ LiveUnit(t, x)' <=> LiveUnit(t, x)
               /\ Seen(t, x)' <=> Seen(t, x)
               /\ SeenSoon(t, x)' <=> SeenSoon(t, x)
               /\ t # pc => (ExactAt(t, x)' <=> ExactAt(t, x))
               /\ Seen(t, x) => SeenSoon(t, x)
    <3>1. Seen(t, x) => SeenSoon(t, x)
      BY <1>0, <2>3 DEF Seen, SeenSoon
    <3> QED
      BY <2>1, <2>2, <3>1 DEF LiveUnit, Live, Seen, SeenSoon, ExactAt
  <2>5. /\ \A n \in Recomputed(pc) : Of(pc, n) \in Nat /\ Of(pc, n) >= UnitOf(pc, Start)
        /\ ~lost => \A x \in Nat : x >= UnitOf(pc, Start) /\ LiveUnit(pc, x) /\ SeenSoon(pc, x) =>
              \A w : Of(pc, w) = x => (w \in Recomputed(pc) <=> w \in Target(pc, readings))
    BY <1>6, RecomputedIsTarget
  <2>6. ASSUME ~lost, NEW x \in Nat, LiveUnit(pc, x), SeenSoon(pc, x)
        PROVE  \A w : Of(pc, w) = x => (w \in gold'[pc] <=> w \in Target(pc, readings))
    <3>1. UnitOf(pc, Start) \in Nat
      BY <2>1, <2>3, UnitsAreNaturals
    <3>2. CASE x >= UnitOf(pc, Start)
      BY <1>6, <2>5, <2>6, <3>1, <3>2, WindowReplaced
    <3>3. CASE x < UnitOf(pc, Start)
      <4>1. Seen(pc, x)
        <5> SUFFICES ASSUME NEW r \in readings, UnitOf(pc, r.slot) = x
                     PROVE  r.at <= seen
          BY DEF Seen
        <5>1. r.slot \in Nat
          BY ReadingsAreTimed DEF Timed
        <5>2. r \in snapshot
          BY <2>1, <2>2, <2>6, <5>1, CopyOfUnit
        <5>3. ~(Start <= r.slot)
          BY <2>1, <2>3, <3>1, <3>3, <5>1, UnitsAreNaturals
        <5> QED
          BY <2>3, <5>2, <5>3
      <4>2. ExactAt(pc, x)
        BY <2>1, <2>2, <2>6, <4>1 DEF SeenInv
      <4> QED
        BY <1>6, <2>5, <3>3, <4>2, WindowReplaced DEF ExactAt
    <3> QED
      BY <3>1, <3>2, <3>3
  <2>7. ASSUME ~lost, NEW t \in Tables, NEW x \in Nat, t = pc, LiveUnit(t, x), SeenSoon(t, x)
        PROVE  ExactAt(t, x)'
    BY <2>1, <2>6, <2>7 DEF ExactAt
  <2>8. SeenInv'
    BY <2>1, <2>2, <2>4, <2>7 DEF SeenInv
  <2>9. DoneInv'
    BY <2>1, <2>2, <2>4, <2>7 DEF DoneInv
  <2>10. CopyInv'
    BY <2>1, <2>2, <2>4, TablesAre DEF CopyInv, Live
  <2>11. UnitsInv'
    BY <1>6, <2>1, <2>5, WindowReplaced DEF UnitsInv
  <2> QED
    BY <2>1, <2>2, <2>8, <2>9, <2>10, <2>11 DEF CutoffInv, OldInv
<1>7. CASE WriteWatermark
  <2>1. pc = "watermark" /\ pc' = "state" /\ UNCHANGED <<readings, cutoff, today, gold, seen, old, snapshot, lost>>
    BY <1>7 DEF WriteWatermark, After, silver
  <2> QED
    BY <2>1 DEF SeenInv, DoneInv, CopyInv, UnitsInv, CutoffInv, OldInv, Merged, ExactAt, LiveUnit, Live,
                Seen, SeenSoon, SeenUntil, Changed, Running
<1>8. CASE WriteState
  <2>1. pc = "state" /\ pc' = "idle" /\ seen' = SeenUntil /\ UNCHANGED <<readings, cutoff, today, gold, old, lost>>
    BY <1>8 DEF WriteState, silver
  <2>2. ASSUME NEW t \in Tables, NEW x \in Nat
        PROVE  /\ Merged(t) /\ Running
               /\ Seen(t, x)' <=> SeenSoon(t, x)
               /\ LiveUnit(t, x)' <=> LiveUnit(t, x)
               /\ ExactAt(t, x)' <=> ExactAt(t, x)
    BY <2>1 DEF Merged, Running, Seen, SeenSoon, LiveUnit, Live, ExactAt
  <2>3. SeenInv'
    BY <2>1, <2>2 DEF SeenInv, DoneInv
  <2> QED
    BY <2>1, <2>3, TablesAre DEF DoneInv, CopyInv, UnitsInv, CutoffInv, OldInv, Running
<1>9. CASE Launch \/ NothingNew \/ Crash
  <2>1. /\ ~Running' /\ UNCHANGED <<readings, cutoff, today, gold, seen, old>>
        /\ pc' \in {"idle", "drop", "read"}
        /\ pc' = "read" => old = <<>>
        /\ pc' = "drop" => old # <<>>
    BY <1>9, TablesAre DEF Launch, NothingNew, Crash, silver, Running
  <2>2. ~lost' => ~lost /\ (old # <<>> \/ pc # "drop")
    BY <1>9 DEF Launch, NothingNew, Crash
  <2>3. OldInv'
    BY <2>1 DEF OldInv
  <2>4. SeenInv'
    BY <2>1, <2>2 DEF SeenInv, ExactAt, LiveUnit, Live, Seen
  <2> QED
    BY <2>1, <2>3, <2>4 DEF DoneInv, CopyInv, UnitsInv, CutoffInv
<1>10. CASE Upgrade
  <2>1. /\ pc = "idle" /\ pc' = "idle" /\ old' = KEYED_BY_CODE
        /\ UNCHANGED <<readings, cutoff, today, gold, seen>>
    BY <1>10 DEF Upgrade, silver, driver
  <2>2. old' # <<>> /\ \A t \in Tables : \E n \in 1..Len(KEYED_BY_CODE) : KEYED_BY_CODE[n] = t
    <3>1. Tables = {KEYED_BY_CODE[n] : n \in DOMAIN KEYED_BY_CODE}
      BY DEF Tables, Range
    <3> QED
      BY <2>1, <3>1, TablesAre
  <2>3. OldInv'
    BY <2>1, <2>2 DEF OldInv
  <2> QED
    BY <2>1, <2>2, <2>3, TablesAre DEF SeenInv, DoneInv, CopyInv, UnitsInv, CutoffInv, Running
<1>11. CASE Midnight
  <2>1. today \in Nat /\ today' = today + 1 /\ Keep \in Nat
        /\ UNCHANGED <<readings, cutoff, gold, seen, old, pc, snapshot, lost>>
    BY <1>11, ConstantsAssumption DEF Midnight, driver, TypeInv, TypeOK, Days
  <2>2. CutoffInv'
    BY <2>1 DEF CutoffInv
  <2> QED
    BY <2>1, <2>2 DEF SeenInv, DoneInv, CopyInv, UnitsInv, OldInv, Merged, ExactAt, LiveUnit, Live,
                Seen, SeenSoon, SeenUntil, Changed, Running
<1>12. CASE UNCHANGED vars
  BY <1>12 DEF vars, silver, driver, SeenInv, DoneInv, CopyInv, UnitsInv, CutoffInv, OldInv, Merged,
               ExactAt, LiveUnit, Live, Seen, SeenSoon, SeenUntil, Changed, Running
<1> QED
  BY <1>1, <1>2, <1>3, <1>4, <1>5, <1>6, <1>7, <1>8, <1>9, <1>10, <1>11, <1>12 DEF Next

LEMMA CurrentInit == Init => CurrentInv
<1> SUFFICES ASSUME Init PROVE CurrentInv
  OBVIOUS
<1>1. \A t \in Tables : gold[t] = {} /\ \A w : w \notin Target(t, readings)
  <2>1. SiteRows(readings) = {} /\ InDaylight(SiteRows(readings))
    BY DEF Init, SiteRows, InDaylight
  <2>2. \A t \in Tables : \A w \in Target(t, readings) : \E q \in SiteRows(readings) : TRUE
    BY <2>1, DerivedAre DEF Target
  <2> QED
    BY <2>1, <2>2 DEF Init
<1>2. pc = "idle" /\ old = <<>> /\ cutoff = 0
  BY DEF Init
<1> QED
  BY <1>1, <1>2, TablesAre DEF CurrentInv, SeenInv, DoneInv, CopyInv, UnitsInv, CutoffInv, OldInv, ExactAt, Running

LEMMA CurrentAlways == Spec => []CurrentInv
<1>1. TypeInv /\ TypeInv' /\ EventsInv /\ CurrentInv /\ [Next]_vars => CurrentInv'
  BY CurrentStep
<1> QED
  BY <1>1, CurrentInit, TypeInvAlways, EventsInvAlways, PTL DEF Spec

\* The live part of every table, when gold has caught up.
LEMMA CaughtUpIsCurrent ==
  ASSUME TypeInv, CurrentInv, ~lost, CaughtUp, NEW t \in Tables
  PROVE  {w \in gold[t] : LiveUnit(t, Of(t, w))} = Target(t, {r \in readings : Live(Day(r.slot))})
<1> DEFINE live == {r \in readings : Live(Day(r.slot))}
<1>1. Timed(readings) /\ Timed(live)
  BY ReadingsAreTimed DEF Timed
<1>2. ASSUME NEW x \in Nat, LiveUnit(t, x)
      PROVE  \A w : Of(t, w) = x => (w \in gold[t] <=> w \in Target(t, live))
  <2>1. Seen(t, x)
    <3>1. \A r \in readings : r.at \in Nat /\ ~(r.at > seen)
      BY ReadingsAreTimed DEF CaughtUp, Changed
    <3>2. seen \in Nat
      BY ConstantsAssumption DEF TypeInv, TypeOK
    <3> QED
      BY <3>1, <3>2 DEF Seen
  <2>2. ExactAt(t, x)
    BY <1>2, <2>1 DEF CurrentInv, SeenInv, CaughtUp
  <2>3. \A r : UnitOf(t, r.slot) = x => (r \in readings <=> r \in live)
    BY <1>2 DEF LiveUnit, UnitOf
  <2>4. \A w : Of(t, w) = x => (w \in Target(t, readings) <=> w \in Target(t, live))
    <3> HIDE DEF live
    <3> QED
      BY <1>1, <2>3, TargetLocal
  <2> QED
    BY <2>2, <2>4 DEF ExactAt
<1>3. ASSUME NEW w \in Target(t, live)
      PROVE  Of(t, w) \in Nat /\ LiveUnit(t, Of(t, w))
  <2>1. InDaylight(SiteRows(live)) /\ \A q \in SiteRows(live) : \E r \in live : r.slot = q.slot
    <3> HIDE DEF live
    <3> QED
      BY <1>1, SiteRowsAre
  <2>2. PICK q \in SiteRows(live) : Of(t, w) = UnitOf(t, q.slot)
    BY <1>3, <2>1, DerivedAre DEF Target
  <2>3. PICK r \in live : r.slot = q.slot
    BY <2>1
  <2>4. r.slot \in Nat /\ Live(Day(r.slot))
    BY <1>1, <2>3 DEF Timed
  <2> QED
    BY <2>2, <2>3, <2>4, UnitsAreNaturals DEF LiveUnit, UnitOf
<1>4. \A w \in gold[t] : Of(t, w) \in Nat
  BY DEF CurrentInv, UnitsInv
<1> HIDE DEF live
<1>5. \A w : w \in gold[t] /\ LiveUnit(t, Of(t, w)) <=> w \in Target(t, live)
  BY <1>2, <1>3, <1>4
<1> QED
  BY <1>5 DEF live

LEMMA CaughtUpSites ==
  ASSUME TypeInv, CurrentInv, ~lost, CaughtUp
  PROVE  LiveRows = SiteRows({r \in readings : Live(Day(r.slot))})
<1>1. "site_15min" \in Tables /\ \A rs : Target("site_15min", rs) = SiteRows(rs)
  BY TablesAre DEF Target, Derived
<1>2. \A w : LiveUnit("site_15min", Of("site_15min", w)) <=> Live(Day(w.slot))
  BY DEF LiveUnit, Of, ByDay
<1> QED
  BY <1>1, <1>2, CaughtUpIsCurrent DEF LiveRows

\* Once gold has processed all of silver, the first table is the aggregate of
\* the readings of all days silver still has, whatever crashes, late readings,
\* deletions and rebuilds came before, except a driver that died between the
\* last DROP of a rebuild and the DELETE of the state.
THEOREM SitesAreCurrent == Spec => []SitesCurrent
<1>1. TypeInv /\ CurrentInv => SitesCurrent
  BY CaughtUpSites DEF SitesCurrent
<1> QED
  BY <1>1, TypeInvAlways, CurrentAlways, PTL

\* So are the other four, each of which is merged in a commit of its own and
\* from a window of its own: for the live days they are what the first table
\* gives.
THEOREM AggregatesAreCurrent == Spec => []AggregatesCurrent
<1>1. ASSUME TypeInv, CurrentInv, ~lost, CaughtUp
      PROVE  AggregatesCurrent
  <2> DEFINE live == {r \in readings : Live(Day(r.slot))}
  <2>1. LiveRows = SiteRows(live)
    BY <1>1, CaughtUpSites
  <2>2. \A t \in Tables : {w \in gold[t] : LiveUnit(t, Of(t, w))} = Derived(t, LiveRows)
    BY <1>1, <2>1, CaughtUpIsCurrent DEF Target
  <2> HIDE DEF live
  <2>3. {f \in gold["fleet_15min"] : Live(Day(f.slot))} = FleetRows(LiveRows)
    BY <2>2, TablesAre DEF LiveUnit, Of, ByDay, Derived
  <2>4. {d \in gold["site_daily"] : Live(d.day)} = DailyRows(LiveRows)
    BY <2>2, TablesAre DEF LiveUnit, Of, ByDay, Derived
  <2>5. {d \in gold["region_daily"] : Live(d.day)} = RegionRows(DailyRows(LiveRows))
    BY <2>2, TablesAre DEF LiveUnit, Of, ByDay, Derived
  <2>6. {e \in gold["fault_events"] : Live(Day(e.start))} = EventRows(LiveRows)
    BY <2>2, TablesAre DEF LiveUnit, Of, ByDay, Derived
  <2> QED
    BY <2>3, <2>4, <2>5, <2>6 DEF AggregatesCurrent
<1>2. TypeInv /\ CurrentInv => AggregatesCurrent
  BY <1>1 DEF AggregatesCurrent
<1> QED
  BY <1>2, TypeInvAlways, CurrentAlways, PTL
=============================================================================
