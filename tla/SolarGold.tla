----------------------------- MODULE SolarGold -----------------------------
(***************************************************************************)
(* gold.py of the solar pipeline: aggregates of the silver readings.       *)
(*                                                                         *)
(* A run looks for readings processed since the last one, takes the        *)
(* earliest 15-minute slot they touch and recomputes every table from that *)
(* slot, or from its day, on: one MERGE per table, which also deletes the  *)
(* rows of the window that the recomputation does not give.  The watermark *)
(* and then the state are written last; the driver can die between any two *)
(* of these commits.  Meanwhile silver appends readings, late ones among   *)
(* them, and the maintenance job deletes old days of silver.               *)
(*                                                                         *)
(* A row of a table stands for what it is an aggregate of.                 *)
(***************************************************************************)
EXTENDS Integers, FiniteSets, Sequences, FiniteSetsExt, Functions

CONSTANTS
    Sites,        \* all in one Kreis, postcode and peer group
    SlotsPerDay,  \* the first slot of a day is dark
    MaxDay,       \* bound: days
    Keep,         \* days the maintenance job keeps silver readings
    Lateness,     \* bound: days between a reading's time and its arrival
    Batches,      \* bound: what one silver run may append, [site, slot, low]
    MaxCommits,   \* bound: silver runs that append readings
    MaxCrashes,   \* bound: gold drivers that die
    Upgrades      \* bound: times the tables are found without Kreis codes

ASSUME ConstantsAssumption ==
    /\ SlotsPerDay \in Nat \ {0}
    /\ {MaxDay, Keep, Lateness, MaxCommits, MaxCrashes, Upgrades} \subseteq Nat
    /\ \A batch \in Batches :
        batch \subseteq [site: Sites, slot: 0..(SlotsPerDay * (MaxDay + 1) - 1), low: BOOLEAN]

Days == 0..MaxDay
Slots == 0..(SlotsPerDay * (MaxDay + 1) - 1)
Day(slot) == slot \div SlotsPerDay
Dark(slot) == slot % SlotsPerDay = 0

KEYED_BY_CODE == <<"site_15min", "fleet_15min", "site_daily", "region_daily", "fault_events">>
Tables == Range(KEYED_BY_CODE)

VARIABLES
    today,
    readings,   \* solar_silver.inverter_readings
    commits,    \* its last processed_at
    cutoff,     \* the day before which the maintenance job has deleted readings
    gold,       \* table -> rows
    watermark,  \* processed_until of fleet_15min
    seen,       \* processing_state: the last processed_at gold has processed
    old,        \* tables from before the Kreis codes
    pc,         \* the driver's next commit
    snapshot,   \* the readings as the driver loaded them
    crashes, upgrades

\* History, for the properties.
VARIABLES
    marked,     \* what the watermark was written for: the newest processed_at then,
                \* 0 when the tables have been dropped since
    lost        \* a driver has died when it had dropped the last old table and not
                \* deleted the state, and no rebuild has deleted the state since

driver == <<pc, snapshot>>
silver == <<today, readings, commits, cutoff>>
vars == <<silver, gold, watermark, seen, old, driver, crashes, upgrades, marked, lost>>

Init ==
    /\ today = 0
    /\ readings = {}
    /\ commits = 0
    /\ cutoff = 0
    /\ gold = [t \in Tables |-> {}]
    /\ watermark = 0
    /\ seen = 0
    /\ old = <<>>
    /\ pc = "idle"
    /\ snapshot = {}
    /\ crashes = 0
    /\ upgrades = 0
    /\ marked = 0
    /\ lost = FALSE

----------------------------------------------------------------------------
(***************************************************************************)
(* What gold reads                                                         *)
(***************************************************************************)

\* A silver run appends its readings in one commit, with one processed_at;
\* BatchRuns says when there is one driver at a time.  "low": the site
\* produced less than the weather promised.
SilverCommits ==
    /\ commits < MaxCommits
    /\ \E batch \in Batches :
        /\ \A r \in batch : Day(r.slot) \in (today - Lateness)..today
        /\ readings' = readings \union
               {[site |-> r.site, slot |-> r.slot, low |-> r.low, at |-> commits + 1] : r \in batch}
    /\ commits' = commits + 1
    /\ UNCHANGED <<today, cutoff, gold, watermark, seen, old, driver, crashes, upgrades, marked, lost>>

Midnight ==
    /\ today < MaxDay
    /\ today' = today + 1
    /\ UNCHANGED <<readings, commits, cutoff, gold, watermark, seen, old, driver, crashes, upgrades, marked, lost>>

\* maintenance.py deletes whole days.
Maintains ==
    /\ cutoff' = IF today > Keep THEN today - Keep ELSE 0
    /\ readings' = {r \in readings : Day(r.slot) >= cutoff'}
    /\ UNCHANGED <<today, commits, gold, watermark, seen, old, driver, crashes, upgrades, marked, lost>>

----------------------------------------------------------------------------
(***************************************************************************)
(* The aggregates                                                          *)
(***************************************************************************)

\* A row of site_15min: its readings and those of its peers in the slot.
SiteRow(rs, site, slot) ==
    LET here == {r \in rs : r.slot = slot}
        own == {r \in here : r.site = site}
        peers == here \ own
    IN [site |-> site, slot |-> slot, of |-> own, peers |-> peers,
        under |-> /\ ~Dark(slot)
                  /\ \A r \in own : r.low
                  /\ \E r \in peers : ~r.low]

SiteRows(rs) == {SiteRow(rs, r.site, r.slot) : r \in rs}

FleetRows(rows) ==
    {[slot |-> r.slot, from |-> {q \in rows : q.slot = r.slot}] : r \in rows}

DailyRows(rows) ==
    {[site |-> r.site, day |-> Day(r.slot),
      from |-> {q \in rows : q.site = r.site /\ Day(q.slot) = Day(r.slot)}] : r \in rows}

RegionRows(daily) ==
    {[day |-> d.day, from |-> {e \in daily : e.day = d.day}] : d \in daily}

Under(rows, site, slot) == \E r \in rows : r.site = site /\ r.slot = slot /\ r.under

\* Consecutive underperforming slots of a site, all of them.
Island(rows, site, a, b) ==
    /\ a <= b
    /\ \A slot \in a..b : Under(rows, site, slot)
    /\ ~Under(rows, site, a - 1) /\ ~Under(rows, site, b + 1)

EventRows(rows) ==
    LET bad == {r \in rows : r.under}
    IN {[site |-> p[1].site, start |-> p[1].slot, end |-> p[2].slot,
         from |-> {r \in bad : r.site = p[1].site /\ r.slot \in p[1].slot..p[2].slot}] :
           p \in {p \in bad \X bad : p[1].site = p[2].site
                                 /\ Island(bad, p[1].site, p[1].slot, p[2].slot)}}

Key(t, row) ==
    CASE t = "site_15min" -> <<row.site, row.slot>>
      [] t = "fleet_15min" -> <<row.slot>>
      [] t = "site_daily" -> <<row.site, row.day>>
      [] t = "region_daily" -> <<row.day>>
      [] t = "fault_events" -> <<row.site, row.start>>

\* Whether a row lies in the window that starts with slot s, or its day.
InWindow(t, row, s) ==
    CASE t \in {"site_15min", "fleet_15min"} -> row.slot >= s
      [] t \in {"site_daily", "region_daily"} -> row.day >= Day(s)
      [] t = "fault_events" -> Day(row.start) >= Day(s)

MergeOnly(t, new, s) ==
    [gold EXCEPT ![t] = {r \in @ : \A n \in new : Key(t, n) # Key(t, r)} \union new]

\* replace_window: one MERGE.
ReplaceWindow(t, new, s) ==
    [gold EXCEPT ![t] = {r \in @ : ~InWindow(t, r, s) /\ \A n \in new : Key(t, n) # Key(t, r)}
                        \union new]

----------------------------------------------------------------------------
(***************************************************************************)
(* A run of gold.py                                                        *)
(***************************************************************************)

LaunchUnchecked ==
    /\ pc = "idle"
    /\ pc' = "read"
    /\ UNCHANGED <<silver, gold, watermark, seen, old, snapshot, crashes, upgrades, marked, lost>>

\* After a silver run, or by hand.  rebuild_tables_without_codes drops the old
\* tables one by one ...
Launch ==
    /\ pc = "idle"
    /\ pc' = IF old = <<>> THEN "read" ELSE "drop"
    /\ UNCHANGED <<silver, gold, watermark, seen, old, snapshot, crashes, upgrades, marked, lost>>

DropOld ==
    /\ pc = "drop"
    /\ old # <<>>
    /\ gold' = [gold EXCEPT ![Head(old)] = {}]
    /\ old' = Tail(old)
    /\ marked' = 0
    /\ UNCHANGED <<silver, watermark, seen, driver, crashes, upgrades, lost>>

\* ... and then deletes the state.
Forget ==
    /\ pc = "drop"
    /\ old = <<>>
    /\ seen' = 0
    /\ pc' = "read"
    /\ lost' = FALSE
    /\ UNCHANGED <<silver, gold, watermark, old, snapshot, crashes, upgrades, marked>>

Changed(rs) == {r \in rs : r.at > seen}

NothingNew ==
    /\ pc = "read"
    /\ Changed(readings) = {}
    /\ pc' = "idle"
    /\ UNCHANGED <<silver, gold, watermark, seen, old, snapshot, crashes, upgrades, marked, lost>>

ReadChanged ==
    /\ pc = "read"
    /\ Changed(readings) # {}
    /\ snapshot' = readings
    /\ pc' = "site_15min"
    /\ UNCHANGED <<silver, gold, watermark, seen, old, crashes, upgrades, marked, lost>>

Start == Min({r.slot : r \in Changed(snapshot)})
SeenNow == commits
SeenUntil == Max({r.at : r \in Changed(snapshot)})

AfterMarkFirst == [site_15min |-> "watermark", watermark |-> "fleet_15min", fleet_15min |-> "site_daily",
                   site_daily |-> "region_daily", region_daily |-> "fault_events", fault_events |-> "state"]

\* The order of the commits.
After == [site_15min |-> "fleet_15min", fleet_15min |-> "site_daily", site_daily |-> "region_daily",
          region_daily |-> "fault_events", fault_events |-> "watermark", watermark |-> "state"]

FromStart(rows) == {r \in rows : r.slot >= Start}
FromStartOnly(rows) == {r \in rows : r.slot >= Start}
FromDay(rows) == {r \in rows : Day(r.slot) >= Day(Start)}

\* Every table but the first is computed from those merged before it.
Recomputed(t) ==
    CASE t = "site_15min" -> SiteRows(FromStart(snapshot))
      [] t = "fleet_15min" -> FleetRows(FromStart(gold["site_15min"]))
      [] t = "site_daily" -> DailyRows(FromDay(gold["site_15min"]))
      [] t = "region_daily" -> RegionRows(DailyRows(FromDay(gold["site_15min"])))
      [] t = "fault_events" -> EventRows(FromDay(gold["site_15min"]))

MergeTable ==
    /\ pc \in Tables
    /\ gold' = ReplaceWindow(pc, Recomputed(pc), Start)
    /\ pc' = After[pc]
    /\ UNCHANGED <<silver, watermark, seen, old, snapshot, crashes, upgrades, marked, lost>>

\* Complete up to the slot of the newest reading of the run.
WriteWatermark ==
    /\ pc = "watermark"
    /\ watermark' = Max({r.slot : r \in snapshot})
    /\ marked' = SeenUntil
    /\ pc' = After[pc]
    /\ UNCHANGED <<silver, gold, seen, old, snapshot, crashes, upgrades, lost>>

WriteState ==
    /\ pc = "state"
    /\ seen' = SeenUntil
    /\ pc' = "idle"
    /\ snapshot' = {}
    /\ UNCHANGED <<silver, gold, watermark, old, crashes, upgrades, marked, lost>>

Crash ==
    /\ pc # "idle"
    /\ crashes < MaxCrashes
    /\ crashes' = crashes + 1
    /\ pc' = "idle"
    /\ snapshot' = {}
    /\ lost' = (lost \/ (pc = "drop" /\ old = <<>>))
    /\ UNCHANGED <<silver, gold, watermark, seen, old, upgrades, marked>>

\* A new gold.py finds tables that an earlier one has written.
Upgrade ==
    /\ pc = "idle"
    /\ upgrades < Upgrades
    /\ upgrades' = upgrades + 1
    /\ old' = KEYED_BY_CODE
    /\ UNCHANGED <<silver, gold, watermark, seen, driver, crashes, marked, lost>>

Next ==
    \/ SilverCommits
    \/ Midnight
    \/ Maintains
    \/ Launch
    \/ DropOld
    \/ Forget
    \/ NothingNew
    \/ ReadChanged
    \/ MergeTable
    \/ WriteWatermark
    \/ WriteState
    \/ Crash
    \/ Upgrade

Spec == Init /\ [][Next]_vars

----------------------------------------------------------------------------
(***************************************************************************)
(* Properties                                                              *)
(***************************************************************************)

\* The types, and that a run has readings to work on and tables of its own
\* version once it has got past the check (main).
TypeOK ==
    /\ today \in Days
    /\ readings \subseteq [site: Sites, slot: Slots, low: BOOLEAN, at: 1..MaxCommits]
    /\ commits \in 0..MaxCommits
    /\ cutoff \in Days
    /\ DOMAIN gold = Tables
    /\ watermark \in Slots
    /\ seen \in 0..commits
    /\ marked \in 0..commits
    /\ old \in {SubSeq(KEYED_BY_CODE, n, 5) : n \in 1..6}
    /\ pc \in Tables \union {"idle", "drop", "read", "watermark", "state"}
    /\ pc \in Tables \union {"watermark", "state"} => Changed(snapshot) # {} /\ old = <<>>
    /\ lost \in BOOLEAN
    /\ crashes \in 0..MaxCrashes /\ upgrades \in 0..Upgrades

CaughtUp == pc = "idle" /\ old = <<>> /\ Changed(readings) = {}

\* The days whose readings silver still has.
Live(day) == day >= cutoff
LiveRows == {r \in gold["site_15min"] : Live(Day(r.slot))}

\* Once gold.py has processed all of silver, whatever crashes, late readings
\* and deletions there were, site_15min is the aggregate of the readings and
\* of their peers, for all days silver still has.  (Not after a crash between
\* the last DROP and the DELETE of the state: then nothing tells the next run
\* that the tables are empty.  A crash before that only delays the rebuild.)
SitesCurrent ==
    ~lost /\ CaughtUp => LiveRows = SiteRows({r \in readings : Live(Day(r.slot))})

\* Then the other tables agree with site_15min as well, although each of them
\* is updated by a commit of its own and from a different window.
AggregatesCurrent ==
    ~lost /\ CaughtUp =>
        /\ {f \in gold["fleet_15min"] : Live(Day(f.slot))} = FleetRows(LiveRows)
        /\ {d \in gold["site_daily"] : Live(d.day)} = DailyRows(LiveRows)
        /\ {d \in gold["region_daily"] : Live(d.day)} = RegionRows(DailyRows(LiveRows))
        /\ {e \in gold["fault_events"] : Live(Day(e.start))} = EventRows(LiveRows)

\* At every moment, also in the middle of a run and after a crash, the slots
\* before the watermark are complete in fleet_15min: only readings processed
\* after the watermark was written may be missing.  (While tables without
\* codes are being rebuilt the watermark says nothing.)
WatermarkHolds ==
    ~lost => \A r \in readings :
        r.slot < watermark /\ r.at <= marked /\ Live(Day(r.slot)) =>
            \E f \in gold["fleet_15min"] :
                f.slot = r.slot /\ \E q \in f.from : r \in q.of

\* fault_events never holds two events of a site that overlap, although late
\* readings join, split and move events, and the key is the first slot.
EventsDisjoint ==
    \A e, f \in gold["fault_events"] :
        e.site = f.site /\ e.start < f.start => e.end < f.start

\* What maintenance.py says: gold is kept.  No run of gold.py removes a slot
\* of a day that silver does not have any more.
GoldKept ==
    [][\A r \in gold["site_15min"] :
          Day(r.slot) < cutoff =>
              \E q \in gold'["site_15min"] : q.site = r.site /\ q.slot = r.slot]_vars
=============================================================================
