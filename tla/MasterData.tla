----------------------------- MODULE MasterData -----------------------------
(***************************************************************************)
(* dims.py of the solar pipeline: master data from Kafka into the three    *)
(* dimension tables.                                                       *)
(*                                                                         *)
(* The generator publishes its sites, weather stations and Kreise at       *)
(* startup and every day; Kafka forgets a record after some days.  A run   *)
(* takes one table after the other: it counts the latest records of all    *)
(* keys in the topic and, when there are any, replaces the table.  Nothing *)
(* is cached: the replacement reads the topic again.                       *)
(***************************************************************************)
EXTENDS Integers, Sequences, FiniteSets

CONSTANTS
    Sites, Stations, Kreise,
    CodeOf,      \* the Kreis of a site, which does not change
    NoCode,      \* kreis_ags IS NULL: a generator before 0.1.3 does not send it
    Retention,   \* days Kafka keeps a record
    Skew,        \* bound: table -> days a record may take to arrive, or clocks may differ
    MaxTime,     \* bound: days
    MaxDeploys,  \* bound: generators stopped or replaced by another version
    MaxCrashes   \* bound: drivers that die

\* In the order in which main replaces them.
Tables == <<"dim_site", "dim_weather_station", "dim_landkreis">>
Dims == {"dim_site", "dim_weather_station", "dim_landkreis"}

ASSUME ConstantsAssumption ==
    /\ CodeOf \in [Sites -> Kreise]
    /\ NoCode \notin Kreise
    /\ Skew \in [Dims -> Nat]
    /\ {Retention, MaxTime, MaxDeploys, MaxCrashes} \subseteq Nat

KeysOf == [dim_site |-> Sites, dim_weather_station |-> Stations, dim_landkreis |-> Kreise]

VARIABLES
    now,
    generator,  \* "down", or one that does or does not send codes: "new", "old"
    topic,      \* table -> its topic's records in the order of their offsets
    dim,        \* table -> rows
    at, pc,     \* the driver: the table it is at, and whether it has counted
    crashes, deploys

driver == <<at, pc>>
vars == <<now, generator, topic, dim, driver, crashes, deploys>>

Init ==
    /\ now = 0
    /\ generator \in {"old", "new"}
    /\ topic = [t \in Dims |-> <<>>]
    /\ dim = [t \in Dims |-> {}]
    /\ at = 1
    /\ pc = "idle"
    /\ crashes = 0
    /\ deploys = 0

----------------------------------------------------------------------------
(***************************************************************************)
(* The generator and Kafka                                                 *)
(***************************************************************************)

CodeSent(t, key) == IF t = "dim_site" /\ generator = "new" THEN CodeOf[key] ELSE NoCode

\* At startup and every day; bound: one record of a key per day and content.
Publishes(t, key) ==
    /\ generator # "down"
    /\ \A n \in DOMAIN topic[t] :
        topic[t][n].key = key /\ topic[t][n].arrived = now => topic[t][n].code # CodeSent(t, key)
    /\ \E published \in Nat \intersect (now - Skew[t])..now :
        topic' = [topic EXCEPT ![t] = Append(@, [key |-> key, code |-> CodeSent(t, key),
                                                 published |-> published, arrived |-> now])]
    /\ UNCHANGED <<now, generator, dim, driver, crashes, deploys>>

Deploys ==
    /\ deploys < MaxDeploys
    /\ deploys' = deploys + 1
    /\ generator' \in {"down", "old", "new"} \ {generator}
    /\ UNCHANGED <<now, topic, dim, driver, crashes>>

Expired(record) == record.arrived + Retention < now

\* From the start of the log: records arrive in the order of their offsets.
Expires(t) ==
    /\ \E n \in DOMAIN topic[t] :
        /\ Expired(topic[t][n])
        /\ topic' = [topic EXCEPT ![t] = SubSeq(@, n + 1, Len(@))]
    /\ UNCHANGED <<now, generator, dim, driver, crashes, deploys>>

\* Bound: Kafka deletes within a day what it may delete.
Tick ==
    /\ now < MaxTime
    /\ \A t \in Dims : \A n \in DOMAIN topic[t] : ~Expired(topic[t][n])
    /\ now' = now + 1
    /\ UNCHANGED <<generator, topic, dim, driver, crashes, deploys>>

----------------------------------------------------------------------------
(***************************************************************************)
(* A run of dims.py                                                        *)
(***************************************************************************)

NewerByOffset(t, m, n) == m > n

\* Of two records the one published later, or with the higher offset.
Newer(t, m, n) ==
    \/ topic[t][m].published > topic[t][n].published
    \/ topic[t][m].published = topic[t][n].published /\ m > n

Newest(t, offsets) == CHOOSE m \in offsets : \A n \in offsets \ {m} : Newer(t, m, n)

Offsets(t, key) == {n \in DOMAIN topic[t] : topic[t][n].key = key}

CodeOfNewest(t, key) == topic[t][Newest(t, Offsets(t, key))].code

\* kreis_ags is sticky: from the latest record that has it.
Code(t, key) ==
    LET coded == {n \in Offsets(t, key) : topic[t][n].code # NoCode}
    IN IF coded = {} THEN NoCode ELSE topic[t][Newest(t, coded)].code

Row(t, key) ==
    [key |-> key, code |-> Code(t, key), published |-> topic[t][Newest(t, Offsets(t, key))].published]

EveryRecord(t) ==
    {[key |-> topic[t][n].key, code |-> topic[t][n].code, published |-> topic[t][n].published] :
        n \in DOMAIN topic[t]}

LatestOfToday(t) ==
    {Row(t, key) : key \in {k \in KeysOf[t] : \E n \in Offsets(t, k) : topic[t][n].arrived = now}}

\* latest: a row per key.
Latest(t) == {Row(t, key) : key \in {k \in KeysOf[t] : Offsets(t, k) # {}}}

Launch ==
    /\ pc = "idle"
    /\ at' = 1
    /\ pc' = "count"
    /\ UNCHANGED <<now, generator, topic, dim, crashes, deploys>>

GoesOn ==
    /\ at' = IF at < Len(Tables) THEN at + 1 ELSE 1
    /\ pc' = IF at < Len(Tables) THEN "count" ELSE "idle"

EndsWhenEmpty ==
    /\ pc = "count"
    /\ Latest(Tables[at]) = {}
    /\ at' = 1
    /\ pc' = "idle"
    /\ UNCHANGED <<now, generator, topic, dim, crashes, deploys>>

NothingToLoad ==
    /\ pc = "count"
    /\ Latest(Tables[at]) = {}
    /\ GoesOn
    /\ UNCHANGED <<now, generator, topic, dim, crashes, deploys>>

Counts ==
    /\ pc = "count"
    /\ Latest(Tables[at]) # {}
    /\ pc' = "replace"
    /\ UNCHANGED <<now, generator, topic, dim, at, crashes, deploys>>

Replaces ==
    /\ pc = "replace"
    /\ dim' = [dim EXCEPT ![Tables[at]] = Latest(Tables[at])]
    /\ GoesOn
    /\ UNCHANGED <<now, generator, topic, crashes, deploys>>

Crash ==
    /\ pc # "idle"
    /\ crashes < MaxCrashes
    /\ crashes' = crashes + 1
    /\ at' = 1
    /\ pc' = "idle"
    /\ UNCHANGED <<now, generator, topic, dim, deploys>>

Next ==
    \/ \E t \in Dims : \E key \in KeysOf[t] : Publishes(t, key)
    \/ Deploys
    \/ \E t \in Dims : Expires(t)
    \/ Tick
    \/ Launch
    \/ NothingToLoad
    \/ Counts
    \/ Replaces
    \/ Crash

Spec == Init /\ [][Next]_vars

\* Airflow starts the job every hour, a driver that does not die goes on, and a
\* generator that is up publishes every key.
FairSpec ==
    /\ Spec
    /\ WF_vars(Launch) /\ WF_vars(NothingToLoad) /\ WF_vars(Counts) /\ WF_vars(Replaces)
    /\ \A t \in Dims : \A key \in KeysOf[t] : WF_vars(Publishes(t, key))

----------------------------------------------------------------------------
(***************************************************************************)
(* Properties                                                              *)
(***************************************************************************)

Rows(t) == [key: KeysOf[t], code: Kreise \union {NoCode}, published: 0..MaxTime]

\* The types, and that a table has a row per key.
TypeOK ==
    /\ now \in 0..MaxTime
    /\ generator \in {"down", "old", "new"}
    /\ \A t \in Dims :
        /\ topic[t] \in Seq([key: KeysOf[t], published: 0..MaxTime, arrived: 0..MaxTime,
                             code: Kreise \union {NoCode}])
        /\ dim[t] \subseteq Rows(t)
        /\ \A q, r \in dim[t] : q.key = r.key => q = r
    /\ at \in 1..Len(Tables) /\ pc \in {"idle", "count", "replace"}
    /\ crashes \in 0..MaxCrashes /\ deploys \in 0..MaxDeploys

\* A key of a table stays there as long as Kafka has any record of it: silver
\* would refuse all readings of a site that has left dim_site (unknown_site).
KnownStays ==
    [][\A t \in Dims : \A q \in dim[t] :
          Offsets(t, q.key)' # {} => \E r \in dim'[t] : r.key = q.key]_vars

\* A site keeps its Kreis code as long as Kafka has a record with it, also while
\* a generator that sends none publishes newer ones (a rollback).
CodeSticks ==
    [][\A q \in dim["dim_site"] :
          q.code # NoCode /\ (\E n \in Offsets("dim_site", q.key)' : topic'["dim_site"][n].code # NoCode) =>
              \E r \in dim'["dim_site"] : r.key = q.key /\ r.code = q.code]_vars

\* A row is never replaced by one published earlier while Kafka still has one
\* published as late: records that arrive late, or from a generator whose clock
\* is behind, do not win by their offset.
NeverOlder ==
    [][\A t \in Dims : \A q \in dim[t], r \in dim'[t] :
          q.key = r.key /\ (\E n \in Offsets(t, q.key)' : topic'[t][n].published >= q.published) =>
              r.published >= q.published]_vars

\* Once a generator that sends codes stays, all sites are known for good, with
\* a code whose Kreis is known as well, whatever came before.
Complete ==
    <>[](generator = "new") =>
        <>[](\A site \in Sites :
                /\ \E r \in dim["dim_site"] : r.key = site /\ r.code = CodeOf[site]
                /\ \E k \in dim["dim_landkreis"] : k.key = CodeOf[site])
=============================================================================
