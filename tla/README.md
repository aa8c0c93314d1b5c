# TLA+ models of the Stackable data platform demo

This directory holds a formal model of the parts of the repository that keep state and can go wrong
in ways a test hardly reaches: the solar pipeline (Spark jobs and the DAGs that start them), the
switches of the demo landing page, the TPC-H transformation DAGs with OpenMetadata behind them, the
Jobs that set Superset, OpenMetadata and Trino up, and the script that maintains the Grafana dashboards.
Source references in this file are relative to the repository (`src/` in PROJECT.json).

- *Modules* (`*.tla`) say what the code does; *MC modules and `.cfg` files* give them small
  constants for TLC; *Proofs modules* hold theorems that TLAPS checks for all constants.
- `PROJECT.json` lists components, runs, one mutation of the code per property that the run must
  detect, the source lines of every definition, the findings, the hazards, and the theorems.

How to run: `tlc -config MCSolarSilver.cfg MCSolarSilver`, `tlapm SolarSilverProofs.tla`, and so on.

## 1. Inventory

### 1.1 Components, state, operations

| Component | State it keeps | Operations |
|---|---|---|
| bronze job (`bronze.py` in spark-jobs.yaml) | three bronze Iceberg tables, Spark checkpoints | append each Kafka message once; skip offsets Kafka lost |
| silver job (`silver.py`) | silver tables, `quarantine`, `processing_state` | per stream: read rows behind the offset, reject, split duplicates, append, advance |
| master data job (`dims.py`) | `dim_site`, `dim_weather_station`, `dim_landkreis` | replace each table with the latest record per id |
| gold job (`gold.py`) | seven aggregate tables, `watermark`, `processing_state` | find changed readings, one MERGE per table, watermark, state; rebuild of tables of an older layout |
| maintenance job (`maintenance.py`) | none of its own | retention, snapshot expiry, orphan files |
| solar DAGs (`dags/solar_pipeline.py`) | DAG runs, SparkApplications in Kubernetes, asset events | `run_spark_job`, `ensure_bronze` |
| landing page (`demo-landing/`) | none; the git repository in Forgejo is its state | `GET /`, `POST /toggle` |
| dbt DAG (`dags/tpch_dbt_dag.py`) | shards and artifacts in S3, tables in Trino | dbt tasks, `finalize_dbt_artifacts`, ingestion, owners |
| SQLMesh DAG (`dags/tpch_sqlmesh_dag.py`, `openmetadata_helpers.py`) | tables in Trino | plan and run, ingestion, owners |
| OpenMetadata (external) | catalog, owners, ingestion statuses | ingestions, edits by people |
| Superset set-up (`configure_superset.py`) | database connection, role, datasets, charts, dashboards in Superset | find each object by name, create or update it; layouts last |
| OpenMetadata set-up (`configure_openmetadata.py`) | services, pipelines and lineage in OpenMetadata | create what is missing, deploy ingestions, start them |
| Trino SQL job (`templates/trino-sql-job/run.py`) | schemas and tables in Trino | all statements of all files, in their order |
| Grafana dashboards (`scripts/grafana-dashboards.py`) | the committed dashboard files | make dashboards anew, put headers and lists on top of other people's |
| OPA policies (`platform/manifests/opa/`) | none | decisions; tables of `data2day.demo*` are closed without an owner |
| other set-up jobs (Garage, Lakekeeper, NiFi, Forgejo, Keycloak, ...) | what they create elsewhere | create what is missing, retried by Kubernetes |
| manifests, tofu, other scripts | configuration data | none of their own |

### 1.2 Interactions

- Kafka -> bronze -> silver -> gold go by *tables*: no stage calls another. Silver and gold keep
  their own progress (an offset per stream and partition; the last `processed_at`).
- Airflow starts a stage by *creating* a SparkApplication and polls its phase; the Stackable operator
  starts the driver and reports the phase later. Silver's success is an asset event that triggers gold.
- The maintenance job deletes from bronze and silver while the others read.
- The landing page and everybody who pushes share files in Forgejo; the only lock is the blob SHA.
- A run of the dbt DAG talks to itself through S3 (shards from many pods, merged by one), to
  OpenMetadata through artifacts with fixed names, and waits for ingestions it cannot tell from others'.
- The set-up Jobs run side by side and know of each other only through what they find: datasets need
  the tables of the Spark jobs, lineage needs tables, charts and ingestions of three other Jobs.
- The dashboard script reads what it wrote in earlier runs, and what people made of it since.

### 1.3 What is hard

1. *Crashes between commits.* Silver writes four tables per stream, gold seven, with no transaction.
2. *Data that arrives late, twice, or with gaps*, while retention removes what has not been read.
3. *Drivers outlive the task* that started them, phases are stale, calls fail with or without effect.
4. *Optimistic locking by content*, time-outs that race late effects, forms sent twice.
5. *Retries after a partial effect*: deleted shards, owners set for half of the tables.
6. *Windows in time* that are meant to pick one's own ingestion, and `markDeletedTables`.
7. *Scripts that start over from their first call* after a failed one, among objects that people edit,
   rename and delete; files rewritten in place by a script that can be interrupted in a write.
8. *Topics that forget* while they are read, and publishers of different versions.

### 1.4 What makes each component correct

- silver: no row lost, one reading per key, the lowest offset wins, offsets only move forward, it catches up.
- gold: once it has caught up, every table is the aggregate of silver; the watermark never says too
  much; events of a site do not overlap; what silver has forgotten stays.
- master data: a key and its Kreis code stay while Kafka knows them, rows get no older, nothing is missing
  for good.
- solar DAGs: one driver per set of tables; every run ends; gold follows silver; bronze always runs, once.
- landing page: a click flips the switch it shows, once, or changes nothing and says so truthfully.
- TPC-H DAGs: published results are those of the run; every listed mart gets an owner; owners set by
  people survive; every mart that was built becomes readable.
- set-up Jobs: one object per name; an attempt is not stopped by what the ones before it left; edits are
  undone; the lineage comes, in whatever order its parts came.
- dashboard script: what it leaves depends on what people made and on nothing else; nobody's panel is
  lost or moved twice; no panels overlap.

## 2. Modules

```
SolarSilver ---- refines ----> SilverLedger     SparkApps
   |      \                                     /        \
SolarSilverProofs  MCSolarSilver         BatchRuns     BronzeWatchdog
                                          |      \      /       |
SolarGold                        MCBatchRuns  SolarDagsProofs  MCBronzeWatchdog
   |      \
SolarGoldProofs  MCSolarGold             LandingToggle
                                          |          \
MasterData                        LandingToggleProofs  MCLandingToggle
   |      \
MasterDataProofs  MCMasterData

OpenMetadata                             GrafanaLayouts            SetUpJobs
     |                                        |                        |
  TpchDags                             GrafanaDashboards           SupersetJob
   |      \                               |          \                 |
TpchDagsProofs  MCTpchDags         GrafanaProofs  MCGrafanaDashboards  SetUp
                                                                     |    \
                                                           SetUpProofs  MCSetUp
```

### SolarSilver (silver.py) and SilverLedger

State: bronze rows with their offsets, the ids in the dimension tables, the silver tables as *bags*
(row -> copies, so that a second append is visible), the quarantine, `processing_state`; for every
driver the cached batch, the valid rows, the rows to append and the checkpointed state table.
Each Iceberg commit is one action, and so is each evaluation that fixes what is cached:
`ReadBatch` (`new_rows`), `QuarantineRejects` (`first_failure`), `SplitDuplicates`, `AppendSilver`,
`CheckpointState` and `OverwriteState` (`advance`). `Crash` can come between any two. The
environment: `Ingest` (bronze), `ExpireBronze` (maintenance), `LoadDims` (dims), `Rebuild`
(docs/solar-ingestion.md, "Rebuild silver").

A message is a key (id, minute) and the set of things wrong with it, which is all the rules look at.
Left out: the measurements silver computes for a reading (interval energy, expected output), which
no other step of silver reads; silver's own retention (it is in SolarGold). The quarantine is a
set, so an entry that a second attempt appends again counts once.

`Exclusive` says that a driver starts only when no other one runs. That is not an assumption about
silver but the guarantee BatchRuns examines: it holds unless a call to the API has failed.

`SilverLedger` is what the job promises: a row is settled by being kept or refused, a key is kept at
most once, and the cursor moves forward over settled rows only. `ImplementsLedger` checks that the
four commits of a stream, crashes included, implement it.

### SolarGold (gold.py)

Silver's readings carry only their slot, whether the site produced less than expected, and
`processed_at`. A row of a gold table is represented *by what it aggregates*: a site row holds its
readings and its peers', a fleet or daily row the site rows it was computed from. A row that is
stale is therefore different from one that is right, whatever the aggregate function.
`ReadChanged` pins the snapshot (the catalog caches the table for the run), `MergeTable` is one
MERGE (`replace_window`), `WriteWatermark` and `WriteState` follow, `Crash` may come in between;
silver commits, midnight passes, and the maintenance job deletes meanwhile. `Upgrade` stands for a
new gold.py that finds tables without Kreis codes; `DropOld` and `Forget` rebuild them. `lost` is history: a
driver has died between the last `DropOld` and `Forget`, the one place the next run cannot tell from a finished rebuild.
Left out: `dq_daily` and `cloud_cover`; all sites share a Kreis, a postcode and a peer group; a
failing statement is a `Crash`.

### MasterData (dims.py)

Per table its topic, a sequence of records in the order of their offsets, and the rows of the table. The
driver takes the tables in their order: `NothingToLoad` skips an empty topic, `Counts` sees that there
is something, and `Replaces` writes the latest record of every key. The two are separate actions
because the code caches nothing: `df.count()` reads the topic, and `writeTo` reads it again.
`Publishes`, `Deploys`, `Expires` and `Tick` are the generator, of versions that send Kreis codes,
send none or are down, and Kafka. Only the content that matters is kept: the key, when the record
was published and when it arrived, and the Kreis code, which a site keeps from the last record that
has one. In SolarSilver the same job is `LoadDims`, which may replace the known ids by any of the sets it is
given, the empty one among them.

### SparkApps, BatchRuns, BronzeWatchdog (dags/solar_pipeline.py)

SparkApps is the shared part: applications in order of creation, each with the driver's real state
and the phase the operator saw last. `Submits`, `DriverEnds` (or never), `Reports` are the operator and
Spark; `CallFails` ends a task at any call, before or after its effect.
BatchRuns is `run_spark_job`: create, poll until finished, delete after success or at the deadline,
keep a failed one. Gold is triggered by the asset event of silver. BronzeWatchdog is
`ensure_bronze`: list, do nothing while an application is active, else delete all finished ones but
the newest and create the next.
The names of applications are a small set in which a deleted name can be used again; in the code
they contain the time and never repeat. BronzeWatchdog's definitions have names of their own (`WatchSpec`, `WatchNext`,
`WatchTypeOK`), because one module proves things about both.

### LandingToggle (demo-landing)

Per tab: the files `GET /` has fetched (one by one, so that they can be of different moments), whether
it shows forms, the last click and its answer. `Click` checks the role again, `GetThenPut` sends the
fresh content with the flag opposite to the one *shown* under the SHA *shown*. The request is then
in flight: Forgejo applies or refuses it at any time, also after the client has timed out, and its
refusal may be a 409, a 422 or something else. Others push, delete or break the file; roles are
revoked. A blob SHA is represented by the content it is the hash of.

### OpenMetadata, TpchDags (dags/tpch_*.py)

OpenMetadata is the external part: built tables, catalog, owners, and ingestions that read Trino's
tables at their start and write the catalog at their end; with `markDeletedTables` a successful one
also removes what it did not find. TpchDags has one action per effect of a task: dbt tasks with one
retry and the upload of a shard by callback (which may fail silently), `Merges`, three `Publishes`,
`DeletesShards`, `FinalizeEnds`; `Triggers`, then polls of *the last ingestion started since*;
`GetsOwner` and `PatchesOwner` per mart. Attempts die at any step and start over, as Airflow's
retries do. `delete_objects` (tpch_dbt_dag.py:212-215) is one call with an outcome per key that nobody looks at:
`DeletesShards` leaves any subset of the shards, and `cut` remembers the runs of which an attempt died after that.
The SQLMesh DAG is the same without artifacts. Left out: waiting for the services,
logging in, a skew of clocks.

### SetUpJobs, SupersetJob, SetUp

A script is a sequence of calls. A call that fails, with its effect or without, ends the attempt
(`Aborts`), and the Job starts the script again from its first call until `Backoff` attempts have
failed. In SetUpJobs a call is the set of what it needs, the set of what it gives, and whether it fails when
that is there already (`Once`, empty for the statements of trino-init, which are all `IF NOT EXISTS`); that is all
there is to run.py and to configure_openmetadata.py.

SupersetJob adds what is special about configure_superset.py. Objects have ids and are found by name.
Looking for one (`Looks`: the GET of `find`) and writing it (`Proceeds`: POST or PUT) are two steps, between which
anything may happen. A call that is not answered within its 120 s ends the attempt (`Fails`), and Superset may have carried it out, or
not, or still do so at any later moment (`pending`, `Arrives`). References are ids the attempt has seen
(`got`), which go stale when people delete. What is sent differs by kind: of a dataset that is there only the
query, of a role the permissions, of a dashboard its layout at the end. `UserInterface` is what people
do: delete an object, change it (a physical dataset may get a query), put a dataset on another database, rename
an object, save a copy of a chart under its name. Superset refuses what it has to refuse (`Accepted`,
`Taken`): missing ids, missing tables, a second database, role or dashboard of a name, and does not delete a database in use.

SetUp composes the three with the tables that the Spark jobs create at any time, the pipeline that another Job
registers, and the ingestions, which read what is there when they run.
Left out: what the charts show, the contents of requests, roles beyond the first 100 that the search
for the viewers' role returns.

### GrafanaLayouts, GrafanaDashboards (scripts/grafana-dashboards.py)

GrafanaLayouts has the places of all panels, as rectangles on the grid. In GrafanaDashboards a file
maps dashboards to panels, a panel being its place and its *shape*: all that the script takes over from
a panel it uses as a template. The writes of a run are one action each, in their order, every one
with the files it reads; a run that dies (`Dies`) may leave the file it is writing torn, and a later one
fails on it (`Fails`) until somebody restores it from git. People vendor dashboards, edit them with
what the script added, change templates, and commit, while the script does not run.
Left out: queries, titles, colours, thresholds.

## 3. Runs

"V" marks a run that shows how a statement of the repository is violated (section 5).

| Run | Instance | What it shows |
|---|---|---|
| silver_safety | one driver, one partition, a weather row, three offsets of two sites, cap 2, one crash, retention, one rebuild | `NothingLost`, `UniqueKeys`, `LowestOffsetWins`, `DuplicatesHaveOriginal`, `StateMonotone`, `ImplementsLedger` |
| silver_catches_up | cloud rows with gaps shorter than the cap, a crash, dims that come late | `CatchesUp` |
| silver_rebuild_stall (V) | cap 1, retention, one rebuild | `RebuildCatchesUp` fails |
| gold | two sites, two days of three slots (the first dark), three silver runs with late readings, one crash at any commit or DROP, one upgrade | `SitesCurrent`, `AggregatesCurrent`, `WatermarkHolds`, `EventsDisjoint` |
| gold_kept (V) | the same without crash and upgrade | `GoldKept` fails |
| master_data | a site whose records may be a day late, a Kreis, no stations; three days, two deployments, one crash | `KnownStays`, `CodeSticks`, `NeverOlder`, `Complete` |
| batch_runs | silver with three names and one failed call, gold with one name | `DriversPerError`, `RunsEnd`, `GoldFollows` |
| bronze_watchdog | four names, three failed calls | `OneBronze`, `FewKept`, `NewestKept`, `BronzeRestarts` |
| landing_toggle | two tabs, one file, two loads and two clicks in one tab, one in the other, one push | `TrueAnswers`, `FlipsTheSwitch`, `EveryClickEnds` |
| tpch_dags | a dbt run of two marts alone, and one of one mart beside a SQLMesh run; two ingestions at a time, one failure anywhere, shards deleted in part, a person who edits one owner | `PublishedComplete`, `OwnedWhenDone`, `ManualOwnersSurvive`, `MartsOpen` |
| grafana_dashboards | dashboards with other panels, more or fewer of them; two edits, two interruptions | `AddedOnce`, `OneResult`, `NoOverlap` |
| set_up | two statements, a topic, a physical and a virtual dataset, two charts of which one is a layer of the other, a dashboard; three attempts; up to two edits, one late request | `OnePerName`, `EditsAreUndone`, `NothingInTheWay`, `LineageFollows` |

The type invariants (`TypeOK`) of silver, gold, master data and the set-up are checked in their runs; those of
all modules are proved (section 4). Every property of a passing run is tied to a
mutation of the modelled code that breaks it ("mutants" in PROJECT.json): a moved commit, a dropped
guard, a window off by one, a `return` for a `continue`.

### Bounds, and why they are enough

- *Silver.* Streams share only the state table and the weather rows the night rule reads, so one
  offset of weather and three of inverter already give a portion that ends in the middle of three
  equal keys, a repetition across portions, and a site that is unknown to one attempt and known to
  the next; the site table may also be emptied. One crash suffices for safety: what an attempt leaves behind is all the next one sees, and
  `NothingLost` and `UniqueKeys` are proved for any number of crashes. One partition: offsets of two partitions are
  not compared by any step except the order of equal offsets, which is nondeterministic.
- *Gold.* Three slots per day and two days have windows that start in the middle of a day, events that
  are joined, split and moved, and a deletion (`Keep = 0`) between two runs. Three silver runs: one
  processed, one late, one that arrives while gold is at work.
- *DAGs.* One failed call in silver's DAG makes an orphan; more of them only add orphans, which is what
  `DriversPerError` counts. The watchdog's instance has one name more than it can have applications,
  per the property `FewKept`, and one for the next.
- *Landing page.* Two tabs: one that clicks twice on the same page or reloads between, one that
  interferes. Larger numbers repeat these; `FlipsTheSwitch` and `TrueAnswers` are proved for all of them.
- *Master data.* A record lives through the day after its arrival, so that in three days those of the first
  expire and a site has records of all ages. Two deployments take the codes away and bring them
  back, or stop the generator until a topic is empty. Without stations a run skips a topic between two
  it loads. A key has one record per day and content, and Kafka deletes within a day what it may.
- *Grafana.* A dashboard that shrinks, one that grows, one with other shapes, in files with one
  and with two dashboards; two edits and two interruptions include an edit between an interrupted
  run and the next, and a restored file among newer ones. The three properties are proved for any.
- *Set-up.* The Superset Job is tried three times and the others twice, instead of 11 and 51 times: an
  attempt that starts over starts among all that an earlier one can have left. `Syncs` lists what runs side by side, to keep the
  product of edits, delays and Jobs small: Superset's Job alone with all its attempts and a late request; with two edits; with
  an edit and a late request; Superset's Job beside the metadata Job, the last attempt of each, so that charts and
  datasets come before, between and after the ingestions are deployed and started; run.py beside the metadata Job.
  Two edits rename the database and touch what depends on it, or delete an object behind an attempt's
  back twice. One late request is enough for a second object of a name or an update that comes too late.
  `OnePerName` and the three others that are invariants are proved for any number of all of these.
- *TPC-H.* Two ingestions at a time give the overlap in which an earlier one deletes what a later one
  found; two marts give a half-done attempt of the owners, and two models shards of which one is deleted; one
  failure lands at each step in turn. `SideBySide` has the two-model dbt run go on alone: the runs share
  the artifacts' names only with other dbt runs, and OpenMetadata with the SQLMesh run of the other instance.

All bounds are constants with a comment that starts with "bound"; guards on them are the only ones
that have no counterpart in the code. Deadlock is checked except for the landing page, where users
may stop, and the set-up, where Jobs end or give up.

### Fairness

- silver: Airflow starts it every ten minutes and a driver that does not die goes on (`WF` of
  `Launch` and `Work`); dims fills a missing dimension. Crashes are never fair, only bounded.
- DAGs: the clock reaches the deadline, the API answers, the operator submits and reports. Drivers
  may hang forever. Gold's runs are created for its events. `Discards` is fair only because names recycle.
- landing page: the handler goes on (each call has a 10 s time-out). Nothing about Forgejo.
- master data: Airflow starts the job every hour, a driver that does not die goes on, a generator that is
  up publishes every key.
- set-up: the Spark jobs run, so tables appear; deployed ingestions run by their schedules. Nothing about
  the Jobs themselves: `LineageFollows` is about those that have ended well.
- TPC-H: Airflow goes on with a run, ingestions start and end; those that fail or come too late are
  bounded, like dying attempts. dbt tasks and people owe nothing.

## 4. Proofs

TLAPS checks these for all values of the constants that satisfy the `ASSUME`s of the modules: any number of
drivers, crashes, failed calls, interruptions, edits, tabs, names, sites, days or dashboards.

| Module | Theorems | Inductive invariant |
|---|---|---|
| SolarSilverProofs | `TypeCorrect`: types; `NothingIsLost`; `KeysAreUnique`; `OriginalsExist`; `LowestIsKept`; `OffsetsNeverGoBack`; `CommitsImplementLedger` | `Accounted`, `KeysExclusive`, `AllAnswered`, `AllLowest`, `AllAhead` |
| SolarGoldProofs | `GoldTypes`: types; `MarkIsTrue`; `EventsAreDisjoint`; `SitesAreCurrent`; `AggregatesAreCurrent` | `MarkInv`, `EventsInv`, `CurrentInv` |
| SolarDagsProofs | `BatchTypes`, `WatchdogTypes`: types; `DriversComeFromErrors`; `OneBronzeDriver`; `AppsDoNotPileUp`; `NewestIsKept` | `OrphansInv`, `WatchInv` |
| MasterDataProofs | `MasterTypes`: types; `KnownKeysStay`; `CodesStick`; `RowsDoNotAge` | `MasterInv` |
| LandingToggleProofs | `LandingTypes`: types; `CommitsFlip`; `AnswersAreTrue` | `TypeInv`, `FlipInv`, `PageInv`, `RequestInv`, `AnswerInv` |
| TpchDagsProofs | `DagTypes`: types; `ResultsAreComplete`; `MartsAreOwned`; `OwnersSurvive` | `TypeInv`, `ArtifactsInv`, `OwnedInv`, `WishInv` |
| GrafanaProofs | `PanelsStayOnTheGrid`: types; `ExtendedOnce`; `OneResultOfARun`; `PanelsDoNotOverlap` | `TypeInv`, `GoodInv`, `ResultInv` |
| SetUpProofs | `SetUpTypes`: types; `NamesAreUnique`; `EditsUndone`; `NoAttemptIsBlocked`; `SetUpInvariant` | `SetUpInv` with `SupersetInv`, `SettledOK`; `GivenInv` |

`KeysAreUnique`, `OffsetsNeverGoBack` and `CommitsImplementLedger` assume `Exclusive`; `PanelsDoNotOverlap` assumes
`DesignsFit`; see below. The `ASSUME`s of the other modules are ranges of bounds, and what the scripts'
own dictionaries give: `NamesAssumption` (finite lists in which no name is listed twice; that objects of different kinds
have different names is a convention of the model), `ChartsAssumption` (a chart has one dataset of the list, the layered map is not a layer of itself),
`JobsAssumption` (finite lists of statements and topics, a limit of attempts), `StatementsAssumption` (a statement
uses what earlier ones create, as the numbered files of trino-init do), `ConstantsAssumption` of MasterData (a site
lies in one Kreis).

*Silver, why `NothingLost` needs more.* It talks about the stored offset only, but the offset that is going
to be stored sits in the memory of a driver. `Accounted` adds: (1) the cursor in a driver's memory (the
checkpointed state) also covers settled rows only; (2) a row of a batch is settled or is in the set
that driver is about to settle (`Handled`); (3) an earlier bronze row of the same partition is in
the batch or settled; (4) bronze never appends below an offset that was read. (3) is where a batch
recomputed after bronze grew would break it, and (4) uses that the bronze job reads each partition
in order. No exclusion of drivers is needed: a second driver settles more, never less.
`AllAnswered` is the same for the *answer* to a row (its key is in silver, or a rule refused it), which
`OriginalsExist` needs, because a duplicate is quarantined before its original is appended; `AllLowest` says of
rows kept and about to be kept that no earlier row of their key in bronze was acceptable.

*Why keys need exclusion.* `KeysExclusive` adds that at most one driver is at work and that what it
is about to append has distinct keys silver lacks (`FreshKeys`). With two drivers the second may
append the same key between the first one's anti-join and its append; that is why it matters when
`run_spark_job` starts a second one. `AllAhead` says that a driver's batch lies behind the stored offsets
and that the state it has read is still the stored one: no overwrite goes back. From all these follows
the refinement: each of the four commits is a step of SilverLedger or a stutter.

*Gold.* `MarkInv` follows a reading: processed before what gold has stored as seen, it is in `site_15min` and in
the fleet table (`KnownInv`, `MarkedInv`), while a run is going on it is in its snapshot (`LoadedInv`), and after
a table's MERGE it is in that table (`MergedInv`). `EventsInv` holds because the first slot of a day is
dark: no event of site rows crosses midnight, events are replaced by whole days, so two that overlap
would be of one day and of one computation. `CurrentInv` compares each table *unit by unit* (a slot or
a day, as the table has it) with what the readings give: a unit all of whose readings are seen is exact between
runs (`SeenInv`), one whose table the run has merged is exact with respect to the snapshot (`DoneInv`,
`CopyInv`). The lemmas that carry it are that every derived table is local, a unit depending on
readings of that slot or day only, and that a MERGE replaces exactly the units from its start on.
The rebuild is in it: crashes between any two DROPs are harmless because the tables not yet dropped send the next
run into the rebuild again (`OldInv`), and no watermark outlives the state it belongs to (`DroppedInv`). One crash is not:
after the last DROP and before the state is deleted the next run finds nothing old and goes on from a state whose tables are
gone. The theorems hold for all behaviours, and the properties except from that crash on (`lost`) until the state is deleted
by a later rebuild; it is listed as a hazard.

*DAGs.* `OrphansInv`: applications that have not finished and that no run looks after are at most as many as
failed calls. `WatchInv` is about what a watchdog's list becomes while it is being worked off: nobody
but itself creates a bronze application, a restart by hand only takes one away, so that the list stays
good until the next create.

*Landing page.* Each request in flight holds a content whose flag is the opposite of the one in the
content its SHA stands for (`FlipInv`), and Forgejo applies it only to that content. The content itself may
be another (section 5), the flag not. `PageInv` and `RequestInv` relate form, page and request of a tab, so
that `AnswerInv` can say which answers the state of a request allows.

*TPC-H.* `ArtifactsInv` follows a success from the dbt task (`PassedInv`) into a shard (`KeptInv`), into the merged
results (`MergedInv`), and into the published file (`PublishedInv`), also when finalize starts over
at any step. A shard may be missing only once an attempt has come as far as deleting them (`Deleted`): either that attempt
is still at its last step, when everything is published, or it has died and the run is in `cut`; then a later attempt
publishes what is left, never a wrong result. `OwnedInv` covers the tables an attempt has been through; `WishInv` says that
nobody's owner is on record for a table that an attempt has read as unowned: a person who sets one after that is in
the window that the property names.

*Master data.* `MasterInv` is short because the topic says it all: what a run writes is a function of the
records at that moment. It adds to the types that a record with a code has the code of its site, and so has a
row (`RowsOK`), which is why a code cannot change when an older record with a code takes over from an expired one. The
work is in `Newest`: a choice by the time of publication and then by the offset, which is shown to exist in
every non-empty set of offsets and to be published as late as any other. Expiry takes records from the start of the
log only, so that what is there afterwards was there before. None of this needs the run to be free of
crashes: between counting and replacing the topic may change, and a run may end after any table.

*Grafana.* `GoodInv` is `AddedOnce` of the files and of the commit they are restored from; `ResultInv` says of every
file already written by the current run what it is, of the ones the run has yet to read that they have the
shapes people made. `PanelsDoNotOverlap` then needs no further invariant, but geometry: a layout is a `Box`
between four edges if its panels lie inside and apart; two boxes that share an edge make a box (`Below`,
`Beside`), and every layout of the script is taken apart into rows and panels that do. The lists and
the header end above the offset by which the other panels are moved (`AddedClear`), and moving all
panels of a dashboard alike keeps them apart (`ExtendClear`). `DesignsFit` is what it cannot do without: no script
separates two panels that overlap on a dashboard people made. The run's designs have it, or `NoOverlap` would fail there.

*Set-up.* The ids in the memory of configure_superset.py may be those of objects that were deleted, renamed or edited behind
its back, and between the call that looks for a name and the call that makes the object a request of an attempt that
is long gone may make another. So `OnePerName` is not inductive, and does not hold for all objects: it excepts those of requests
that come *late* and those people copy. `InTimeOK` is what carries it: an attempt that has found none (`found = 0`) knows that every
object of the name is late, because only its own request could have made one in time; and an attempt that goes by an object made in time
goes by the only one. `FitsOK` adds that an id, in the attempt's memory or in a request under way, is never that of
an object of *another* name, so that updates do not give two objects one name. The proof of a step says what a request can do to the objects (`Sound`: made
by an attempt, by a late request, turned into, edited, deleted), then who can know an id after it (`StepKeeps`).

`EditsAreUndone` needs `SettledOK`: as long as nobody interferes and no late update comes in (`alone`), each name looked for has
its object (`Valid`), and each call that is passed has left its object as *defined*. That later calls do
not unsettle earlier ones is where the order of `Main` counts: a call refers only to names that were looked for before it
(`MadeInOrder`), no name is looked for twice (`EnsuredOnce`), and permissions and layouts are written after the objects they name. `EditedOK`
says what may stay edited: a dataset whose database was renamed or replaced, or a physical one with a query (`Defined` excepts these, see section 5).

`NothingInTheWay` follows: what a request names is `Valid`, and an object of the same name that Superset would refuse a second
one of is the one the attempt has found (`OwnOK`), unless it came late in between. For the other two
scripts `GivenInv` says that what an attempt's calls so far give is there, and `InOrder` that every call uses only that: for
configure_openmetadata.py by taking the script apart into the scripts of its functions (`InOrderThen`), for run.py by
`StatementsAssumption` and `Once = {}`, which is the point: with one statement that cannot be repeated the Job is stuck.

*Only model-checked.* Liveness (`CatchesUp`, `Complete`, `RunsEnd`, `GoldFollows`, `BronzeRestarts`,
`EveryClickEnds`, `MartsOpen`, `LineageFollows`) is outside what TLAPS proves. Every other property of a passing
run is a theorem.

## 5. Findings

1. *A rebuilt silver can stand still* (silver_rebuild_stall, spark-jobs.yaml:298). The read window ends
   at `last_offset + MAX_ROWS_PER_RUN`. After the documented rebuild it starts from -1; once retention
   has removed the first `MAX_ROWS_PER_RUN` offsets, it is empty in every run.
2. *A late reading removes gold rows for good* (gold_kept, spark-jobs.yaml:578). Gold recomputes from
   the slot of the earliest new reading and deletes what silver does not give; silver forgets after
   7 days, "gold kept" says the documentation.

Further behaviour that is worth knowing; the hazards in PROJECT.json point at the lines:

- *A failed call leaves a driver behind* (dags/solar_pipeline.py:138). `run_spark_job` deletes its application
  when it succeeds or is late, not when an exception ends the task: the next run then starts the second
  driver that the docstring means to rule out. `DriversPerError` says that nothing else does.
- *finalize cannot be retried after its last step* (dags/tpch_dbt_dag.py:163, 212-215): the shards are deleted inside
  the task, in one call whose result per shard is not looked at. A retry after that finds none and blames the dbt
  tasks, 1000 times; or, if some are left, merges those and publishes a run_results.json with fewer models
  over the complete one. `PublishedComplete` says that this is all: before that step a death changes nothing, and no result is ever wrong.
- *An empty topic can empty a table* (spark-jobs.yaml:175-179): the count that is to leave the table untouched
  is of another read than the one written. If Kafka deletes the last records in between, silver refuses
  readings as `unknown_site` until the generator publishes again; `Complete` says that this heals.
- *A reverted edit comes back* (demo-landing/src/routes.rs:250): the fresh content is committed under the SHA of
  the page, and a blob SHA matches again after a revert.
- *Some edits in Superset stay* (configure_superset.py:249-258), although its docstring says that "edits made here win
  over edits made in the UI" (4-5): a dataset is found by schema and table alone, and of one that is there only the query is sent, if
  the script has one. So a dataset stays on a database that people renamed (the script makes a new one and gives the viewers' role
  only that) or have moved it to, and a physical dataset keeps a query somebody gave it. `EditsAreUndone` excepts exactly these.
- *A request that takes more than 120 s can make a second object* (configure_superset.py:64): the next attempt looks
  before it is carried out, finds nothing and makes its own; later runs take the first one they find. For charts
  nothing in Superset rules it out; databases, roles and dashboards have unique names, and the attempt that is second fails and starts over.
- *A crash in the rebuild of gold* (spark-jobs.yaml:570): see section 4, *Gold*.

## 6. Not modelled, and why

- *Formatting, page layout, icons, fonts, tofu, manifests, other scripts*: no behaviour of their own.
- *Lineage declarations*: pure data; the asset event that matters is in BatchRuns.
- *dbt, SQLMesh and Trino SQL*: evaluated by other systems, without state of their own.
- *OPA, Airflow and NiFi policies*: stateless decisions. What ownership has to do with access is
  covered as far as "every listed mart gets an owner".
- *NiFi set-up and the other set-up Jobs*: shell scripts around command line tools, of the pattern of
  SetUpJobs; nothing modelled reads from what they create.
- *Service links of the landing page*: read-only, per request, only shown.
- *Snapshot expiry and orphan files*: do not change what tables hold.
- *Spark checkpoints of bronze, Kafka, Iceberg's commit protocol*: external and taken at their word
  (each offset once and in order; a commit is atomic).
- *`dq_daily`, `cloud_cover`*: tables of gold that no other step reads. (`dq_daily` is recomputed from the day of
  the earliest new reading, so that rejects of a day without a later reading are not counted.)
- *The rest of `main` in the scripts*: credentials, addresses, waiting for services.

Where the model is coarser than the code and a hazard remains, PROJECT.json lists the hazard with a
note. Not listed there: the grace period in which a deleted driver goes on; a failed deletion after silver's
success, for which gold waits until the next one; artifacts of two dbt runs under one name; a dbt task cleared after
the run has ended, whose single result finalize then publishes; a skew between the clocks of worker
and OpenMetadata; the text that `kafka()` and `nifi()` cut out of vendored dashboards.

## 7. Plan

Done in this order: SolarSilver with SilverLedger; LandingToggle; SparkApps, BatchRuns, BronzeWatchdog;
SolarGold; OpenMetadata, TpchDags; GrafanaLayouts, GrafanaDashboards; SetUpJobs, SupersetJob, SetUp; MasterData;
and the proofs of all of their safety properties.

Next, the most valuable first:

1. A composition of the DAG layer with silver: `Exclusive` replaced by the runs that start drivers, to
   state what one orphan can do to the tables: without failed calls, one driver at a time should follow from
   `DriversComeFromErrors` and take the place of the hypothesis of `KeysAreUnique`.
2. `dq_daily` in SolarGold, which needs the rejects of silver.
3. The NiFi set-up: the process group that exists but has no processors after an attempt that died.
4. `lookup_service` and `pick_node_ip` of the landing page, against reference definitions.
