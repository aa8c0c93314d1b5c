------------------------- MODULE GrafanaDashboards -------------------------
(***************************************************************************)
(* scripts/grafana-dashboards.py: rewrites the committed dashboards in     *)
(* place.  Some it makes anew, but from panels of the file it replaces;    *)
(* others belong to people (edited by hand, exported from Grafana or       *)
(* vendored), and it only puts a header or lists on top of them.           *)
(*                                                                         *)
(* A dashboard maps the ids of its panels to their place and shape, the    *)
(* shape being all that the script takes over from an existing panel.  A   *)
(* file maps names to dashboards.  It is torn while it is being written.   *)
(***************************************************************************)
EXTENDS GrafanaLayouts, FiniteSets

CONSTANTS
    Plain,      \* the shape of a panel that is the script's alone
    Shapes,     \* what people may make of the panels it uses as templates
    Designs,    \* what people may make of the dashboards it extends
    Torn,       \* a file that cannot be read
    MaxEdits,   \* bound: dashboards that people change
    MaxDeaths   \* bound: runs of the script that are interrupted

VARIABLES
    tree,       \* the files
    step,       \* the next write of a run; 0 if none is going on
    edits,
    deaths

\* History, for the properties, and the last commit.
VARIABLES
    made,       \* the dashboards and templates as people made them, last
    git         \* the files, and made, as they were committed

vars == <<tree, step, edits, deaths, made, git>>

Extended == {"airflow", "opa", "logs", "kafka", "nifi"}
File(d) == IF d \in {"kafka", "nifi"} THEN "stackable" ELSE d
Reserved(d) == IF d \in {"kafka", "nifi"} THEN 100..999 ELSE {900}

Shape == Shapes \union {Plain}
Panel == [at: [1..4 -> Nat], shape: Shape]

ASSUME BoundsAssumption == MaxEdits \in Nat /\ MaxDeaths \in Nat

\* Other people's panels do not have the script's ids.
ASSUME DesignsAssumption ==
    /\ DOMAIN Designs = Extended
    /\ \A d \in Extended : \A dash \in Designs[d] :
        /\ dash \in [DOMAIN dash -> Panel]
        /\ DOMAIN dash \intersect Reserved(d) = {}
    /\ \A dash \in Designs.airflow : {1, 2, 4} \subseteq DOMAIN dash

\* The script's panels, numbered from first on.
Placed(first, places, shapes) ==
    [i \in first..(first + Len(places) - 1) |-> [at |-> places[i - first + 1], shape |-> shapes[i]]]
Own(first, places) == Placed(first, places, [i \in first..(first + Len(places)) |-> Plain])

Header == Own(900, HeaderPanel)
Added(d) ==
    CASE d = "kafka" -> Own(100, KafkaLists)
      [] d = "nifi"  -> Own(100, NifiLists)
      [] OTHER       -> Header
Offset(d) ==
    CASE d = "kafka" -> KafkaOffset
      [] d = "nifi"  -> NifiOffset
      [] OTHER       -> HeaderOffset

Down(panel, by) == [panel EXCEPT !.at[2] = @ + by]

Merge(f, g) == [i \in DOMAIN f \union DOMAIN g |-> IF i \in DOMAIN g THEN g[i] ELSE f[i]]

\* The dashboard without the panels in reserved, moved down unless there were
\* some, and the script's own panels.
Foreign(dash, reserved) == DOMAIN dash \ reserved
ExtendAlways(dash, reserved, added, offset) ==
    Merge([i \in Foreign(dash, reserved) |-> Down(dash[i], offset)], added)
Extend(dash, reserved, added, offset) ==
    LET by == IF Foreign(dash, reserved) = DOMAIN dash THEN offset ELSE 0
    IN  Merge([i \in Foreign(dash, reserved) |-> Down(dash[i], by)], added)

WithLists(d, dash) == Extend(dash, Reserved(d), Added(d), Offset(d))
WithHeader(dash) == Extend(dash, {900}, Header, HeaderOffset)

----------------------------------------------------------------------------
(***************************************************************************)
(* The dashboards it makes anew                                            *)
(***************************************************************************)

\* The panel of the current "Trino query detail" each new one is made from.
TemplateSwapped == [i \in 1..11 |-> CASE i = 7 -> 8 [] i = 10 -> 11 [] i = 11 -> 10 [] OTHER -> i]
Template == [i \in 1..11 |-> IF i = 7 THEN 8 ELSE i]

TrinoQueries(old) == Placed(1, TrinoQueriesPanels, [i \in {1} |-> old[1].shape])
TrinoDetail(old) == Placed(1, TrinoDetailPanels,
    [i \in 1..11 |-> IF i < 7 THEN Plain ELSE old[Template[i]].shape])

\* The panel shapes of "Airflow authorization": a time series, tables, logs.
NifiAuthorization(airflow) == Placed(1, NifiAuthorizationPanels,
    [i \in 1..6 |-> airflow[CASE i = 1 -> 1 [] i = 4 -> 4 [] OTHER -> 2].shape])

Trino(old) == [queries |-> TrinoQueries(old.queries), detail |-> TrinoDetail(old.detail)]
Overview == Own(1, OverviewPanels)
KafkaFile == [topic |-> Own(1, KafkaTopicPanels), broker |-> Own(1, KafkaBrokerPanels)]
NifiFlow == [group |-> Own(1, NifiGroupPanels), processor |-> Own(1, NifiProcessorPanels)]

Branded(file) == [d \in DOMAIN file |-> WithHeader(file[d])]
Listed(d, file) == [file EXCEPT ![d] = WithLists(d, @)]

\* The writes of a run: the files, and what is read for each of them.
Order == <<"trino", "authorization", "trino", "airflow", "authorization", "opa", "logs",
           "overview", "stackable", "kafka", "stackable", "flow">>
Reads == <<{"trino"}, {"airflow"}, {"trino"}, {"airflow"}, {"authorization"}, {"opa"}, {"logs"},
           {}, {"stackable"}, {}, {"stackable"}, {}>>
Running == 1..Len(Order)
Done == Len(Order) + 1
Files == {Order[n] : n \in Running}

Readable(n) == \A f \in Reads[n] : tree[f] # Torn

Writes(n, content) ==
    /\ step = n
    /\ Readable(n)
    /\ tree' = [tree EXCEPT ![Order[n]] = content]
    /\ step' = n + 1
    /\ UNCHANGED <<edits, deaths, made, git>>

WritesTrino == Writes(1, Trino(tree.trino))
WritesNifiAuthorization ==
    Writes(2, [nifi |-> NifiAuthorization(tree.airflow.airflow)])
Brands == \E n \in 3..7 : Writes(n, Branded(tree[Order[n]]))
WritesOverview == Writes(8, [overview |-> Overview])
ListsKafka == Writes(9, Listed("kafka", tree.stackable))
WritesKafka == Writes(10, KafkaFile)
ListsNifi == Writes(11, Listed("nifi", tree.stackable))
WritesNifiFlow == Writes(12, NifiFlow)

Starts ==
    /\ step \notin Running
    /\ step' = 1
    /\ UNCHANGED <<tree, edits, deaths, made, git>>

\* It is interrupted, perhaps in the middle of a write.
Dies ==
    /\ step \in Running
    /\ deaths < MaxDeaths
    /\ tree' \in {tree, [tree EXCEPT ![Order[step]] = Torn]}
    /\ step' = 0
    /\ deaths' = deaths + 1
    /\ UNCHANGED <<edits, made, git>>

\* It cannot read a file.
Fails ==
    /\ step \in Running
    /\ ~Readable(step)
    /\ step' = 0
    /\ UNCHANGED <<tree, edits, deaths, made, git>>

----------------------------------------------------------------------------
(***************************************************************************)
(* People, while the script does not run                                   *)
(***************************************************************************)

Edit(f) ==
    /\ step \notin Running
    /\ tree[f] # Torn
    /\ edits < MaxEdits
    /\ edits' = edits + 1
    /\ step' = 0
    /\ UNCHANGED <<deaths, git>>

\* A dashboard is vendored or made anew, or edited with what the script added.
Redesigns(d) ==
    /\ Edit(File(d))
    /\ \E design \in Designs[d] :
        /\ made' = [made EXCEPT ![d] = design]
        /\ \E dash \in {design, WithLists(d, design)} :
            tree' = [tree EXCEPT ![File(d)] = [@ EXCEPT ![d] = dash]]

\* A panel is edited that the script uses as a template.
Reshapes(d) ==
    /\ Edit("trino")
    /\ \E i \in DOMAIN made[d], s \in Shapes :
        /\ made' = [made EXCEPT ![d][i] = s]
        /\ tree' = [tree EXCEPT !.trino = [@ EXCEPT ![d][i].shape = s]]

Commits ==
    /\ step = Done
    /\ git' = [tree |-> tree, made |-> made]
    /\ UNCHANGED <<tree, step, edits, deaths, made>>

\* git checkout of a file
Kept(f) == IF f = "trino" THEN {"queries", "detail"} ELSE {d \in Extended : File(d) = f}
Restores(f) ==
    /\ step \notin Running
    /\ tree[f] = Torn
    /\ tree' = [tree EXCEPT ![f] = git.tree[f]]
    /\ made' = [d \in DOMAIN made |-> IF d \in Kept(f) THEN git.made[d] ELSE made[d]]
    /\ step' = 0
    /\ UNCHANGED <<edits, deaths, git>>

----------------------------------------------------------------------------
\* What a complete run makes of what people made.
Result(m) ==
    [trino |-> Branded([queries |-> Placed(1, TrinoQueriesPanels, m.queries),
                        detail |-> Placed(1, TrinoDetailPanels,
                            [i \in 1..11 |-> IF i < 7 THEN Plain ELSE IF i = 7 THEN m.detail[8] ELSE m.detail[i]])]),
     authorization |-> Branded([nifi |-> NifiAuthorization(m.airflow)]),
     airflow |-> [airflow |-> WithHeader(m.airflow)],
     opa |-> [opa |-> WithHeader(m.opa)],
     logs |-> [logs |-> WithHeader(m.logs)],
     overview |-> [overview |-> Overview],
     stackable |-> [kafka |-> WithLists("kafka", m.kafka), nifi |-> WithLists("nifi", m.nifi)],
     kafka |-> KafkaFile,
     flow |-> NifiFlow]

\* A committed tree: what a complete run leaves.
Init ==
    /\ made \in [queries: [{1} -> {Plain}], detail: [8..11 -> {Plain}],
                 airflow: Designs.airflow, opa: Designs.opa, logs: Designs.logs,
                 kafka: Designs.kafka, nifi: Designs.nifi]
    /\ tree = Result(made)
    /\ git = [tree |-> tree, made |-> made]
    /\ step = 0
    /\ edits = 0
    /\ deaths = 0

Run ==
    \/ Starts \/ WritesTrino \/ WritesNifiAuthorization \/ Brands \/ WritesOverview
    \/ ListsKafka \/ WritesKafka \/ ListsNifi \/ WritesNifiFlow \/ Dies \/ Fails

People ==
    \/ \E d \in Extended : Redesigns(d)
    \/ \E d \in {"queries", "detail"} : Reshapes(d)
    \/ \E f \in Files : Restores(f)
    \/ Commits

Next == Run \/ People

Spec == Init /\ [][Next]_vars

----------------------------------------------------------------------------
(***************************************************************************)
(* Properties                                                              *)
(***************************************************************************)

Dashboards(file) == {file[d] : d \in DOMAIN file}

\* The types: every panel of grafana-dashboards.py stays on the grid.
TypeOK ==
    /\ step \in 0..Done
    /\ edits \in 0..MaxEdits
    /\ deaths \in 0..MaxDeaths
    /\ DOMAIN tree = Files
    /\ \A f \in Files : tree[f] # Torn =>
        \A dash \in Dashboards(tree[f]) : dash \in [DOMAIN dash -> Panel]

\* A dashboard of other people is always as they made it, or that with the
\* additions of brand, kafka or nifi once: no panel of theirs is lost or moved
\* down twice, however often grafana-dashboards.py runs, wherever it is
\* interrupted and whatever people edit, vendor or restore in between.
AddedOnce ==
    \A d \in Extended : tree[File(d)] # Torn =>
        tree[File(d)][d] \in {made[d], WithLists(d, made[d])}

\* What a complete run of grafana-dashboards.py leaves depends on nothing but
\* what people have made: not on the runs before it, nor on where they were
\* interrupted.  Hence a run on an unchanged tree changes nothing.
OneResult == step = Done => tree = Result(made)

Disjoint(p, q) ==
    \/ p.at[1] + p.at[3] <= q.at[1] \/ q.at[1] + q.at[3] <= p.at[1]
    \/ p.at[2] + p.at[4] <= q.at[2] \/ q.at[2] + q.at[4] <= p.at[2]

\* On the dashboards a complete run of grafana-dashboards.py leaves, no two
\* panels overlap and none is wider than the grid: the header and the lists
\* fit into the space that brand, kafka and nifi make for them.
NoOverlap == step = Done =>
    \A f \in Files : \A dash \in Dashboards(tree[f]) : \A i \in DOMAIN dash :
        /\ dash[i].at[1] + dash[i].at[3] <= Columns
        /\ \A j \in DOMAIN dash \ {i} : Disjoint(dash[i], dash[j])
=============================================================================
