--------------------------- MODULE GrafanaProofs ---------------------------
(***************************************************************************)
(* Proofs about GrafanaDashboards for all designs of other people's        *)
(* dashboards, all shapes of templates and any number of edits and         *)
(* interrupted runs.                                                       *)
(*                                                                         *)
(* First: other people's dashboards are extended once.                     *)
(***************************************************************************)
EXTENDS GrafanaDashboards, SequenceTheorems, TLAPS

LEMMA DownStays ==
    ASSUME NEW p \in Panel, NEW by \in Nat
    PROVE  Down(p, by) \in Panel /\ Down(p, 0) = p
<1>1. p.at \in [1..4 -> Nat] /\ p.at[2] \in Nat
    BY DEF Panel
<1>2. [p.at EXCEPT ![2] = @ + by] \in [1..4 -> Nat]
    BY <1>1
<1>3. [p.at EXCEPT ![2] = @ + 0] = p.at
    BY <1>1
<1> QED
    BY <1>1, <1>2, <1>3 DEF Panel, Down

LEMMA ExtendTwice ==
    ASSUME NEW dash, NEW reserved, NEW added, NEW offset \in Nat,
           dash \in [DOMAIN dash -> Panel], DOMAIN dash \intersect reserved = {},
           DOMAIN added \subseteq reserved, DOMAIN added # {}
    PROVE  LET once == Extend(dash, reserved, added, offset)
           IN  Extend(once, reserved, added, offset) = once
<1> DEFINE once == Extend(dash, reserved, added, offset)
           twice == Extend(once, reserved, added, offset)
           moved == [i \in DOMAIN dash |-> Down(dash[i], offset)]
<1>1. Foreign(dash, reserved) = DOMAIN dash
    BY DEF Foreign
<1>2. once = Merge(moved, added)
    BY <1>1 DEF Extend
<1>3. DOMAIN once = DOMAIN dash \union DOMAIN added
    BY <1>2 DEF Merge
<1>4. Foreign(once, reserved) = DOMAIN dash /\ Foreign(once, reserved) # DOMAIN once
    BY <1>3 DEF Foreign
<1>5. \A i \in DOMAIN dash : once[i] = Down(dash[i], offset)
    BY <1>2, <1>3 DEF Merge
<1>6. [i \in Foreign(once, reserved) |-> Down(once[i], 0)] = moved
    <2>1. ASSUME NEW i \in DOMAIN dash
          PROVE  Down(once[i], 0) = Down(dash[i], offset)
        BY <1>5, DownStays
    <2> QED
        BY <2>1, <1>4
<1>7. twice = Merge([i \in Foreign(once, reserved) |-> Down(once[i], 0)], added)
    BY <1>4 DEF Extend
<1> QED
    BY <1>2, <1>6, <1>7

LEMMA AddedIsReserved ==
    ASSUME NEW d \in Extended
    PROVE  /\ DOMAIN Added(d) \subseteq Reserved(d)
           /\ DOMAIN Added(d) # {}
           /\ Offset(d) \in Nat
<1>1. CASE d = "kafka"
    <2>1. DOMAIN Added(d) = 100..103
        BY <1>1 DEF Added, Own, Placed, KafkaLists, Full
    <2>2. Offset(d) = KafkaOffset
        BY <1>1 DEF Offset
    <2>3. Reserved(d) = 100..999
        BY <1>1 DEF Reserved
    <2> QED
        BY <2>1, <2>2, <2>3 DEF KafkaOffset
<1>2. CASE d = "nifi"
    <2>1. DOMAIN Added(d) = 100..102
        BY <1>2 DEF Added, Own, Placed, NifiLists, Full
    <2>2. Offset(d) = NifiOffset
        BY <1>2 DEF Offset
    <2>3. Reserved(d) = 100..999
        BY <1>2 DEF Reserved
    <2> QED
        BY <2>1, <2>2, <2>3 DEF NifiOffset
<1>3. CASE d \notin {"kafka", "nifi"}
    <2>1. DOMAIN Added(d) = 900..900
        BY <1>3 DEF Added, Header, Own, Placed, HeaderPanel, Full
    <2> QED
        BY <1>3, <2>1 DEF Reserved, Offset, HeaderOffset
<1> QED
    BY <1>1, <1>2, <1>3

\* Added a second time, the panels are where they are and nothing moves.
LEMMA ListsTwice ==
    ASSUME NEW d \in Extended, NEW dash \in Designs[d]
    PROVE  WithLists(d, WithLists(d, dash)) = WithLists(d, dash)
<1>1. dash \in [DOMAIN dash -> Panel] /\ DOMAIN dash \intersect Reserved(d) = {}
    BY DesignsAssumption
<1> QED
    BY <1>1, AddedIsReserved, ExtendTwice DEF WithLists

LEMMA HeaderIsList ==
    ASSUME NEW d \in {"airflow", "opa", "logs"}, NEW dash
    PROVE  WithHeader(dash) = WithLists(d, dash)
<1>1. Added(d) = Header /\ Offset(d) = HeaderOffset
    BY DEF Added, Offset
<1>2. Reserved(d) = {900}
    BY DEF Reserved
<1> QED
    BY <1>1, <1>2 DEF WithHeader, WithLists

\* A tree in which other people's dashboards m are extended once or not at all.
Ours(f) == {d \in Extended : File(d) = f}
Fits(dash, d, m) == dash \in {m[d], WithLists(d, m[d])}
GoodFile(file, f, m) ==
    file # Torn => /\ file = [d \in DOMAIN file |-> file[d]]
                   /\ DOMAIN file = Ours(f)
                   /\ \A d \in Ours(f) : Fits(file[d], d, m)
GoodTree(t, m) ==
    /\ t \in [Files -> {t[f] : f \in Files}]
    /\ DOMAIN m = Extended \union {"queries", "detail"}
    /\ \A d \in Extended : m[d] \in Designs[d]
    /\ \A d \in Extended : GoodFile(t[File(d)], File(d), m)

GoodInv == GoodTree(tree, made) /\ GoodTree(git.tree, git.made)

LEMMA FilesAre ==
    /\ Files = {"trino", "authorization", "airflow", "opa", "logs", "overview", "stackable", "kafka", "flow"}
    /\ Done = 13 /\ Running = 1..12
    /\ \A d \in Extended : File(d) \in Files \ {"trino", "authorization", "overview", "kafka", "flow"}
<1>1. Running = 1..12 /\ Done = 13
    BY DEF Running, Done, Order
<1>2. Files = {"trino", "authorization", "airflow", "opa", "logs", "overview", "stackable", "kafka", "flow"}
    BY <1>1 DEF Files, Order
<1>3. \A d \in Extended : File(d) \in Files \ {"trino", "authorization", "overview", "kafka", "flow"}
    BY <1>2 DEF Extended, File
<1> QED
    BY <1>1, <1>2, <1>3

LEMMA OursAre ==
    /\ Ours("airflow") = {"airflow"} /\ Ours("opa") = {"opa"} /\ Ours("logs") = {"logs"}
    /\ Ours("stackable") = {"kafka", "nifi"}
    BY DEF Ours, Extended, File

LEMMA GoodInit == Init => GoodInv
<1> SUFFICES ASSUME Init PROVE GoodTree(tree, made)
    BY DEF Init, GoodInv
<1>1. /\ DOMAIN made = Extended \union {"queries", "detail"}
      /\ \A d \in Extended : made[d] \in Designs[d]
    BY DEF Init, Extended
<1>2. tree \in [Files -> {tree[f] : f \in Files}]
    BY FilesAre DEF Init, Result
<1>3. ASSUME NEW d \in Extended
      PROVE  GoodFile(tree[File(d)], File(d), made)
    <2>1. CASE d \in {"airflow", "opa", "logs"}
        <3>1. tree[d] = [e \in {d} |-> WithHeader(made[d])] /\ File(d) = d /\ Ours(d) = {d}
            BY <2>1, OursAre DEF Init, Result, File
        <3> QED
            BY <3>1, <2>1, HeaderIsList DEF GoodFile, Fits
    <2>2. CASE d \in {"kafka", "nifi"}
        <3>1. /\ tree["stackable"] = [kafka |-> WithLists("kafka", made.kafka), nifi |-> WithLists("nifi", made.nifi)]
              /\ File(d) = "stackable" /\ Ours("stackable") = {"kafka", "nifi"}
            BY <2>2, OursAre DEF Init, Result, File
        <3> QED
            BY <3>1 DEF GoodFile, Fits
    <2> QED
        BY <2>1, <2>2 DEF Extended
<1> QED
    BY <1>1, <1>2, <1>3 DEF GoodTree

\* A step that replaces one file, and perhaps the dashboards in it, keeps the
\* others good.
LEMMA OneFile ==
    ASSUME NEW f \in Files, NEW content, NEW m, GoodTree(tree, made),
           tree' = [tree EXCEPT ![f] = content],
           DOMAIN m = Extended \union {"queries", "detail"},
           \A d \in Extended : m[d] \in Designs[d],
           \A d \in Extended : File(d) # f => m[d] = made[d],
           Ours(f) # {} => GoodFile(content, f, m)
    PROVE  GoodTree(tree', m)
<1>1. tree' \in [Files -> {tree'[g] : g \in Files}]
    BY DEF GoodTree
<1>2. ASSUME NEW d \in Extended
      PROVE  GoodFile(tree'[File(d)], File(d), m)
    <2>1. CASE File(d) = f
        BY <2>1 DEF Ours, GoodTree
    <2>2. CASE File(d) # f
        <3>1. tree'[File(d)] = tree[File(d)] /\ GoodFile(tree[File(d)], File(d), made)
            BY <2>2, FilesAre DEF GoodTree
        <3>2. \A e \in Ours(File(d)) : m[e] = made[e]
            BY <2>2 DEF Ours
        <3> QED
            BY <3>1, <3>2 DEF GoodFile, Fits
    <2> QED
        BY <2>1, <2>2
<1> QED
    BY <1>1, <1>2 DEF GoodTree

LEMMA GoodWrite ==
    ASSUME GoodInv, NEW n \in Running, NEW content, Writes(n, content),
           Ours(Order[n]) # {} => GoodFile(content, Order[n], made)
    PROVE  GoodInv'
<1>1. Order[n] \in Files
    BY DEF Files
<1>2. GoodTree(tree', made)
    BY <1>1, OneFile DEF GoodInv, GoodTree, Writes
<1> QED
    BY <1>2 DEF GoodInv, Writes

LEMMA GoodList ==
    ASSUME GoodInv, NEW d \in Extended, tree[File(d)] # Torn
    PROVE  GoodFile(Listed(d, tree[File(d)]), File(d), made)
<1> DEFINE file == tree[File(d)]
<1>1. /\ file = [e \in DOMAIN file |-> file[e]]
      /\ DOMAIN file = Ours(File(d))
      /\ \A e \in Ours(File(d)) : Fits(file[e], e, made)
      /\ made[d] \in Designs[d]
    BY DEF GoodInv, GoodTree, GoodFile
<1>2. d \in Ours(File(d))
    BY DEF Ours
<1>3. WithLists(d, file[d]) = WithLists(d, made[d])
    BY <1>1, <1>2, ListsTwice DEF Fits
<1> QED
    BY <1>1, <1>2, <1>3 DEF GoodFile, Listed, Fits

LEMMA GoodStep == GoodInv /\ [Next]_vars => GoodInv'
<1> SUFFICES ASSUME GoodInv, [Next]_vars PROVE GoodInv'
    OBVIOUS
<1>0. /\ Order = <<"trino", "authorization", "trino", "airflow", "authorization", "opa", "logs",
                   "overview", "stackable", "kafka", "stackable", "flow">>
      /\ Running = 1..12
    BY FilesAre DEF Order
<1>a. \A f \in {"trino", "authorization", "overview", "kafka", "flow"} : Ours(f) = {}
    BY DEF Ours, Extended, File
<1>1. CASE Starts \/ Fails
    BY <1>1 DEF Starts, Fails, GoodInv
<1>2. CASE WritesTrino
    BY <1>2, <1>0, <1>a, GoodWrite DEF WritesTrino
<1>3. CASE WritesNifiAuthorization
    BY <1>3, <1>0, <1>a, GoodWrite DEF WritesNifiAuthorization
<1>4. CASE Brands
    <2>1. PICK n \in 3..7 : Writes(n, Branded(tree[Order[n]]))
        BY <1>4 DEF Brands
    <2>2. CASE n \in {3, 5}
        BY <2>1, <2>2, <1>0, <1>a, GoodWrite
    <2>3. CASE n \in {4, 6, 7}
        <3>1. PICK d \in {"airflow", "opa", "logs"} : Order[n] = d /\ File(d) = d /\ Reads[n] = {d}
            <4>0. Order[4] = "airflow" /\ Order[6] = "opa" /\ Order[7] = "logs"
                BY <1>0
            <4>1. CASE n = 4
                BY <4>0, <4>1 DEF File, Reads
            <4>2. CASE n = 6
                BY <4>0, <4>2 DEF File, Reads
            <4>3. CASE n = 7
                BY <4>0, <4>3 DEF File, Reads
            <4> QED
                BY <2>3, <4>1, <4>2, <4>3
        <3>2. d \in Extended /\ Ours(d) = {d}
            BY OursAre DEF Extended
        <3>3. tree[d] # Torn
            BY <2>1, <3>1 DEF Writes, Readable
        <3>4. GoodFile(Listed(d, tree[d]), d, made)
            BY <3>1, <3>2, <3>3, GoodList
        <3>5. DOMAIN tree[d] = {d} /\ tree[d] = [e \in {d} |-> tree[d][e]]
            <4>0. GoodFile(tree[File(d)], File(d), made)
                BY <3>2 DEF GoodInv, GoodTree
            <4>1. GoodFile(tree[d], d, made)
                BY <3>1, <4>0
            <4> QED
                BY <3>2, <3>3, <4>1 DEF GoodFile
        <3>6. Branded(tree[d]) = Listed(d, tree[d])
            BY <3>5, HeaderIsList DEF Branded, Listed
        <3> QED
            BY <2>1, <2>3, <1>0, <3>1, <3>4, <3>6, GoodWrite
    <2> QED
        BY <2>2, <2>3
<1>5. CASE WritesOverview
    BY <1>5, <1>0, <1>a, GoodWrite DEF WritesOverview
<1>6. CASE ListsKafka \/ ListsNifi
    <2>1. PICK d \in {"kafka", "nifi"}, n \in {9, 11} : Writes(n, Listed(d, tree.stackable))
        BY <1>6 DEF ListsKafka, ListsNifi
    <2>2. Order[n] = "stackable" /\ Reads[n] = {"stackable"} /\ n \in Running
        BY <1>0 DEF Reads
    <2>3. d \in Extended /\ File(d) = "stackable" /\ tree["stackable"] # Torn
        BY <2>1, <2>2 DEF Extended, File, Writes, Readable
    <2> QED
        BY <2>1, <2>2, <2>3, GoodList, GoodWrite
<1>7. CASE WritesKafka \/ WritesNifiFlow
    BY <1>7, <1>0, <1>a, GoodWrite DEF WritesKafka, WritesNifiFlow
<1>8. CASE Dies
    <2>1. CASE tree' = tree
        BY <1>8, <2>1 DEF Dies, GoodInv
    <2>2. CASE tree' = [tree EXCEPT ![Order[step]] = Torn]
        <3>1. Order[step] \in Files
            BY <1>8 DEF Dies, Files
        <3>2. GoodTree(tree', made)
            BY <2>2, <3>1, OneFile DEF GoodInv, GoodTree, GoodFile
        <3> QED
            BY <1>8, <3>2 DEF Dies, GoodInv
    <2> QED
        BY <1>8, <2>1, <2>2 DEF Dies
<1>9. CASE \E d \in Extended : Redesigns(d)
    <2>a. PICK d \in Extended : Redesigns(d)
        BY <1>9
    <2>b. PICK design \in Designs[d] :
            /\ made' = [made EXCEPT ![d] = design]
            /\ \E dash \in {design, WithLists(d, design)} :
                 tree' = [tree EXCEPT ![File(d)] = [@ EXCEPT ![d] = dash]]
        BY <2>a DEF Redesigns
    <2>c. PICK dash \in {design, WithLists(d, design)} :
            tree' = [tree EXCEPT ![File(d)] = [@ EXCEPT ![d] = dash]]
        BY <2>b
    <2>1. /\ Edit(File(d))
          /\ made' = [made EXCEPT ![d] = design]
          /\ tree' = [tree EXCEPT ![File(d)] = [@ EXCEPT ![d] = dash]]
        BY <2>a, <2>b, <2>c DEF Redesigns
    <2> DEFINE file == tree[File(d)]
               content == [file EXCEPT ![d] = dash]
    <2>2. /\ DOMAIN made' = Extended \union {"queries", "detail"}
          /\ \A e \in Extended : made'[e] \in Designs[e]
          /\ \A e \in Extended \ {d} : made'[e] = made[e]
          /\ made'[d] = design
        BY <2>1 DEF GoodInv, GoodTree
    <2>3. /\ file = [e \in DOMAIN file |-> file[e]]
          /\ DOMAIN file = Ours(File(d))
          /\ \A e \in Ours(File(d)) : Fits(file[e], e, made)
        BY <2>1 DEF GoodInv, GoodTree, GoodFile, Edit
    <2>4. /\ content = [e \in Ours(File(d)) |-> content[e]]
          /\ DOMAIN content = Ours(File(d))
        BY <2>3
    <2>5. \A e \in Ours(File(d)) : Fits(content[e], e, made')
        BY <2>1, <2>2, <2>3 DEF Fits, Ours
    <2>6. GoodFile(content, File(d), made')
        BY <2>4, <2>5 DEF GoodFile
    <2>7. File(d) \in Files /\ tree' = [tree EXCEPT ![File(d)] = content]
        BY <2>1, FilesAre
    <2>8. GoodTree(tree', made')
        BY <2>2, <2>6, <2>7, OneFile DEF GoodInv
    <2> QED
        BY <2>1, <2>8 DEF GoodInv, Edit
<1>10. CASE \E d \in {"queries", "detail"} : Reshapes(d)
    <2>a. PICK d \in {"queries", "detail"} : Reshapes(d)
        BY <1>10
    <2>b. Edit("trino")
        BY <2>a DEF Reshapes
    <2>1. PICK i \in DOMAIN made[d], s \in Shapes :
            /\ made' = [made EXCEPT ![d][i] = s]
            /\ tree' = [tree EXCEPT !.trino = [@ EXCEPT ![d][i].shape = s]]
        BY <2>a DEF Reshapes
    <2>2. d \notin Extended /\ \A e \in Extended : File(e) # "trino"
        BY DEF Extended, File
    <2>3. /\ DOMAIN made' = Extended \union {"queries", "detail"}
          /\ \A e \in Extended : made'[e] = made[e] /\ made'[e] \in Designs[e]
        BY <2>1, <2>2 DEF GoodInv, GoodTree
    <2>4. GoodTree(tree', made')
        <3> DEFINE content == [tree.trino EXCEPT ![d][i].shape = s]
        <3>1. "trino" \in Files /\ tree' = [tree EXCEPT !["trino"] = content]
            BY <2>1, FilesAre
        <3> HIDE DEF content
        <3> QED
            BY <3>1, <2>3, <1>a, OneFile DEF GoodInv
    <2> QED
        BY <2>b, <2>4 DEF GoodInv, Edit
<1>11. CASE \E f \in Files : Restores(f)
    <2>1. PICK f \in Files : Restores(f)
        BY <1>11
    <2>2. \A d \in Extended : (d \in Kept(f)) <=> (File(d) = f)
        BY DEF Kept, Extended, File
    <2>3. /\ DOMAIN made' = Extended \union {"queries", "detail"}
          /\ \A d \in Extended : made'[d] = IF File(d) = f THEN git.made[d] ELSE made[d]
        BY <2>1, <2>2 DEF Restores, GoodInv, GoodTree
    <2>4. \A d \in Extended : made'[d] \in Designs[d]
        BY <2>3 DEF GoodInv, GoodTree
    <2>5. Ours(f) # {} => GoodFile(git.tree[f], f, made')
        <3> SUFFICES ASSUME Ours(f) # {} PROVE GoodFile(git.tree[f], f, made')
            OBVIOUS
        <3>1. GoodFile(git.tree[f], f, git.made)
            BY DEF Ours, GoodInv, GoodTree
        <3>2. \A d \in Ours(f) : made'[d] = git.made[d]
            BY <2>3 DEF Ours
        <3> QED
            BY <3>1, <3>2 DEF GoodFile, Fits
    <2>6. tree' = [tree EXCEPT ![f] = git.tree[f]]
        BY <2>1 DEF Restores
    <2>7. GoodTree(tree', made')
        BY <2>3, <2>4, <2>5, <2>6, OneFile DEF GoodInv
    <2> QED
        BY <2>1, <2>7 DEF GoodInv, Restores
<1>12. CASE Commits
    BY <1>12 DEF Commits, GoodInv
<1>13. CASE UNCHANGED vars
    BY <1>13 DEF vars, GoodInv
<1> QED
    BY <1>1, <1>2, <1>3, <1>4, <1>5, <1>6, <1>7, <1>8, <1>9, <1>10, <1>11, <1>12, <1>13
    DEF Next, Run, People

\* Other people's dashboards are extended once, for all dashboards, templates,
\* edits and interrupted runs.
THEOREM ExtendedOnce == Spec => []AddedOnce
<1>1. GoodInv => AddedOnce
    BY DEF GoodInv, GoodTree, GoodFile, Fits, Ours, AddedOnce
<1> QED
    BY <1>1, GoodInit, GoodStep, PTL DEF Spec

----------------------------------------------------------------------------
(***************************************************************************)
(* A complete run has one result.                                          *)
(***************************************************************************)

\* The shapes of the templates in a file are those that people made, last.
Templates == {"queries", "detail"}
HasShape(dash, i, shape) == i \in DOMAIN dash /\ "shape" \in DOMAIN dash[i] /\ dash[i].shape = shape
TemplatesIn(file, m) ==
    /\ DOMAIN file = Templates
    /\ \A d \in Templates : \A i \in DOMAIN m[d] : HasShape(file[d], i, m[d][i])
GoodTemplates(file, m) == file # Torn => TemplatesIn(file, m)
TemplateTypes(m) == m.queries \in [{1} -> Shape] /\ m.detail \in [8..11 -> Shape]

\* The dashboards that are made anew, before they get their headers.
FreshTrino(m) ==
    [queries |-> Placed(1, TrinoQueriesPanels, m.queries),
     detail |-> Placed(1, TrinoDetailPanels,
         [i \in 1..11 |-> IF i < 7 THEN Plain ELSE IF i = 7 THEN m.detail[8] ELSE m.detail[i]])]
FreshAuthorization(m) == [nifi |-> NifiAuthorization(m.airflow)]

\* The write of a run after which a file is as the run leaves it.
LastWrite == [f \in Files |->
    CASE f = "trino" -> 3 [] f = "airflow" -> 4 [] f = "authorization" -> 5 [] f = "opa" -> 6
      [] f = "logs" -> 7 [] f = "overview" -> 8 [] f = "kafka" -> 10 [] f = "stackable" -> 11
      [] f = "flow" -> 12]

GoodOrigin(t, m) == TemplateTypes(m) /\ GoodTemplates(t["trino"], m)
HalfDone(t, m) ==
    /\ step \in 2..3 => t["trino"] = FreshTrino(m)
    /\ step \in 3..5 => t["authorization"] = FreshAuthorization(m)
    /\ step \in 10..11 => t["stackable"]["kafka"] = WithLists("kafka", m.kafka)
AllDone(t, m) == \A f \in Files : step > LastWrite[f] => t[f] = Result(m)[f]

ResultInv ==
    /\ GoodInv
    /\ step \in 0..13
    /\ GoodOrigin(tree, made) /\ GoodOrigin(git.tree, git.made)
    /\ HalfDone(tree, made)
    /\ AllDone(tree, made)

LEMMA LastWrites ==
    /\ LastWrite["trino"] = 3 /\ LastWrite["airflow"] = 4 /\ LastWrite["authorization"] = 5
    /\ LastWrite["opa"] = 6 /\ LastWrite["logs"] = 7 /\ LastWrite["overview"] = 8
    /\ LastWrite["kafka"] = 10 /\ LastWrite["stackable"] = 11 /\ LastWrite["flow"] = 12
    BY FilesAre DEF LastWrite

LEMMA ShapeStays ==
    ASSUME NEW dash, NEW i, NEW shape, HasShape(dash, i, shape),
           NEW reserved, NEW added, NEW offset, i \notin reserved, i \notin DOMAIN added
    PROVE  HasShape(Extend(dash, reserved, added, offset), i, shape)
<1>1. PICK by : Extend(dash, reserved, added, offset) =
                    Merge([j \in Foreign(dash, reserved) |-> Down(dash[j], by)], added)
    BY DEF Extend
<1>2. i \in Foreign(dash, reserved)
    BY DEF Foreign, HasShape
<1>3. /\ i \in DOMAIN Extend(dash, reserved, added, offset)
      /\ Extend(dash, reserved, added, offset)[i] = Down(dash[i], by)
    BY <1>1, <1>2 DEF Merge
<1>4. "shape" \in DOMAIN Down(dash[i], by) /\ Down(dash[i], by).shape = shape
    BY DEF HasShape, Down
<1> QED
    BY <1>3, <1>4 DEF HasShape

LEMMA HeaderIsReserved == DOMAIN Header = {900}
    BY DEF Header, Own, Placed, HeaderPanel, Full

Layout == Seq([1..4 -> Nat])

LEMMA Rectangles ==
    ASSUME NEW x \in Nat, NEW y \in Nat, NEW w \in Nat, NEW h \in Nat
    PROVE  <<x, y, w, h>> \in [1..4 -> Nat] /\ Full(y, h) \in [1..4 -> Nat]
    BY DEF Full, Columns

LEMMA TilesLayout ==
    ASSUME NEW n \in {2, 3, 4, 6, 8}, NEW y \in Nat, NEW h \in Nat
    PROVE  Tiles(n, y, h) \in Layout /\ Len(Tiles(n, y, h)) = n
<1>1. Columns \div n \in {12, 8, 6, 4, 3}
    BY DEF Columns
<1>2. ASSUME NEW i \in 1..n
      PROVE  (i - 1) * (Columns \div n) \in Nat /\ Columns \div n \in Nat
    BY <1>1
<1>3. \A i \in 1..n : Tiles(n, y, h)[i] \in [1..4 -> Nat]
    BY <1>2, Rectangles DEF Tiles
<1>4. Tiles(n, y, h) \in [1..n -> [1..4 -> Nat]]
    BY <1>3 DEF Tiles
<1> HIDE DEF Tiles
<1> QED
    BY <1>4 DEF Layout

LEMMA Joined ==
    ASSUME NEW s \in Layout, NEW t \in Layout
    PROVE  s \o t \in Layout /\ Len(s \o t) = Len(s) + Len(t)
    BY ConcatProperties DEF Layout

LEMMA DetailLayout ==
    TrinoDetailPanels \in Layout /\ Len(TrinoDetailPanels) = 11
<1> DEFINE rest == <<Full(4, 5), <<0, 9, 9, 16>>, <<9, 9, 15, 16>>, <<0, 25, 12, 12>>, <<12, 25, 12, 12>>>>
<1>1. rest \in Layout /\ Len(rest) = 5
    <2>1. /\ Full(4, 5) \in [1..4 -> Nat] /\ <<0, 9, 9, 16>> \in [1..4 -> Nat]
          /\ <<9, 9, 15, 16>> \in [1..4 -> Nat] /\ <<0, 25, 12, 12>> \in [1..4 -> Nat]
          /\ <<12, 25, 12, 12>> \in [1..4 -> Nat]
        BY Rectangles
    <2> HIDE DEF Full
    <2> QED
        BY <2>1 DEF Layout
<1>2. Tiles(6, 0, 4) \in Layout /\ Len(Tiles(6, 0, 4)) = 6
    BY TilesLayout
<1>3. TrinoDetailPanels = Tiles(6, 0, 4) \o rest
    BY DEF TrinoDetailPanels
<1> HIDE DEF rest
<1>4. Tiles(6, 0, 4) \o rest \in Layout /\ Len(Tiles(6, 0, 4) \o rest) = Len(Tiles(6, 0, 4)) + Len(rest)
    BY <1>1, <1>2, Joined, Zenon
<1>5. Len(TrinoDetailPanels) = 6 + 5
    BY <1>1, <1>2, <1>3, <1>4, Zenon
<1> QED
    BY <1>3, <1>4, <1>5

LEMMA QueriesLayout == TrinoQueriesPanels \in Layout /\ Len(TrinoQueriesPanels) = 1
<1>1. Full(0, 26) \in [1..4 -> Nat]
    BY Rectangles
<1> QED
    BY <1>1 DEF TrinoQueriesPanels, Layout

\* The templates of the fresh dashboards are those they were made with, and a
\* header does not change them.
LEMMA FreshTemplates ==
    ASSUME NEW m, TemplateTypes(m)
    PROVE  TemplatesIn(FreshTrino(m), m)
<1>1. DOMAIN FreshTrino(m) = Templates
    BY DEF FreshTrino, Templates
<1>2. \A i \in DOMAIN m["queries"] : HasShape(FreshTrino(m)["queries"], i, m["queries"][i])
    <2>1. DOMAIN m["queries"] = {1} /\ FreshTrino(m)["queries"] = Placed(1, TrinoQueriesPanels, m.queries)
        BY DEF TemplateTypes, FreshTrino
    <2>2. DOMAIN Placed(1, TrinoQueriesPanels, m.queries) = 1..1
        BY QueriesLayout DEF Placed
    <2> QED
        BY <2>1, <2>2 DEF HasShape, Placed
<1>3. \A i \in DOMAIN m["detail"] : HasShape(FreshTrino(m)["detail"], i, m["detail"][i])
    <2> DEFINE shapes == [i \in 1..11 |-> IF i < 7 THEN Plain ELSE IF i = 7 THEN m.detail[8] ELSE m.detail[i]]
    <2>1. DOMAIN m["detail"] = 8..11 /\ FreshTrino(m)["detail"] = Placed(1, TrinoDetailPanels, shapes)
        BY DEF TemplateTypes, FreshTrino
    <2>2. DOMAIN Placed(1, TrinoDetailPanels, shapes) = 1..11
        BY DetailLayout DEF Placed
    <2>3. \A i \in 8..11 : shapes[i] = m["detail"][i]
        OBVIOUS
    <2> HIDE DEF shapes
    <2>4. \A i \in 1..11 : HasShape(Placed(1, TrinoDetailPanels, shapes), i, shapes[i])
        BY <2>2 DEF HasShape, Placed
    <2> QED
        BY <2>1, <2>3, <2>4
<1> QED
    BY <1>1, <1>2, <1>3 DEF TemplatesIn, Templates

LEMMA BrandedTemplates ==
    ASSUME NEW file, NEW m, TemplateTypes(m), TemplatesIn(file, m)
    PROVE  TemplatesIn(Branded(file), m)
<1>1. DOMAIN file = Templates /\ DOMAIN Branded(file) = Templates
    BY DEF TemplatesIn, Branded
<1>2. ASSUME NEW d \in Templates, NEW i \in DOMAIN m[d]
      PROVE  HasShape(Branded(file)[d], i, m[d][i])
    <2>1. HasShape(file[d], i, m[d][i])
        BY DEF TemplatesIn
    <2>2. i \in 1..11
        BY DEF Templates, TemplateTypes
    <2>3. i \notin {900} /\ i \notin DOMAIN Header
        BY <2>2, HeaderIsReserved
    <2>4. Branded(file)[d] = Extend(file[d], {900}, Header, HeaderOffset)
        BY <1>1 DEF Branded, WithHeader
    <2> QED
        BY <2>1, <2>3, <2>4, ShapeStays
<1> QED
    BY <1>1, <1>2 DEF TemplatesIn

\* Whatever "Trino query detail" it starts from, the script makes the same.
LEMMA FreshFromTemplates ==
    ASSUME NEW file, NEW m, TemplateTypes(m), TemplatesIn(file, m)
    PROVE  Trino(file) = FreshTrino(m)
<1>1. [i \in {1} |-> file.queries[1].shape] = m.queries
    <2>1. file["queries"][1].shape = m["queries"][1]
        BY DEF TemplatesIn, Templates, TemplateTypes, HasShape
    <2> QED
        BY <2>1 DEF TemplateTypes
<1>2. \A i \in 8..11 : file.detail[i].shape = m.detail[i]
    BY DEF TemplatesIn, Templates, TemplateTypes, HasShape
<1>3. ASSUME NEW i \in 1..11
      PROVE  (IF i < 7 THEN Plain ELSE file.detail[Template[i]].shape)
             = (IF i < 7 THEN Plain ELSE IF i = 7 THEN m.detail[8] ELSE m.detail[i])
    BY <1>2 DEF Template
<1>4. [i \in 1..11 |-> IF i < 7 THEN Plain ELSE file.detail[Template[i]].shape]
      = [i \in 1..11 |-> IF i < 7 THEN Plain ELSE IF i = 7 THEN m.detail[8] ELSE m.detail[i]]
    BY <1>3
<1> QED
    BY <1>1, <1>4 DEF Trino, FreshTrino, TrinoQueries, TrinoDetail

\* "NiFi authorization" is the same from a dashboard with or without header.
LEMMA SameAuthorization ==
    ASSUME NEW m, m.airflow \in Designs["airflow"], NEW dash, Fits(dash, "airflow", m)
    PROVE  NifiAuthorization(dash) = NifiAuthorization(m.airflow)
<1>1. ASSUME NEW i \in {1, 2, 4}
      PROVE  dash[i].shape = m.airflow[i].shape
    <2>1. HasShape(m.airflow, i, m.airflow[i].shape)
        <3>1. "airflow" \in Extended /\ Designs.airflow = Designs["airflow"]
            BY DEF Extended
        <3>2. i \in DOMAIN m.airflow /\ m.airflow[i] \in Panel
            BY <3>1, DesignsAssumption
        <3> QED
            BY <3>2 DEF HasShape, Panel
    <2>2. i \notin {900} /\ i \notin DOMAIN Header
        BY HeaderIsReserved
    <2>3. HasShape(WithHeader(m.airflow), i, m.airflow[i].shape)
        BY <2>1, <2>2, ShapeStays DEF WithHeader
    <2>4. dash \in {m.airflow, WithHeader(m.airflow)}
        BY HeaderIsList DEF Fits
    <2> QED
        BY <2>1, <2>3, <2>4 DEF HasShape
<1>2. ASSUME NEW i \in 1..6
      PROVE  dash[CASE i = 1 -> 1 [] i = 4 -> 4 [] OTHER -> 2].shape
             = m.airflow[CASE i = 1 -> 1 [] i = 4 -> 4 [] OTHER -> 2].shape
    <2>1. CASE i = 1
        BY <1>1, <2>1
    <2>2. CASE i = 4
        BY <1>1, <2>2
    <2>3. CASE i \notin {1, 4}
        BY <1>1, <2>3
    <2> QED
        BY <2>1, <2>2, <2>3
<1>3. [i \in 1..6 |-> dash[CASE i = 1 -> 1 [] i = 4 -> 4 [] OTHER -> 2].shape]
      = [i \in 1..6 |-> m.airflow[CASE i = 1 -> 1 [] i = 4 -> 4 [] OTHER -> 2].shape]
    BY <1>2, Zenon
<1> QED
    BY <1>3, Zenon DEF NifiAuthorization

LEMMA ResultInit == Init => ResultInv
<1> SUFFICES ASSUME Init PROVE ResultInv
    OBVIOUS
<1>1. GoodInv
    BY GoodInit
<1>2. TemplateTypes(made)
    BY DEF Init, TemplateTypes, Shape
<1>3. tree["trino"] = Branded(FreshTrino(made))
    BY DEF Init, Result, FreshTrino
<1>4. GoodOrigin(tree, made)
    BY <1>2, <1>3, FreshTemplates, BrandedTemplates DEF GoodOrigin, GoodTemplates
<1>5. GoodOrigin(git.tree, git.made)
    BY <1>4 DEF Init
<1>6. step = 0
    BY DEF Init
<1>7. AllDone(tree, made)
    BY <1>6, FilesAre, LastWrites DEF AllDone
<1> QED
    BY <1>1, <1>4, <1>5, <1>6, <1>7 DEF ResultInv, HalfDone

LEMMA OrderOfWrites ==
    ASSUME NEW n \in 1..12
    PROVE  /\ Order[n] \in Files
           /\ n <= LastWrite[Order[n]]
           /\ \A f \in Files : LastWrite[f] = n => Order[n] = f
<1>1. Order = <<"trino", "authorization", "trino", "airflow", "authorization", "opa", "logs",
                "overview", "stackable", "kafka", "stackable", "flow">>
    BY DEF Order
<1>2. Order[n] \in Files /\ n <= LastWrite[Order[n]]
    BY <1>1, FilesAre, LastWrites
<1>3. \A f \in Files : LastWrite[f] = n => Order[n] = f
    BY <1>1, FilesAre, LastWrites
<1> QED
    BY <1>2, <1>3

LEMMA DoneWrite ==
    ASSUME ResultInv, NEW n \in 1..12, NEW content, Writes(n, content),
           n = LastWrite[Order[n]] => content = Result(made)[Order[n]]
    PROVE  /\ AllDone(tree, made)'
           /\ step' \in 0..13 /\ step' = n + 1 /\ made' = made /\ git' = git
           /\ tree'[Order[n]] = content
           /\ \A f \in Files \ {Order[n]} : tree'[f] = tree[f]
<1>1. step = n /\ step' = n + 1 /\ made' = made /\ git' = git
    BY DEF Writes
<1>2. /\ tree'[Order[n]] = content
      /\ \A f \in Files \ {Order[n]} : tree'[f] = tree[f]
    BY OrderOfWrites DEF Writes, ResultInv, GoodInv, GoodTree
<1>3. ASSUME NEW f \in Files, n + 1 > LastWrite[f]
      PROVE  tree'[f] = Result(made)[f]
    <2>0. LastWrite[f] \in 1..12
        BY FilesAre, LastWrites
    <2>1. CASE f = Order[n]
        BY <2>0, <2>1, <1>2, <1>3, OrderOfWrites
    <2>2. CASE f # Order[n]
        <3>1. n > LastWrite[f]
            BY <2>0, <2>2, <1>3, OrderOfWrites
        <3> QED
            BY <3>1, <2>2, <1>1, <1>2 DEF ResultInv, AllDone
    <2> QED
        BY <2>1, <2>2
<1> QED
    BY <1>1, <1>2, <1>3 DEF AllDone

\* What the last write of each file leaves.
LEMMA HeaderDone ==
    ASSUME ResultInv, NEW d \in {"airflow", "opa", "logs"}, tree[d] # Torn
    PROVE  Branded(tree[d]) = Result(made)[d]
<1>1. d \in Extended /\ File(d) = d /\ Ours(d) = {d}
    BY OursAre DEF Extended, File
<1>2. DOMAIN tree[d] = {d} /\ Fits(tree[d][d], d, made) /\ made[d] \in Designs[d]
    BY <1>1 DEF ResultInv, GoodInv, GoodTree, GoodFile
<1>3. WithHeader(tree[d][d]) = WithHeader(made[d])
    BY <1>1, <1>2, HeaderIsList, ListsTwice DEF Fits
<1>4. Branded(tree[d]) = [e \in {d} |-> WithHeader(made[d])]
    BY <1>2, <1>3 DEF Branded
<1>5. Result(made)[d] = [e \in {d} |-> WithHeader(made[d])]
    BY DEF Result
<1> QED
    BY <1>4, <1>5

LEMMA ListDone ==
    ASSUME ResultInv, NEW d \in {"kafka", "nifi"}, tree["stackable"] # Torn
    PROVE  LET file == Listed(d, tree["stackable"])
           IN  /\ DOMAIN file = {"kafka", "nifi"} /\ file = [e \in DOMAIN file |-> file[e]]
               /\ file[d] = WithLists(d, made[d])
               /\ \A e \in {"kafka", "nifi"} \ {d} : file[e] = tree["stackable"][e]
<1>1. d \in Extended /\ File(d) = "stackable" /\ Ours("stackable") = {"kafka", "nifi"}
    BY OursAre DEF Extended, File
<1>2. /\ DOMAIN tree["stackable"] = {"kafka", "nifi"}
      /\ tree["stackable"] = [e \in DOMAIN tree["stackable"] |-> tree["stackable"][e]]
      /\ Fits(tree["stackable"][d], d, made) /\ made[d] \in Designs[d]
    BY <1>1 DEF ResultInv, GoodInv, GoodTree, GoodFile
<1>3. WithLists(d, tree["stackable"][d]) = WithLists(d, made[d])
    BY <1>1, <1>2, ListsTwice DEF Fits
<1> QED
    BY <1>2, <1>3 DEF Listed

\* A step that ends or begins a run, or takes place between runs.
LEMMA NoRun ==
    ASSUME GoodInv', step' \in 0..1, GoodOrigin(tree', made'), GoodOrigin(git.tree', git.made')
    PROVE  ResultInv'
<1>1. AllDone(tree, made)'
    BY FilesAre, LastWrites DEF AllDone
<1> QED
    BY <1>1 DEF ResultInv, HalfDone

\* A write: what it does to the templates and to the files that are half done.
LEMMA RunGoesOn ==
    ASSUME ResultInv, GoodInv', NEW n \in 1..12, NEW content, Writes(n, content),
           n = LastWrite[Order[n]] => content = Result(made)[Order[n]],
           Order[n] = "trino" => TemplatesIn(content, made),
           n = 1 => content = FreshTrino(made),
           n = 2 => content = FreshAuthorization(made),
           n = 9 => content["kafka"] = WithLists("kafka", made.kafka)
    PROVE  ResultInv'
<1>1. /\ AllDone(tree, made)'
      /\ step = n /\ step' \in 0..13 /\ step' = n + 1 /\ made' = made /\ git' = git
      /\ tree'[Order[n]] = content
      /\ \A f \in Files \ {Order[n]} : tree'[f] = tree[f]
    BY DoneWrite DEF Writes
<1>2. GoodOrigin(tree', made')
    BY <1>1, FilesAre DEF ResultInv, GoodOrigin, GoodTemplates
<1>3. n + 1 \in 2..3 => tree'["trino"] = FreshTrino(made)
    <2>1. CASE n = 1
        BY <2>1, <1>1 DEF Order
    <2>2. CASE n = 2
        <3>1. tree["trino"] = FreshTrino(made)
            BY <2>2, <1>1 DEF ResultInv, HalfDone
        <3> QED
            BY <2>2, <3>1, <1>1, FilesAre DEF Order
    <2> QED
        BY <2>1, <2>2
<1>4. n + 1 \in 3..5 => tree'["authorization"] = FreshAuthorization(made)
    <2>1. CASE n = 2
        BY <2>1, <1>1 DEF Order
    <2>2. CASE n \in {3, 4}
        <3>1. tree["authorization"] = FreshAuthorization(made)
            BY <2>2, <1>1 DEF ResultInv, HalfDone
        <3>2. Order[n] # "authorization" /\ "authorization" \in Files
            BY <2>2, FilesAre DEF Order
        <3> QED
            BY <3>1, <3>2, <1>1
    <2> QED
        BY <2>1, <2>2
<1>5. n + 1 \in 10..11 => tree'["stackable"]["kafka"] = WithLists("kafka", made.kafka)
    <2>1. CASE n = 9
        BY <2>1, <1>1 DEF Order
    <2>2. CASE n = 10
        <3>1. tree["stackable"]["kafka"] = WithLists("kafka", made.kafka)
            BY <2>2, <1>1 DEF ResultInv, HalfDone
        <3>2. Order[n] # "stackable" /\ "stackable" \in Files
            BY <2>2, FilesAre DEF Order
        <3> QED
            BY <3>1, <3>2, <1>1
    <2> QED
        BY <2>1, <2>2
<1>6. HalfDone(tree, made)'
    BY <1>1, <1>3, <1>4, <1>5 DEF HalfDone
<1> QED
    BY <1>1, <1>2, <1>6 DEF ResultInv

LEMMA ResultStep == ResultInv /\ [Next]_vars => ResultInv'
<1> SUFFICES ASSUME ResultInv, [Next]_vars PROVE ResultInv'
    OBVIOUS
<1>0. GoodInv'
    BY GoodStep DEF ResultInv
<1>a. /\ GoodOrigin(tree, made) /\ GoodOrigin(git.tree, git.made)
      /\ Running = 1..12 /\ Done = 13
    BY FilesAre DEF ResultInv
<1>1. CASE Starts \/ Fails
    BY <1>0, <1>1, <1>a, NoRun DEF Starts, Fails
<1>2. CASE WritesTrino
    <2>1. /\ Writes(1, Trino(tree["trino"])) /\ tree["trino"] # Torn
          /\ Order[1] = "trino" /\ LastWrite[Order[1]] # 1
        BY <1>2, LastWrites DEF WritesTrino, Writes, Readable, Reads, Order
    <2>2. Trino(tree["trino"]) = FreshTrino(made) /\ TemplatesIn(FreshTrino(made), made)
        BY <2>1, <1>a, FreshFromTemplates, FreshTemplates DEF GoodOrigin, GoodTemplates
    <2> QED
        BY <1>0, <2>1, <2>2, RunGoesOn
<1>3. CASE WritesNifiAuthorization
    <2>1. /\ Writes(2, [nifi |-> NifiAuthorization(tree["airflow"]["airflow"])]) /\ tree["airflow"] # Torn
          /\ Order[2] = "authorization" /\ LastWrite[Order[2]] # 2
        BY <1>3, LastWrites DEF WritesNifiAuthorization, Writes, Readable, Reads, Order
    <2>2. Fits(tree["airflow"]["airflow"], "airflow", made) /\ made["airflow"] \in Designs["airflow"]
        BY <2>1, OursAre DEF ResultInv, GoodInv, GoodTree, GoodFile, Extended, File
    <2>3. [nifi |-> NifiAuthorization(tree["airflow"]["airflow"])] = FreshAuthorization(made)
        BY <2>2, SameAuthorization DEF FreshAuthorization
    <2> QED
        BY <1>0, <2>1, <2>3, RunGoesOn
<1>4. CASE Brands
    <2>1. PICK n \in 3..7 : Writes(n, Branded(tree[Order[n]]))
        BY <1>4 DEF Brands
    <2>2. CASE n = 3
        <3>1. /\ Order[n] = "trino" /\ tree["trino"] = FreshTrino(made)
            BY <2>1, <2>2 DEF Order, Writes, ResultInv, HalfDone
        <3>2. Branded(FreshTrino(made)) = Result(made)["trino"]
            BY DEF Result, FreshTrino
        <3>3. TemplatesIn(Branded(FreshTrino(made)), made)
            BY <1>a, FreshTemplates, BrandedTemplates DEF GoodOrigin
        <3> QED
            BY <1>0, <2>1, <2>2, <3>1, <3>2, <3>3, RunGoesOn
    <2>3. CASE n = 5
        <3>1. Order[n] = "authorization" /\ tree["authorization"] = FreshAuthorization(made)
            BY <2>1, <2>3 DEF Order, Writes, ResultInv, HalfDone
        <3>2. Branded(FreshAuthorization(made)) = Result(made)["authorization"]
            BY DEF Result, FreshAuthorization
        <3> QED
            BY <1>0, <2>1, <2>3, <3>1, <3>2, RunGoesOn
    <2>4. CASE n \in {4, 6, 7}
        <3>1. PICK d \in {"airflow", "opa", "logs"} : Order[n] = d /\ Reads[n] = {d}
            <4>1. CASE n = 4
                BY <4>1 DEF Order, Reads
            <4>2. CASE n = 6
                BY <4>2 DEF Order, Reads
            <4>3. CASE n = 7
                BY <4>3 DEF Order, Reads
            <4> QED
                BY <2>4, <4>1, <4>2, <4>3
        <3>2. tree[d] # Torn
            BY <2>1, <3>1 DEF Writes, Readable
        <3>3. Branded(tree[d]) = Result(made)[d]
            BY <3>2, HeaderDone
        <3> QED
            BY <1>0, <2>1, <2>4, <3>1, <3>3, RunGoesOn
    <2> QED
        BY <2>2, <2>3, <2>4
<1>5. CASE WritesOverview
    <2>1. Writes(8, [overview |-> Overview]) /\ Order[8] = "overview"
        BY <1>5 DEF WritesOverview, Order
    <2>2. [overview |-> Overview] = Result(made)["overview"]
        BY DEF Result
    <2> QED
        BY <1>0, <2>1, <2>2, RunGoesOn
<1>6. CASE ListsKafka
    <2>1. /\ Writes(9, Listed("kafka", tree["stackable"])) /\ tree["stackable"] # Torn
          /\ Order[9] = "stackable" /\ LastWrite[Order[9]] # 9
        BY <1>6, LastWrites DEF ListsKafka, Writes, Readable, Reads, Order
    <2>2. Listed("kafka", tree["stackable"])["kafka"] = WithLists("kafka", made["kafka"])
        BY <2>1, ListDone
    <2> QED
        BY <1>0, <2>1, <2>2, RunGoesOn
<1>7. CASE WritesKafka
    <2>1. Writes(10, KafkaFile) /\ Order[10] = "kafka"
        BY <1>7 DEF WritesKafka, Order
    <2>2. KafkaFile = Result(made)["kafka"]
        BY DEF Result
    <2> QED
        BY <1>0, <2>1, <2>2, RunGoesOn
<1>8. CASE ListsNifi
    <2>1. /\ Writes(11, Listed("nifi", tree["stackable"])) /\ tree["stackable"] # Torn
          /\ Order[11] = "stackable"
        BY <1>8 DEF ListsNifi, Writes, Readable, Reads, Order
    <2>2. tree["stackable"]["kafka"] = WithLists("kafka", made.kafka)
        BY <2>1 DEF Writes, ResultInv, HalfDone
    <2> DEFINE file == Listed("nifi", tree["stackable"])
    <2>3. /\ DOMAIN file = {"kafka", "nifi"} /\ file = [e \in DOMAIN file |-> file[e]]
          /\ file["nifi"] = WithLists("nifi", made["nifi"]) /\ file["kafka"] = WithLists("kafka", made["kafka"])
        BY <2>1, <2>2, ListDone
    <2> HIDE DEF file
    <2>4. file = Result(made)["stackable"]
        BY <2>3 DEF Result
    <2> QED
        BY <1>0, <2>1, <2>4, RunGoesOn DEF file
<1>9. CASE WritesNifiFlow
    <2>1. Writes(12, NifiFlow) /\ Order[12] = "flow"
        BY <1>9 DEF WritesNifiFlow, Order
    <2>2. NifiFlow = Result(made)["flow"]
        BY DEF Result
    <2> QED
        BY <1>0, <2>1, <2>2, RunGoesOn
<1>10. CASE Dies
    <2>1. step' = 0 /\ made' = made /\ git' = git
        BY <1>10 DEF Dies
    <2>2. tree'["trino"] \in {tree["trino"], Torn}
        BY <1>10, FilesAre DEF Dies, ResultInv, GoodInv, GoodTree
    <2>3. GoodOrigin(tree', made')
        BY <1>a, <2>1, <2>2 DEF GoodOrigin, GoodTemplates
    <2> QED
        BY <1>0, <1>a, <2>1, <2>3, NoRun
<1>11. CASE \E d \in Extended : Redesigns(d)
    <2>1. PICK d \in Extended : Redesigns(d)
        BY <1>11
    <2>2. step' = 0 /\ git' = git
        BY <2>1 DEF Redesigns, Edit
    <2>3. made'["queries"] = made["queries"] /\ made'["detail"] = made["detail"]
        BY <2>1 DEF Redesigns, Extended, ResultInv, GoodInv, GoodTree
    <2>4. tree'["trino"] = tree["trino"]
        BY <2>1, FilesAre DEF Redesigns, ResultInv, GoodInv, GoodTree
    <2>5. GoodOrigin(tree', made')
        BY <1>a, <2>3, <2>4 DEF GoodOrigin, GoodTemplates, TemplatesIn, TemplateTypes, Templates
    <2> QED
        BY <1>0, <1>a, <2>2, <2>5, NoRun
<1>12. CASE \E d \in Templates : Reshapes(d)
    <2>1. PICK d \in Templates : Reshapes(d)
        BY <1>12
    <2>2. step' = 0 /\ git' = git /\ tree["trino"] # Torn
        BY <2>1 DEF Reshapes, Edit
    <2>3. PICK i \in DOMAIN made[d], s \in Shapes :
            /\ made' = [made EXCEPT ![d][i] = s]
            /\ tree' = [tree EXCEPT !.trino = [@ EXCEPT ![d][i].shape = s]]
        BY <2>1 DEF Reshapes
    <2>4. TemplatesIn(tree["trino"], made) /\ TemplateTypes(made)
        BY <2>2, <1>a DEF GoodOrigin, GoodTemplates
    <2>5. d \in DOMAIN made /\ DOMAIN made' = DOMAIN made
        BY <2>3 DEF ResultInv, GoodInv, GoodTree, Templates
    <2>6. TemplateTypes(made')
        BY <2>3, <2>4, <2>5 DEF TemplateTypes, Templates, Shape
    <2>7. tree'["trino"] = [tree["trino"] EXCEPT ![d][i].shape = s]
        BY <2>3, FilesAre DEF ResultInv, GoodInv, GoodTree
    <2>8. TemplatesIn(tree'["trino"], made')
        <3>1. DOMAIN tree'["trino"] = Templates
            BY <2>4, <2>7 DEF TemplatesIn
        <3>2. ASSUME NEW e \in Templates, NEW j \in DOMAIN made'[e]
              PROVE  HasShape(tree'["trino"][e], j, made'[e][j])
            <4>1. j \in DOMAIN made[e] /\ HasShape(tree["trino"][e], j, made[e][j])
                BY <2>3, <2>4, <2>5, <3>2 DEF TemplatesIn
            <4>2. CASE e = d /\ j = i
                <5>1. made'[e][j] = s
                    BY <2>3, <2>5, <4>1, <4>2
                <5>2. HasShape(tree'["trino"][e], j, s)
                    BY <2>4, <2>7, <4>1, <4>2 DEF HasShape, TemplatesIn
                <5> QED
                    BY <5>1, <5>2
            <4>3. CASE e = d /\ j # i
                <5>1. made'[e][j] = made[e][j]
                    BY <2>3, <2>5, <4>1, <4>3
                <5>2. HasShape(tree'["trino"][e], j, made[e][j])
                    BY <2>4, <2>7, <4>1, <4>3 DEF HasShape, TemplatesIn
                <5> QED
                    BY <5>1, <5>2
            <4>4. CASE e # d
                <5>1. made'[e] = made[e] /\ tree'["trino"][e] = tree["trino"][e]
                    BY <2>3, <2>4, <2>5, <2>7, <4>4 DEF TemplatesIn
                <5> QED
                    BY <4>1, <5>1
            <4> QED
                BY <4>2, <4>3, <4>4
        <3> QED
            BY <3>1, <3>2 DEF TemplatesIn
    <2> QED
        BY <1>0, <1>a, <2>2, <2>6, <2>8, NoRun DEF GoodOrigin, GoodTemplates
<1>13. CASE \E f \in Files : Restores(f)
    <2>1. PICK f \in Files : Restores(f)
        BY <1>13
    <2>2. step' = 0 /\ git' = git
        BY <2>1 DEF Restores
    <2>3. \A d \in Templates : (d \in Kept(f)) <=> (f = "trino")
        BY DEF Kept, Extended, Templates
    <2>4. \A d \in Templates : made'[d] = IF f = "trino" THEN git.made[d] ELSE made[d]
        BY <2>1, <2>3 DEF Restores, ResultInv, GoodInv, GoodTree, Templates
    <2>5. tree'["trino"] = IF f = "trino" THEN git.tree["trino"] ELSE tree["trino"]
        BY <2>1, FilesAre DEF Restores, ResultInv, GoodInv, GoodTree
    <2>6. GoodOrigin(tree', made')
        <3>1. CASE f = "trino"
            <4>1. made'["queries"] = git.made["queries"] /\ made'["detail"] = git.made["detail"]
                BY <2>4, <3>1 DEF Templates
            <4> QED
                BY <1>a, <2>5, <3>1, <4>1 DEF GoodOrigin, GoodTemplates, TemplatesIn, TemplateTypes, Templates
        <3>2. CASE f # "trino"
            <4>1. made'["queries"] = made["queries"] /\ made'["detail"] = made["detail"]
                BY <2>4, <3>2 DEF Templates
            <4> QED
                BY <1>a, <2>5, <3>2, <4>1 DEF GoodOrigin, GoodTemplates, TemplatesIn, TemplateTypes, Templates
        <3> QED
            BY <3>1, <3>2
    <2> QED
        BY <1>0, <1>a, <2>2, <2>6, NoRun
<1>14. CASE Commits
    BY <1>0, <1>14 DEF Commits, ResultInv, HalfDone, AllDone
<1>15. CASE UNCHANGED vars
    BY <1>0, <1>15 DEF vars, ResultInv, HalfDone, AllDone
<1> QED
    BY <1>1, <1>2, <1>3, <1>4, <1>5, <1>6, <1>7, <1>8, <1>9, <1>10, <1>11, <1>12, <1>13, <1>14, <1>15
    DEF Next, Run, People, Templates

\* A complete run has one result, for all dashboards, templates, edits and
\* interrupted runs.
THEOREM OneResultOfARun == Spec => []OneResult
<1>1. ResultInv => OneResult
    <2> SUFFICES ASSUME ResultInv, step = 13 PROVE tree = Result(made)
        BY FilesAre DEF OneResult
    <2>1. \A f \in Files : tree[f] = Result(made)[f]
        BY FilesAre, LastWrites DEF ResultInv, AllDone
    <2>2. DOMAIN Result(made) = Files /\ Result(made) = [f \in Files |-> Result(made)[f]]
        BY FilesAre DEF Result
    <2>3. tree = [f \in Files |-> tree[f]]
        BY DEF ResultInv, GoodInv, GoodTree
    <2> QED
        BY <2>1, <2>2, <2>3
<1> QED
    BY <1>1, ResultInit, ResultStep, PTL DEF Spec

----------------------------------------------------------------------------
(***************************************************************************)
(* The panels stay on the grid.                                            *)
(***************************************************************************)

Place == [1..4 -> Nat]

LEMMA Lists ==
    ASSUME NEW a \in Place, NEW b \in Place, NEW c \in Place, NEW d \in Place,
           NEW e \in Place, NEW f \in Place, NEW g \in Place
    PROVE  /\ <<a>> \in Layout /\ <<a, b>> \in Layout /\ <<a, b, c>> \in Layout /\ <<a, b, c, d>> \in Layout
           /\ <<a, b, c, d, e>> \in Layout /\ <<a, b, c, d, e, f>> \in Layout
           /\ <<a, b, c, d, e, f, g>> \in Layout
    BY DEF Layout, Place

LEMMA ListOf ==
    ASSUME NEW n \in Nat, NEW s \in [1..n -> Place]
    PROVE  s \in Layout
    BY DEF Layout, Place

LEMMA Joins == \A s, t \in Layout : s \o t \in Layout
    BY Joined

LEMMA Fulls == \A y, h \in Nat : Full(y, h) \in Place
    BY Rectangles DEF Place

LEMMA SmallLayouts ==
    /\ HeaderPanel \in Layout /\ KafkaLists \in Layout /\ NifiLists \in Layout
    /\ NifiAuthorizationPanels \in Layout
<1>1. HeaderPanel \in Layout
    BY Fulls, Lists DEF HeaderPanel
<1>2. KafkaLists \in Layout
    <2>1. Full(0, 1) \in Place /\ Full(1, 9) \in Place /\ Full(10, 7) \in Place /\ Full(17, 1) \in Place
        BY Fulls
    <2> QED
        BY <2>1, Lists DEF KafkaLists
<1>3. NifiLists \in Layout
    <2>1. Full(0, 1) \in Place /\ Full(1, 8) \in Place /\ Full(10, 1) \in Place
        BY Fulls
    <2> QED
        BY <2>1, Lists DEF NifiLists
<1>4. NifiAuthorizationPanels \in Layout
    <2>1. /\ Full(0, 8) \in Place /\ Full(8, 9) \in Place /\ Full(28, 9) \in Place
          /\ <<0, 17, 12, 11>> \in Place /\ <<12, 17, 12, 11>> \in Place /\ <<0, 37, 12, 7>> \in Place
        BY Fulls, Rectangles DEF Place
    <2> QED
        BY <2>1, Lists DEF NifiAuthorizationPanels
<1> QED
    BY <1>1, <1>2, <1>3, <1>4

LEMMA OverviewLayout == OverviewPanels \in Layout
<1>1. ProductTiles(10) \in Layout
    <2>1. ASSUME NEW i \in 1..10
          PROVE  ((i - 1) % 6) * 4 \in Nat /\ 4 + ((i - 1) \div 6) * 4 \in Nat
        OBVIOUS
    <2>2. \A i \in 1..10 : <<((i - 1) % 6) * 4, 4 + ((i - 1) \div 6) * 4, 4, 4>> \in Place
        BY <2>1, Rectangles DEF Place
    <2>3. ProductTiles(10) \in [1..10 -> Place]
        BY <2>2 DEF ProductTiles
    <2> QED
        BY <2>3, ListOf
<1>2. /\ HeaderPanel \in Layout /\ <<Full(3, 1)>> \in Layout /\ <<Full(12, 1)>> \in Layout /\ <<Full(25, 10)>> \in Layout
      /\ Tiles(4, 13, 4) \in Layout /\ Tiles(2, 17, 8) \in Layout
    BY SmallLayouts, Fulls, Lists, TilesLayout
<1> QED
    BY <1>1, <1>2, Joins, Zenon DEF OverviewPanels

LEMMA KafkaLayouts == KafkaTopicPanels \in Layout /\ KafkaBrokerPanels \in Layout
<1>1. KafkaTopicPanels \in Layout
    <2>1. /\ Full(4, 1) \in Place /\ Full(5, 7) \in Place /\ Full(20, 1) \in Place
          /\ Full(29, 7) \in Place /\ Full(36, 1) \in Place /\ Full(37, 2) \in Place
          /\ <<0, 39, 4, 5>> \in Place /\ <<4, 39, 10, 5>> \in Place
          /\ <<14, 39, 5, 5>> \in Place /\ <<19, 39, 5, 5>> \in Place
        BY Fulls, Rectangles DEF Place
    <2>2. /\ <<Full(4, 1), Full(5, 7)>> \in Layout /\ <<Full(20, 1)>> \in Layout
          /\ <<Full(29, 7), Full(36, 1), Full(37, 2), <<0, 39, 4, 5>>, <<4, 39, 10, 5>>,
               <<14, 39, 5, 5>>, <<19, 39, 5, 5>>>> \in Layout
        BY <2>1, Lists
    <2>3. Tiles(8, 0, 4) \in Layout /\ Tiles(2, 12, 8) \in Layout /\ Tiles(3, 21, 8) \in Layout
        BY TilesLayout
    <2>4. Tiles(8, 0, 4) \o <<Full(4, 1), Full(5, 7)>> \o Tiles(2, 12, 8) \in Layout
        BY <2>2, <2>3, Joins
    <2> QED
        BY <2>2, <2>3, <2>4, Joins, Zenon DEF KafkaTopicPanels
<1>2. KafkaBrokerPanels \in Layout
    <2>1. /\ Full(4, 1) \in Place /\ Full(5, 8) \in Place /\ Full(13, 1) \in Place /\ Full(22, 1) \in Place
          /\ Full(31, 1) \in Place /\ Full(39, 1) \in Place /\ Full(47, 1) \in Place
          /\ <<0, 48, 12, 4>> \in Place /\ <<12, 48, 4, 4>> \in Place
          /\ <<16, 48, 4, 4>> \in Place /\ <<20, 48, 4, 4>> \in Place
        BY Fulls, Rectangles DEF Place
    <2>7. \A p, q, r \in Place : <<p>> \in Layout /\ <<p, q, r>> \in Layout
        BY Lists
    <2>2. /\ <<Full(4, 1), Full(5, 8), Full(13, 1)>> \in Layout /\ <<Full(22, 1)>> \in Layout
          /\ <<Full(31, 1)>> \in Layout /\ <<Full(39, 1)>> \in Layout
        BY <2>1, <2>7
    <2>6. <<Full(47, 1), <<0, 48, 12, 4>>, <<12, 48, 4, 4>>, <<16, 48, 4, 4>>, <<20, 48, 4, 4>>>> \in Layout
        BY <2>1, Lists
    <2>3. /\ Tiles(8, 0, 4) \in Layout /\ Tiles(2, 14, 8) \in Layout /\ Tiles(3, 23, 8) \in Layout
          /\ Tiles(2, 32, 7) \in Layout /\ Tiles(4, 40, 7) \in Layout /\ Tiles(2, 52, 7) \in Layout
        BY TilesLayout
    <2>4. Tiles(8, 0, 4) \o <<Full(4, 1), Full(5, 8), Full(13, 1)>> \o Tiles(2, 14, 8) \in Layout
        BY <2>2, <2>3, Joins
    <2>5. Tiles(8, 0, 4) \o <<Full(4, 1), Full(5, 8), Full(13, 1)>> \o Tiles(2, 14, 8) \o
              <<Full(22, 1)>> \o Tiles(3, 23, 8) \o <<Full(31, 1)>> \o Tiles(2, 32, 7) \in Layout
        BY <2>2, <2>3, <2>4, Joins, Zenon
    <2> QED
        BY <2>2, <2>6, <2>3, <2>5, Joins, Zenon DEF KafkaBrokerPanels
<1> QED
    BY <1>1, <1>2

LEMMA NifiLayouts == NifiGroupPanels \in Layout /\ NifiProcessorPanels \in Layout
<1>1. NifiGroupPanels \in Layout
    <2>1. /\ Full(4, 1) \in Place /\ Full(5, 7) \in Place /\ Full(12, 1) \in Place
          /\ Full(13, 6) \in Place /\ Full(19, 5) \in Place /\ Full(24, 1) \in Place
        BY Fulls
    <2>2. <<Full(4, 1), Full(5, 7), Full(12, 1), Full(13, 6), Full(19, 5), Full(24, 1)>> \in Layout
        BY <2>1, Lists
    <2>3. Tiles(8, 0, 4) \in Layout /\ Tiles(2, 25, 8) \in Layout /\ Tiles(2, 33, 8) \in Layout
        BY TilesLayout
    <2> QED
        BY <2>2, <2>3, Joins, Zenon DEF NifiGroupPanels
<1>2. NifiProcessorPanels \in Layout
    <2> DEFINE six == [i \in 1..6 |-> <<3 * i + 1, 0, 3, 4>>]
    <2>1. six \in Layout
        <3>1. ASSUME NEW i \in 1..6
              PROVE  <<3 * i + 1, 0, 3, 4>> \in Place
            <4>1. 3 * i + 1 \in Nat
                OBVIOUS
            <4> QED
                BY <4>1, Rectangles DEF Place
        <3>2. six \in [1..6 -> Place]
            BY <3>1
        <3> HIDE DEF six
        <3> QED
            BY <3>2, ListOf
    <2>2. <<0, 0, 4, 4>> \in Place /\ <<22, 0, 2, 4>> \in Place /\ Full(4, 1) \in Place /\ Full(21, 1) \in Place
        BY Fulls, Rectangles DEF Place
    <2>3. <<<<0, 0, 4, 4>>>> \in Layout /\ <<<<22, 0, 2, 4>>, Full(4, 1)>> \in Layout /\ <<Full(21, 1)>> \in Layout
        BY <2>2, Lists
    <2>4. /\ Tiles(2, 5, 8) \in Layout /\ Tiles(2, 13, 8) \in Layout /\ Tiles(2, 22, 5) \in Layout
        BY TilesLayout
    <2> QED
        BY <2>1, <2>3, <2>4, Joins, Zenon DEF NifiProcessorPanels
<1> QED
    BY <1>1, <1>2

Typed(dash) == dash \in [DOMAIN dash -> Panel]
TypedFile(file) == file # Torn => \A d \in DOMAIN file : Typed(file[d])

TypeInv ==
    /\ ResultInv
    /\ edits \in 0..MaxEdits
    /\ deaths \in 0..MaxDeaths
    /\ \A f \in Files : TypedFile(tree[f]) /\ TypedFile(git.tree[f])

LEMMA PlacedTyped ==
    ASSUME NEW first \in Nat, NEW places \in Layout, NEW shapes,
           \A i \in first..(first + Len(places) - 1) : shapes[i] \in Shape
    PROVE  Typed(Placed(first, places, shapes))
<1>1. Len(places) \in Nat /\ \A k \in 1..Len(places) : places[k] \in [1..4 -> Nat]
    BY DEF Layout
<1>2. ASSUME NEW i \in first..(first + Len(places) - 1)
      PROVE  [at |-> places[i - first + 1], shape |-> shapes[i]] \in Panel
    <2>1. i - first + 1 \in 1..Len(places)
        BY <1>1
    <2> QED
        BY <1>1, <2>1 DEF Panel
<1> QED
    BY <1>2 DEF Typed, Placed

LEMMA FirstTyped ==
    ASSUME NEW places \in Layout, NEW shapes, \A i \in 1..Len(places) : shapes[i] \in Shape
    PROVE  Typed(Placed(1, places, shapes))
<1>1. 1 \in Nat /\ 1..(1 + Len(places) - 1) = 1..Len(places)
    BY DEF Layout
<1> QED
    BY <1>1, PlacedTyped, Zenon

LEMMA OwnTyped ==
    ASSUME NEW first \in Nat, NEW places \in Layout
    PROVE  Typed(Own(first, places))
<1> DEFINE shapes == [i \in first..(first + Len(places)) |-> Plain]
<1>1. Len(places) \in Nat
    BY DEF Layout
<1>2. \A i \in first..(first + Len(places) - 1) : shapes[i] \in Shape
    BY <1>1 DEF Shape
<1> HIDE DEF shapes
<1>3. Typed(Placed(first, places, shapes))
    BY <1>2, PlacedTyped
<1> QED
    BY <1>3 DEF Own, shapes

LEMMA ExtendTyped ==
    ASSUME NEW dash, NEW reserved, NEW added, NEW offset \in Nat, Typed(dash), Typed(added)
    PROVE  Typed(Extend(dash, reserved, added, offset))
<1>1. PICK by \in Nat : Extend(dash, reserved, added, offset) =
                            Merge([j \in Foreign(dash, reserved) |-> Down(dash[j], by)], added)
    BY DEF Extend
<1>2. \A j \in Foreign(dash, reserved) : Down(dash[j], by) \in Panel
    BY DownStays DEF Foreign, Typed
<1>3. \A j \in DOMAIN added : added[j] \in Panel
    BY DEF Typed
<1>4. Typed(Merge([j \in Foreign(dash, reserved) |-> Down(dash[j], by)], added))
    BY <1>2, <1>3 DEF Merge, Typed
<1> QED
    BY <1>1, <1>4

LEMMA AddedTyped ==
    /\ Typed(Header)
    /\ \A d \in Extended : Typed(Added(d)) /\ Offset(d) \in Nat
<1>1. Typed(Header) /\ Typed(Own(100, KafkaLists)) /\ Typed(Own(100, NifiLists))
    BY SmallLayouts, OwnTyped DEF Header
<1>2. \A d \in Extended : Added(d) \in {Header, Own(100, KafkaLists), Own(100, NifiLists)}
    BY DEF Added
<1> QED
    BY <1>1, <1>2, AddedIsReserved

LEMMA WithListsTyped ==
    ASSUME NEW d \in Extended, NEW dash, Typed(dash)
    PROVE  Typed(WithLists(d, dash))
    BY AddedTyped, ExtendTyped DEF WithLists

LEMMA BrandedTyped ==
    ASSUME NEW file, \A d \in DOMAIN file : Typed(file[d])
    PROVE  TypedFile(Branded(file))
<1>1. ASSUME NEW d \in DOMAIN file
      PROVE  Typed(WithHeader(file[d]))
    BY AddedTyped, ExtendTyped DEF WithHeader, HeaderOffset
<1> QED
    BY <1>1 DEF TypedFile, Branded

LEMMA DesignsTyped == \A d \in Extended : \A dash \in Designs[d] : Typed(dash)
    BY DesignsAssumption DEF Typed

LEMMA FreshTyped ==
    ASSUME NEW m, TemplateTypes(m), m.airflow \in Designs["airflow"]
    PROVE  /\ \A d \in DOMAIN FreshTrino(m) : Typed(FreshTrino(m)[d])
           /\ \A d \in DOMAIN FreshAuthorization(m) : Typed(FreshAuthorization(m)[d])
<1>1. Typed(Placed(1, TrinoQueriesPanels, m.queries))
    <2>1. \A i \in 1..1 : m.queries[i] \in Shape
        BY DEF TemplateTypes
    <2> QED
        BY <2>1, QueriesLayout, FirstTyped
<1>2. Typed(FreshTrino(m).detail)
    <2> DEFINE shapes == [i \in 1..11 |-> IF i < 7 THEN Plain ELSE IF i = 7 THEN m.detail[8] ELSE m.detail[i]]
    <2>1. \A i \in 1..11 : shapes[i] \in Shape
        BY DEF TemplateTypes, Shape
    <2> HIDE DEF shapes
    <2>2. Typed(Placed(1, TrinoDetailPanels, shapes))
        BY <2>1, DetailLayout, FirstTyped
    <2> QED
        BY <2>2 DEF FreshTrino, shapes
<1>3. Typed(NifiAuthorization(m.airflow))
    <2> DEFINE shapes == [i \in 1..6 |-> m.airflow[CASE i = 1 -> 1 [] i = 4 -> 4 [] OTHER -> 2].shape]
    <2>1. \A i \in {1, 2, 4} : m.airflow[i].shape \in Shape
        <3>1. "airflow" \in Extended /\ Designs.airflow = Designs["airflow"]
            BY DEF Extended
        <3>2. \A i \in {1, 2, 4} : i \in DOMAIN m.airflow /\ m.airflow[i] \in Panel
            BY <3>1, DesignsAssumption
        <3> QED
            BY <3>2 DEF Panel
    <2>2. ASSUME NEW i \in 1..6
          PROVE  shapes[i] \in Shape
        <3>1. CASE i = 1
            BY <2>1, <3>1
        <3>2. CASE i = 4
            BY <2>1, <3>2
        <3>3. CASE i \notin {1, 4}
            BY <2>1, <3>3
        <3> QED
            BY <3>1, <3>2, <3>3
    <2>3. Len(NifiAuthorizationPanels) = 6
        BY DEF NifiAuthorizationPanels
    <2> HIDE DEF shapes
    <2>4. Typed(Placed(1, NifiAuthorizationPanels, shapes))
        BY <2>2, <2>3, SmallLayouts, FirstTyped
    <2> QED
        BY <2>4, Zenon DEF NifiAuthorization, shapes
<1> QED
    BY <1>1, <1>2, <1>3 DEF FreshTrino, FreshAuthorization

LEMMA TypedWrite ==
    ASSUME TypeInv, ResultInv', NEW n \in Running, NEW content, Writes(n, content), TypedFile(content)
    PROVE  TypeInv'
<1>1. Order[n] \in Files
    BY DEF Files
<1>2. \A f \in Files : TypedFile(tree'[f])
    BY <1>1 DEF Writes, TypeInv, ResultInv, GoodInv, GoodTree
<1> QED
    BY <1>2 DEF Writes, TypeInv

\* The files that are not made from others.
LEMMA OwnFilesTyped ==
    TypedFile([overview |-> Overview]) /\ TypedFile(KafkaFile) /\ TypedFile(NifiFlow)
<1>1. Typed(Overview)
    BY OverviewLayout, OwnTyped DEF Overview
<1>2. Typed(Own(1, KafkaTopicPanels)) /\ Typed(Own(1, KafkaBrokerPanels))
    BY KafkaLayouts, OwnTyped
<1>3. Typed(Own(1, NifiGroupPanels)) /\ Typed(Own(1, NifiProcessorPanels))
    BY NifiLayouts, OwnTyped
<1>4. \A d \in DOMAIN [overview |-> Overview] : [overview |-> Overview][d] = Overview
    OBVIOUS
<1>5. \A d \in DOMAIN KafkaFile : KafkaFile[d] \in {Own(1, KafkaTopicPanels), Own(1, KafkaBrokerPanels)}
    BY DEF KafkaFile
<1>6. \A d \in DOMAIN NifiFlow : NifiFlow[d] \in {Own(1, NifiGroupPanels), Own(1, NifiProcessorPanels)}
    BY DEF NifiFlow
<1> QED
    BY <1>1, <1>2, <1>3, <1>4, <1>5, <1>6 DEF TypedFile

LEMMA ResultTyped ==
    ASSUME NEW m, TemplateTypes(m), \A d \in Extended : m[d] \in Designs[d]
    PROVE  \A f \in Files : TypedFile(Result(m)[f])
<1>1. Extended = {"airflow", "opa", "logs", "kafka", "nifi"}
    BY DEF Extended
<1>2. m.airflow \in Designs["airflow"]
    BY <1>1
<1>3. TypedFile(Branded(FreshTrino(m))) /\ TypedFile(Branded(FreshAuthorization(m)))
    BY <1>2, FreshTyped, BrandedTyped
<1>4. \A d \in Extended : Typed(WithLists(d, m[d]))
    BY DesignsTyped, WithListsTyped
<1>5. Result(m)["trino"] = Branded(FreshTrino(m)) /\ Result(m)["authorization"] = Branded(FreshAuthorization(m))
    BY DEF Result, FreshTrino, FreshAuthorization
<1>6. \A f \in {"airflow", "opa", "logs"} :
        /\ DOMAIN Result(m)[f] = {f}
        /\ Result(m)[f][f] = WithLists(f, m[f])
    BY HeaderIsList DEF Result
<1>7. /\ DOMAIN Result(m)["stackable"] = {"kafka", "nifi"}
      /\ \A d \in {"kafka", "nifi"} : Result(m)["stackable"][d] = WithLists(d, m[d])
    BY DEF Result
<1>8. /\ Result(m)["overview"] = [overview |-> Overview]
      /\ Result(m)["kafka"] = KafkaFile /\ Result(m)["flow"] = NifiFlow
    BY DEF Result
<1>9. \A f \in {"airflow", "opa", "logs", "stackable"} : TypedFile(Result(m)[f])
    BY <1>1, <1>4, <1>6, <1>7 DEF TypedFile
<1> QED
    BY <1>3, <1>5, <1>8, <1>9, OwnFilesTyped, FilesAre

LEMMA TypeInit == Init => TypeInv
<1> SUFFICES ASSUME Init PROVE TypeInv
    OBVIOUS
<1>1. ResultInv
    BY ResultInit
<1>2. edits = 0 /\ deaths = 0 /\ tree = Result(made) /\ git.tree = tree
    BY DEF Init
<1>3. TemplateTypes(made) /\ \A d \in Extended : made[d] \in Designs[d]
    BY <1>1 DEF ResultInv, GoodOrigin, GoodInv, GoodTree
<1>4. \A f \in Files : TypedFile(Result(made)[f])
    BY <1>3, ResultTyped
<1> QED
    BY <1>1, <1>2, <1>4, BoundsAssumption DEF TypeInv

LEMMA TypeStep == TypeInv /\ [Next]_vars => TypeInv'
<1> SUFFICES ASSUME TypeInv, [Next]_vars PROVE TypeInv'
    OBVIOUS
<1>0. ResultInv'
    BY ResultStep DEF TypeInv
<1>a. /\ Running = 1..12 /\ TemplateTypes(made) /\ made.airflow \in Designs["airflow"]
      /\ DOMAIN tree = Files /\ \A f \in Files : tree[f] # Torn => TypedFile(tree[f])
    BY FilesAre DEF TypeInv, ResultInv, GoodOrigin, GoodInv, GoodTree, Extended
<1>1. CASE Starts \/ Fails \/ UNCHANGED vars
    BY <1>0, <1>1 DEF Starts, Fails, vars, TypeInv
<1>2. CASE WritesTrino
    <2>1. Writes(1, Trino(tree["trino"])) /\ tree["trino"] # Torn
        BY <1>2 DEF WritesTrino, Writes, Readable, Reads
    <2>2. Trino(tree["trino"]) = FreshTrino(made)
        BY <2>1, <1>a, FreshFromTemplates DEF TypeInv, ResultInv, GoodOrigin, GoodTemplates
    <2>3. TypedFile(FreshTrino(made))
        BY <1>a, FreshTyped DEF TypedFile
    <2> QED
        BY <1>0, <1>a, <2>1, <2>2, <2>3, TypedWrite
<1>3. CASE WritesNifiAuthorization
    <2>1. Writes(2, [nifi |-> NifiAuthorization(tree["airflow"]["airflow"])]) /\ tree["airflow"] # Torn
        BY <1>3 DEF WritesNifiAuthorization, Writes, Readable, Reads
    <2>2. Fits(tree["airflow"]["airflow"], "airflow", made)
        BY <2>1, OursAre DEF TypeInv, ResultInv, GoodInv, GoodTree, GoodFile, Extended, File
    <2>3. [nifi |-> NifiAuthorization(tree["airflow"]["airflow"])] = FreshAuthorization(made)
        BY <1>a, <2>2, SameAuthorization DEF FreshAuthorization
    <2>4. TypedFile(FreshAuthorization(made))
        BY <1>a, FreshTyped DEF TypedFile
    <2> QED
        BY <1>0, <1>a, <2>1, <2>3, <2>4, TypedWrite
<1>4. CASE Brands
    <2>1. PICK n \in 3..7 : Writes(n, Branded(tree[Order[n]]))
        BY <1>4 DEF Brands
    <2>2. Reads[n] = {Order[n]} /\ Order[n] \in Files
        <3>1. \A k \in {3, 4, 5, 6, 7} : Reads[k] = {Order[k]}
            BY DEF Reads, Order
        <3> QED
            BY <3>1, OrderOfWrites
    <2>3. tree[Order[n]] # Torn
        BY <2>1, <2>2 DEF Writes, Readable
    <2>4. TypedFile(Branded(tree[Order[n]]))
        BY <1>a, <2>2, <2>3, BrandedTyped DEF TypedFile
    <2> QED
        BY <1>0, <1>a, <2>1, <2>4, TypedWrite
<1>5. CASE WritesOverview \/ WritesKafka \/ WritesNifiFlow
    <2>1. \/ Writes(8, [overview |-> Overview]) \/ Writes(10, KafkaFile) \/ Writes(12, NifiFlow)
        BY <1>5 DEF WritesOverview, WritesKafka, WritesNifiFlow
    <2> QED
        BY <1>0, <1>a, <2>1, OwnFilesTyped, TypedWrite
<1>6. CASE ListsKafka \/ ListsNifi
    <2>1. PICK d \in {"kafka", "nifi"}, n \in {9, 11} :
            Writes(n, Listed(d, tree["stackable"])) /\ Reads[n] = {"stackable"}
        BY <1>6 DEF ListsKafka, ListsNifi, Reads
    <2>2. tree["stackable"] # Torn /\ "stackable" \in Files /\ d \in Extended
        BY <2>1, FilesAre DEF Writes, Readable, Extended
    <2>3. \A e \in DOMAIN tree["stackable"] : Typed(tree["stackable"][e])
        BY <1>a, <2>2 DEF TypedFile
    <2>4. d \in DOMAIN tree["stackable"]
        BY <2>1, <2>2, OursAre DEF TypeInv, ResultInv, GoodInv, GoodTree, GoodFile, Extended, File
    <2>5. Typed(WithLists(d, tree["stackable"][d]))
        BY <2>2, <2>3, <2>4, WithListsTyped
    <2>6. TypedFile(Listed(d, tree["stackable"]))
        BY <2>3, <2>5 DEF TypedFile, Listed
    <2> QED
        BY <1>0, <1>a, <2>1, <2>6, TypedWrite
<1>10. CASE Dies
    <2>1. \A f \in Files : tree'[f] \in {tree[f], Torn}
        BY <1>10, <1>a DEF Dies
    <2>2. \A f \in Files : TypedFile(tree'[f])
        BY <2>1, <1>a DEF TypedFile
    <2>3. deaths' \in 0..MaxDeaths
        BY <1>10, BoundsAssumption DEF Dies, TypeInv
    <2> QED
        BY <1>0, <1>10, <2>2, <2>3 DEF Dies, TypeInv
<1>11. CASE \E d \in Extended : Redesigns(d)
    <2>1. PICK d \in Extended : Redesigns(d)
        BY <1>11
    <2>2. PICK dash :
            /\ Typed(dash)
            /\ tree' = [tree EXCEPT ![File(d)] = [@ EXCEPT ![d] = dash]]
        BY <2>1, DesignsTyped, WithListsTyped DEF Redesigns
    <2>3. edits' \in 0..MaxEdits /\ deaths' = deaths /\ git' = git
        BY <2>1, BoundsAssumption DEF Redesigns, Edit, TypeInv
    <2>4. File(d) \in Files /\ tree[File(d)] # Torn
        BY <2>1, FilesAre DEF Redesigns, Edit
    <2>5. TypedFile([tree[File(d)] EXCEPT ![d] = dash])
        BY <1>a, <2>2, <2>4 DEF TypedFile
    <2>6. \A f \in Files : TypedFile(tree'[f])
        BY <1>a, <2>2, <2>4, <2>5 DEF TypeInv
    <2> QED
        BY <1>0, <2>3, <2>6 DEF TypeInv
<1>12. CASE \E d \in {"queries", "detail"} : Reshapes(d)
    <2>1. PICK d \in {"queries", "detail"} : Reshapes(d)
        BY <1>12
    <2>2. PICK i \in DOMAIN made[d], s \in Shapes :
            tree' = [tree EXCEPT !.trino = [@ EXCEPT ![d][i].shape = s]]
        BY <2>1 DEF Reshapes
    <2>3. edits' \in 0..MaxEdits /\ deaths' = deaths /\ git' = git
        BY <2>1, BoundsAssumption DEF Reshapes, Edit, TypeInv
    <2>4. "trino" \in Files /\ tree["trino"] # Torn
        BY <2>1, FilesAre DEF Reshapes, Edit
    <2> DEFINE file == tree["trino"]
    <2>5. \A e \in DOMAIN file : Typed(file[e])
        BY <1>a, <2>4 DEF TypedFile
    <2>6. s \in Shape
        BY DEF Shape
    <2>7. TypedFile([file EXCEPT ![d][i].shape = s])
        <3> HIDE DEF file
        <3>1. ASSUME NEW e \in DOMAIN file
              PROVE  Typed([file EXCEPT ![d][i].shape = s][e])
            <4>1. CASE e # d
                BY <2>5, <4>1
            <4>2. CASE e = d
                <5>1. [file EXCEPT ![d][i].shape = s][e] = [file[d] EXCEPT ![i].shape = s]
                    BY <4>2
                <5>2. \A j \in DOMAIN file[d] : [file[d] EXCEPT ![i].shape = s][j] \in Panel
                    BY <2>5, <2>6, <4>2 DEF Typed, Panel
                <5> QED
                    BY <5>1, <5>2 DEF Typed
            <4> QED
                BY <4>1, <4>2
        <3> QED
            BY <3>1 DEF TypedFile
    <2>8. tree' = [tree EXCEPT !["trino"] = [file EXCEPT ![d][i].shape = s]]
        BY <2>2
    <2> HIDE DEF file
    <2>9. \A f \in Files : TypedFile(tree'[f])
        BY <1>a, <2>4, <2>7, <2>8 DEF TypeInv
    <2> QED
        BY <1>0, <2>3, <2>9 DEF TypeInv
<1>13. CASE \E f \in Files : Restores(f)
    <2>1. PICK f \in Files : Restores(f)
        BY <1>13
    <2>2. \A e \in Files : TypedFile(tree'[e])
        BY <1>a, <2>1 DEF Restores, TypeInv
    <2> QED
        BY <1>0, <2>1, <2>2 DEF Restores, TypeInv
<1>14. CASE Commits
    BY <1>0, <1>14 DEF Commits, TypeInv
<1> QED
    BY <1>1, <1>2, <1>3, <1>4, <1>5, <1>6, <1>10, <1>11, <1>12, <1>13, <1>14
    DEF Next, Run, People

\* The types of grafana-dashboards.py, for all dashboards, edits and deaths:
\* every place it computes is a place on the grid.
THEOREM PanelsStayOnTheGrid == Spec => []TypeOK
<1>1. TypeInv => TypeOK
    <2> SUFFICES ASSUME TypeInv PROVE TypeOK
        OBVIOUS
    <2>1. step \in 0..Done /\ DOMAIN tree = Files
        BY FilesAre DEF TypeInv, ResultInv, GoodInv, GoodTree
    <2>2. \A f \in Files : tree[f] # Torn =>
            \A dash \in Dashboards(tree[f]) : dash \in [DOMAIN dash -> Panel]
        BY DEF TypeInv, TypedFile, Typed, Dashboards
    <2> QED
        BY <2>1, <2>2 DEF TypeOK, TypeInv
<1> QED
    BY <1>1, TypeInit, TypeStep, PTL DEF Spec

----------------------------------------------------------------------------
(***************************************************************************)
(* The panels of a complete run do not overlap.  Each layout is put        *)
(* together from boxes beneath and beside each other.                      *)
(***************************************************************************)

\* A layout within x0 and x1, y0 and y1, of panels that do not overlap.
Apart(p, q) ==
    \/ p[1] + p[3] <= q[1] \/ q[1] + q[3] <= p[1]
    \/ p[2] + p[4] <= q[2] \/ q[2] + q[4] <= p[2]
Inside(p, x0, x1, y0, y1) == x0 <= p[1] /\ p[1] + p[3] <= x1 /\ y0 <= p[2] /\ p[2] + p[4] <= y1
Box(s, x0, x1, y0, y1) ==
    /\ s \in Layout
    /\ \A i \in 1..Len(s) : Inside(s[i], x0, x1, y0, y1)
    /\ \A i, j \in 1..Len(s) : i # j => Apart(s[i], s[j])

LEMMA Beneath ==
    ASSUME NEW p \in Place, NEW q \in Place, NEW y \in Nat
    PROVE  /\ p[2] + p[4] <= y /\ y <= q[2] => Apart(p, q) /\ Apart(q, p)
           /\ p[1] + p[3] <= y /\ y <= q[1] => Apart(p, q) /\ Apart(q, p)
    BY DEF Place, Apart

\* Two layouts, one beneath the other or beside it.
LEMMA JoinBox ==
    ASSUME NEW s \in Layout, NEW t \in Layout, NEW x0 \in Nat, NEW x1 \in Nat, NEW y0 \in Nat, NEW y1 \in Nat,
           \A i \in 1..Len(s) : Inside(s[i], x0, x1, y0, y1), \A i \in 1..Len(t) : Inside(t[i], x0, x1, y0, y1),
           \A i, j \in 1..Len(s) : i # j => Apart(s[i], s[j]),
           \A i, j \in 1..Len(t) : i # j => Apart(t[i], t[j]),
           \A i \in 1..Len(s), j \in 1..Len(t) : Apart(s[i], t[j]) /\ Apart(t[j], s[i])
    PROVE  Box(s \o t, x0, x1, y0, y1)
<1>1. /\ s \o t \in Layout /\ Len(s \o t) = Len(s) + Len(t) /\ Len(s) \in Nat /\ Len(t) \in Nat
    BY Joined, LenProperties DEF Layout
<1>2. ASSUME NEW i \in 1..Len(s \o t)
      PROVE  \/ i \in 1..Len(s) /\ (s \o t)[i] = s[i]
             \/ i - Len(s) \in 1..Len(t) /\ (s \o t)[i] = t[i - Len(s)]
    BY <1>1, ConcatProperties DEF Layout
<1>3. \A i \in 1..Len(s \o t) : Inside((s \o t)[i], x0, x1, y0, y1)
    BY <1>2
<1>4. ASSUME NEW i \in 1..Len(s \o t), NEW j \in 1..Len(s \o t), i # j
      PROVE  Apart((s \o t)[i], (s \o t)[j])
    <2>1. CASE i \in 1..Len(s) /\ (s \o t)[i] = s[i] /\ j \in 1..Len(s) /\ (s \o t)[j] = s[j]
        BY <1>4, <2>1
    <2>2. CASE i \in 1..Len(s) /\ (s \o t)[i] = s[i] /\ j - Len(s) \in 1..Len(t) /\ (s \o t)[j] = t[j - Len(s)]
        BY <2>2
    <2>3. CASE i - Len(s) \in 1..Len(t) /\ (s \o t)[i] = t[i - Len(s)] /\ j \in 1..Len(s) /\ (s \o t)[j] = s[j]
        BY <2>3
    <2>4. CASE i - Len(s) \in 1..Len(t) /\ (s \o t)[i] = t[i - Len(s)] /\ j - Len(s) \in 1..Len(t) /\ (s \o t)[j] = t[j - Len(s)]
        <3>1. i - Len(s) # j - Len(s)
            BY <1>1, <1>4
        <3> QED
            BY <2>4, <3>1
    <2> QED
        BY <1>2, <2>1, <2>2, <2>3, <2>4
<1> QED
    BY <1>1, <1>3, <1>4 DEF Box

LEMMA Below ==
    ASSUME NEW s, NEW t, NEW x0 \in Nat, NEW x1 \in Nat, NEW y0 \in Nat, NEW y \in Nat, NEW y1 \in Nat,
           Box(s, x0, x1, y0, y), Box(t, x0, x1, y, y1), y0 <= y, y <= y1
    PROVE  Box(s \o t, x0, x1, y0, y1)
<1>1. s \in Layout /\ t \in Layout
    BY DEF Box
<1>2. (\A i \in 1..Len(s) : s[i] \in Place) /\ (\A i \in 1..Len(t) : t[i] \in Place)
    BY <1>1, ElementOfSeq DEF Layout, Place
<1>3. \A i \in 1..Len(s) : Inside(s[i], x0, x1, y0, y1)
    BY <1>2 DEF Box, Inside, Place
<1>4. \A i \in 1..Len(t) : Inside(t[i], x0, x1, y0, y1)
    BY <1>2 DEF Box, Inside, Place
<1>5. \A i \in 1..Len(s), j \in 1..Len(t) : Apart(s[i], t[j]) /\ Apart(t[j], s[i])
    BY <1>2, Beneath DEF Box, Inside
<1>6. /\ \A i, j \in 1..Len(s) : i # j => Apart(s[i], s[j])
      /\ \A i, j \in 1..Len(t) : i # j => Apart(t[i], t[j])
    BY DEF Box
<1> QED
    BY <1>1, <1>3, <1>4, <1>5, <1>6, JoinBox

LEMMA Beside ==
    ASSUME NEW s, NEW t, NEW x0 \in Nat, NEW x \in Nat, NEW x1 \in Nat, NEW y0 \in Nat, NEW y1 \in Nat,
           Box(s, x0, x, y0, y1), Box(t, x, x1, y0, y1), x0 <= x, x <= x1
    PROVE  Box(s \o t, x0, x1, y0, y1)
<1>1. s \in Layout /\ t \in Layout
    BY DEF Box
<1>2. (\A i \in 1..Len(s) : s[i] \in Place) /\ (\A i \in 1..Len(t) : t[i] \in Place)
    BY <1>1, ElementOfSeq DEF Layout, Place
<1>3. \A i \in 1..Len(s) : Inside(s[i], x0, x1, y0, y1)
    BY <1>2 DEF Box, Inside, Place
<1>4. \A i \in 1..Len(t) : Inside(t[i], x0, x1, y0, y1)
    BY <1>2 DEF Box, Inside, Place
<1>5. \A i \in 1..Len(s), j \in 1..Len(t) : Apart(s[i], t[j]) /\ Apart(t[j], s[i])
    BY <1>2, Beneath DEF Box, Inside
<1>6. /\ \A i, j \in 1..Len(s) : i # j => Apart(s[i], s[j])
      /\ \A i, j \in 1..Len(t) : i # j => Apart(t[i], t[j])
    BY DEF Box
<1> QED
    BY <1>1, <1>3, <1>4, <1>5, <1>6, JoinBox

LEMMA OnePanel ==
    ASSUME NEW x \in Nat, NEW y \in Nat, NEW w \in Nat, NEW h \in Nat, NEW x1 \in Nat, x + w <= x1
    PROVE  Box(<<<<x, y, w, h>>>>, x, x1, y, y + h)
<1> DEFINE p == <<x, y, w, h>>
<1>1. p \in Place /\ p[1] = x /\ p[2] = y /\ p[3] = w /\ p[4] = h
    BY Rectangles DEF Place
<1> HIDE DEF p
<1>2. <<p>> \in Layout /\ Len(<<p>>) = 1 /\ <<p>>[1] = p
    BY <1>1 DEF Layout, Place
<1>3. Inside(p, x, x1, y, y + h)
    BY <1>1 DEF Inside
<1>4. Box(<<p>>, x, x1, y, y + h)
    BY <1>2, <1>3 DEF Box
<1> QED
    BY <1>4 DEF p

LEMMA OneFull ==
    ASSUME NEW y \in Nat, NEW h \in Nat
    PROVE  Box(<<Full(y, h)>>, 0, 24, y, y + h)
    BY OnePanel DEF Full, Columns

LEMMA Row ==
    ASSUME NEW s \in Layout, NEW x0 \in Nat, NEW w \in Nat, NEW x1 \in Nat, NEW y \in Nat, NEW h \in Nat,
           \A i \in 1..Len(s) : s[i] = <<x0 + (i - 1) * w, y, w, h>>, x0 + Len(s) * w <= x1
    PROVE  Box(s, x0, x1, y, y + h)
<1>1. Len(s) \in Nat
    BY LenProperties DEF Layout
<1>2. ASSUME NEW i \in 1..Len(s)
      PROVE  s[i][1] = x0 + (i - 1) * w /\ s[i][2] = y /\ s[i][3] = w /\ s[i][4] = h
    BY <1>2
<1>3. \A m \in Nat : m * w \in Nat
    OBVIOUS
<1>4. ASSUME NEW i \in 1..Len(s)
      PROVE  (i - 1) * w \in Nat /\ (i - 1) * w + w = i * w /\ i * w \in Nat
    BY <1>1, <1>3
<1>5. ASSUME NEW k \in Nat, NEW m \in Nat, k <= m
      PROVE  k * w <= m * w
    BY <1>5
<1>6. ASSUME NEW i \in 1..Len(s)
      PROVE  Inside(s[i], x0, x1, y, y + h)
    <2>1. i * w <= Len(s) * w
        BY <1>1, <1>5
    <2>2. Len(s) * w \in Nat
        BY <1>1, <1>3
    <2> DEFINE a == (i - 1) * w
               b == i * w
               c == Len(s) * w
    <2>3. /\ a \in Nat /\ a + w = b /\ b \in Nat /\ c \in Nat /\ b <= c /\ x0 + c <= x1
          /\ s[i][1] = x0 + a /\ s[i][2] = y /\ s[i][3] = w /\ s[i][4] = h
        BY <1>2, <1>4, <2>1, <2>2
    <2> HIDE DEF a, b, c
    <2> QED
        BY <2>3 DEF Inside
<1>7. ASSUME NEW i \in 1..Len(s), NEW j \in 1..Len(s), i < j
      PROVE  Apart(s[i], s[j]) /\ Apart(s[j], s[i])
    <2>0. i \in Nat /\ j - 1 \in Nat /\ i <= j - 1
        BY <1>1, <1>7
    <2>1. i * w <= (j - 1) * w
        BY <1>5, <2>0
    <2> DEFINE a == (i - 1) * w
               b == i * w
               c == (j - 1) * w
    <2>2. /\ a \in Nat /\ a + w = b /\ b \in Nat /\ c \in Nat /\ b <= c
          /\ s[i][1] = x0 + a /\ s[i][3] = w /\ s[j][1] = x0 + c
        BY <1>2, <1>4, <2>1
    <2> HIDE DEF a, b, c
    <2> QED
        BY <2>2 DEF Apart
<1>8. \A i, j \in 1..Len(s) : i # j => i < j \/ j < i
    BY <1>1
<1> QED
    BY <1>6, <1>7, <1>8 DEF Box

LEMMA TilesBox ==
    ASSUME NEW n \in {2, 3, 4, 6, 8}, NEW y \in Nat, NEW h \in Nat
    PROVE  Box(Tiles(n, y, h), 0, 24, y, y + h)
<1>1. Tiles(n, y, h) \in Layout /\ Len(Tiles(n, y, h)) = n
    BY TilesLayout
<1> DEFINE w == Columns \div n
<1>2. w \in Nat /\ n \in Nat /\ 0 + n * w <= 24
    BY DEF Columns
<1>3. \A i \in 1..n : Tiles(n, y, h)[i] = <<(i - 1) * w, y, w, h>>
    BY DEF Tiles
<1> HIDE DEF w
<1>4. \A i \in 1..n : Tiles(n, y, h)[i] = <<0 + (i - 1) * w, y, w, h>>
    <2>1. \A i \in 1..n : 0 + (i - 1) * w = (i - 1) * w
        BY <1>2
    <2> QED
        BY <1>3, <2>1
<1> QED
    BY <1>1, <1>2, <1>4, Row

LEMMA FourOfTwo == \A a, b, c, d : <<a, b, c, d>> = <<a, b>> \o <<c, d>>
    OBVIOUS

LEMMA LayoutIs ==
    ASSUME NEW n \in Nat, NEW s \in [1..n -> Place]
    PROVE  s \in Layout /\ Len(s) = n
    BY DEF Layout, Place

LEMMA TwoPanels ==
    ASSUME NEW x0 \in Nat, NEW x1 \in Nat, NEW y0 \in Nat, NEW y1 \in Nat, NEW p \in Place, NEW q \in Place,
           Inside(p, x0, x1, y0, y1), Inside(q, x0, x1, y0, y1), Apart(p, q)
    PROVE  Box(<<p, q>>, x0, x1, y0, y1)
<1> DEFINE s == <<p, q>>
<1>1. s \in Layout
    BY Lists
<1>2. Len(s) = 2 /\ s[1] = p /\ s[2] = q
    OBVIOUS
<1> HIDE DEF s
<1>3. Apart(q, p)
    BY DEF Apart
<1>4. \A i \in 1..2 : i = 1 \/ i = 2
    OBVIOUS
<1>5. Box(s, x0, x1, y0, y1)
    BY <1>1, <1>2, <1>3, <1>4 DEF Box
<1> QED
    BY <1>5 DEF s

LEMMA Wider ==
    ASSUME NEW s, NEW x0 \in Nat, NEW x1 \in Nat, NEW y0 \in Nat, NEW y1 \in Nat,
           NEW a0 \in Nat, NEW a1 \in Nat, NEW b0 \in Nat, NEW b1 \in Nat,
           Box(s, x0, x1, y0, y1), a0 <= x0, x1 <= a1, b0 <= y0, y1 <= b1
    PROVE  Box(s, a0, a1, b0, b1)
<1>1. s \in Layout /\ \A i \in 1..Len(s) : s[i] \in Place
    BY ElementOfSeq DEF Box, Layout, Place
<1>2. \A i \in 1..Len(s) : Inside(s[i], a0, a1, b0, b1)
    BY <1>1 DEF Box, Inside, Place
<1> QED
    BY <1>1, <1>2 DEF Box

\* A row title, or another panel of the whole width, above other panels.
LEMMA FullAbove ==
    ASSUME NEW y \in Nat, NEW h \in Nat, NEW t, NEW y1 \in Nat, Box(t, 0, 24, y + h, y1), y + h <= y1
    PROVE  Box(<<Full(y, h)>> \o t, 0, 24, y, y1)
<1>1. Box(<<Full(y, h)>>, 0, 24, y, y + h)
    BY OneFull
<1> QED
    BY <1>1, Below

LEMMA FullBox ==
    ASSUME NEW y \in Nat, NEW h \in Nat, NEW y1 \in Nat, y + h <= y1
    PROVE  Box(<<Full(y, h)>>, 0, 24, y, y1)
<1>1. Box(<<Full(y, h)>>, 0, 24, y, y + h)
    BY OneFull
<1> QED
    BY <1>1, Wider

LEMMA TwoFulls ==
    ASSUME NEW y \in Nat, NEW h \in Nat, NEW z \in Nat, NEW k \in Nat, NEW y1 \in Nat, y + h <= z, z + k <= y1
    PROVE  Box(<<Full(y, h), Full(z, k)>>, 0, 24, y, y1)
<1>1. Full(y, h) \in Place /\ Full(z, k) \in Place
    BY Fulls
<1>2. /\ Full(y, h)[1] = 0 /\ Full(y, h)[2] = y /\ Full(y, h)[3] = 24 /\ Full(y, h)[4] = h
      /\ Full(z, k)[1] = 0 /\ Full(z, k)[2] = z /\ Full(z, k)[3] = 24 /\ Full(z, k)[4] = k
    BY DEF Full, Columns
<1> HIDE DEF Full
<1>3. Apart(Full(y, h), Full(z, k)) /\ Inside(Full(y, h), 0, 24, y, y1) /\ Inside(Full(z, k), 0, 24, y, y1)
    BY <1>2 DEF Apart, Inside
<1> QED
    BY <1>1, <1>3, TwoPanels

LEMMA PairBox ==
    ASSUME NEW p \in Place, NEW q \in Place, p[1] + p[3] <= q[1], q[2] = p[2], q[4] = p[4]
    PROVE  Box(<<p, q>>, p[1], q[1] + q[3], p[2], p[2] + p[4])
<1>1. /\ p[1] \in Nat /\ p[2] \in Nat /\ p[3] \in Nat /\ p[4] \in Nat
      /\ q[1] \in Nat /\ q[2] \in Nat /\ q[3] \in Nat /\ q[4] \in Nat
    BY DEF Place
<1>2. Apart(p, q) /\ Inside(p, p[1], q[1] + q[3], p[2], p[2] + p[4]) /\ Inside(q, p[1], q[1] + q[3], p[2], p[2] + p[4])
    BY <1>1 DEF Apart, Inside
<1>3. q[1] + q[3] \in Nat /\ p[2] + p[4] \in Nat
    BY <1>1
<1> QED
    BY <1>1, <1>2, <1>3, TwoPanels

LEMMA PlaceIs ==
    ASSUME NEW x \in Nat, NEW y \in Nat, NEW w \in Nat, NEW h \in Nat, NEW p, p = <<x, y, w, h>>
    PROVE  p \in Place /\ p[1] = x /\ p[2] = y /\ p[3] = w /\ p[4] = h
    BY Rectangles DEF Place

LEMMA FourBeside ==
    ASSUME NEW p \in Place, NEW q \in Place, NEW r \in Place, NEW t \in Place, NEW y \in Nat, NEW h \in Nat,
           p[1] = 0, p[1] + p[3] = q[1], q[1] + q[3] = r[1], r[1] + r[3] = t[1], t[1] + t[3] = 24,
           p[2] = y, q[2] = y, r[2] = y, t[2] = y, p[4] = h, q[4] = h, r[4] = h, t[4] = h
    PROVE  Box(<<p, q, r, t>>, 0, 24, y, y + h)
<1>1. /\ p[3] \in Nat /\ q[1] \in Nat /\ q[3] \in Nat /\ r[1] \in Nat /\ r[3] \in Nat /\ t[1] \in Nat /\ t[3] \in Nat
      /\ y + h \in Nat
    BY DEF Place
<1>2. Box(<<p, q>>, 0, r[1], y, y + h) /\ Box(<<r, t>>, r[1], 24, y, y + h)
    BY <1>1, PairBox
<1>3. r[1] <= 24 /\ 0 <= r[1] /\ 24 \in Nat /\ 0 \in Nat
    BY <1>1
<1>4. ASSUME NEW u, NEW v, Box(u, 0, r[1], y, y + h), Box(v, r[1], 24, y, y + h)
      PROVE  Box(u \o v, 0, 24, y, y + h)
    BY <1>1, <1>3, <1>4, Beside
<1>5. Box(<<p, q>> \o <<r, t>>, 0, 24, y, y + h)
    BY <1>2, <1>4
<1>6. <<p, q, r, t>> = <<p, q>> \o <<r, t>>
    OBVIOUS
<1> QED
    BY <1>5, <1>6

LEMMA ListBoxes ==
    /\ Box(HeaderPanel, 0, 24, 0, 3)
    /\ Box(KafkaLists, 0, 24, 0, 18)
    /\ Box(NifiLists, 0, 24, 0, 11)
<1>1. Box(HeaderPanel, 0, 24, 0, 3)
    BY FullBox DEF HeaderPanel
<1>2. Box(KafkaLists, 0, 24, 0, 18)
    <2>1. Box(<<Full(0, 1), Full(1, 9)>>, 0, 24, 0, 10) /\ Box(<<Full(10, 7), Full(17, 1)>>, 0, 24, 10, 18)
        BY TwoFulls
    <2>2. Box(<<Full(0, 1), Full(1, 9)>> \o <<Full(10, 7), Full(17, 1)>>, 0, 24, 0, 18)
        BY <2>1, Below
    <2>3. KafkaLists = <<Full(0, 1), Full(1, 9)>> \o <<Full(10, 7), Full(17, 1)>>
        BY FourOfTwo DEF KafkaLists
    <2> QED
        BY <2>2, <2>3
<1>3. Box(NifiLists, 0, 24, 0, 11)
    <2>1. Box(<<Full(0, 1)>>, 0, 24, 0, 1) /\ Box(<<Full(1, 8), Full(10, 1)>>, 0, 24, 1, 11)
        BY TwoFulls, FullBox
    <2>2. Box(<<Full(0, 1)>> \o <<Full(1, 8), Full(10, 1)>>, 0, 24, 0, 11)
        BY <2>1, Below
    <2>3. NifiLists = <<Full(0, 1)>> \o <<Full(1, 8), Full(10, 1)>>
        BY DEF NifiLists
    <2> QED
        BY <2>2, <2>3
<1> QED
    BY <1>1, <1>2, <1>3

LEMMA TrinoBoxes ==
    /\ Box(TrinoQueriesPanels, 0, 24, 0, 26)
    /\ Box(TrinoDetailPanels, 0, 24, 0, 37)
<1>1. Box(TrinoQueriesPanels, 0, 24, 0, 26)
    BY FullBox DEF TrinoQueriesPanels
<1>2. Box(TrinoDetailPanels, 0, 24, 0, 37)
    <2> DEFINE a == <<0, 9, 9, 16>>
               b == <<9, 9, 15, 16>>
               c == <<0, 25, 12, 12>>
               d == <<12, 25, 12, 12>>
               f == Full(4, 5)
    <2>1. /\ a \in Place /\ a[1] = 0 /\ a[2] = 9 /\ a[3] = 9 /\ a[4] = 16
          /\ b \in Place /\ b[1] = 9 /\ b[2] = 9 /\ b[3] = 15 /\ b[4] = 16
          /\ c \in Place /\ c[1] = 0 /\ c[2] = 25 /\ c[3] = 12 /\ c[4] = 12
          /\ d \in Place /\ d[1] = 12 /\ d[2] = 25 /\ d[3] = 12 /\ d[4] = 12
        BY PlaceIs
    <2>2. TrinoDetailPanels = Tiles(6, 0, 4) \o <<f, a, b, c, d>>
        BY DEF TrinoDetailPanels
    <2>3. \A t : Box(t, 0, 24, 9, 37) => Box(<<f>> \o t, 0, 24, 4, 37)
        BY FullAbove
    <2> HIDE DEF a, b, c, d, f
    <2>4. Box(<<a, b>>, a[1], b[1] + b[3], a[2], a[2] + a[4]) /\ Box(<<c, d>>, c[1], d[1] + d[3], c[2], c[2] + c[4])
        BY <2>1, PairBox
    <2>5. Box(<<a, b>>, 0, 24, 9, 25) /\ Box(<<c, d>>, 0, 24, 25, 37)
        BY <2>1, <2>4
    <2>6. Box(<<a, b, c, d>>, 0, 24, 9, 37)
        <3>1. Box(<<a, b>> \o <<c, d>>, 0, 24, 9, 37)
            BY <2>5, Below
        <3>2. <<a, b, c, d>> = <<a, b>> \o <<c, d>>
            OBVIOUS
        <3> QED
            BY <3>1, <3>2
    <2>7. Box(<<f, a, b, c, d>>, 0, 24, 4, 37)
        <3>1. <<f, a, b, c, d>> = <<f>> \o <<a, b, c, d>>
            OBVIOUS
        <3> QED
            BY <2>3, <2>6, <3>1
    <2>8. Box(Tiles(6, 0, 4), 0, 24, 0, 4)
        BY TilesBox
    <2> QED
        BY <2>2, <2>7, <2>8, Below
<1> QED
    BY <1>1, <1>2

LEMMA AuthorizationBox == Box(NifiAuthorizationPanels, 0, 24, 0, 44)
<1> DEFINE a == <<0, 17, 12, 11>>
           b == <<12, 17, 12, 11>>
           c == Full(28, 9)
           d == <<0, 37, 12, 7>>
           e == Full(0, 8)
           f == Full(8, 9)
<1>1. /\ a \in Place /\ a[1] = 0 /\ a[2] = 17 /\ a[3] = 12 /\ a[4] = 11
      /\ b \in Place /\ b[1] = 12 /\ b[2] = 17 /\ b[3] = 12 /\ b[4] = 11
      /\ d \in Place /\ d[1] = 0 /\ d[2] = 37 /\ d[3] = 12 /\ d[4] = 7
    BY PlaceIs
<1>2. c \in Place /\ c[1] = 0 /\ c[2] = 28 /\ c[3] = 24 /\ c[4] = 9
    BY PlaceIs DEF Full, Columns
<1>3. NifiAuthorizationPanels = <<e, f, a, b, c, d>>
    BY DEF NifiAuthorizationPanels
<1>4. /\ \A t : Box(t, 0, 24, 17, 44) => Box(<<f>> \o t, 0, 24, 8, 44)
      /\ \A t : Box(t, 0, 24, 8, 44) => Box(<<e>> \o t, 0, 24, 0, 44)
    BY FullAbove
<1> HIDE DEF a, b, c, d, e, f
<1>5. Box(<<a, b>>, a[1], b[1] + b[3], a[2], a[2] + a[4])
    BY <1>1, PairBox
<1>6. Box(<<a, b>>, 0, 24, 17, 28)
    BY <1>1, <1>5
<1>7. Inside(c, 0, 24, 28, 44) /\ Inside(d, 0, 24, 28, 44) /\ Apart(c, d)
    BY <1>1, <1>2 DEF Inside, Apart
<1>8. Box(<<c, d>>, 0, 24, 28, 44)
    BY <1>1, <1>2, <1>7, TwoPanels
<1>9. Box(<<a, b, c, d>>, 0, 24, 17, 44)
    <2>1. Box(<<a, b>> \o <<c, d>>, 0, 24, 17, 44)
        BY <1>6, <1>8, Below
    <2>2. <<a, b, c, d>> = <<a, b>> \o <<c, d>>
        OBVIOUS
    <2> QED
        BY <2>1, <2>2
<1>10. Box(<<f, a, b, c, d>>, 0, 24, 8, 44)
    <2>1. <<f, a, b, c, d>> = <<f>> \o <<a, b, c, d>>
        OBVIOUS
    <2> QED
        BY <1>4, <1>9, <2>1
<1>11. Box(<<e, f, a, b, c, d>>, 0, 24, 0, 44)
    <2>1. <<e, f, a, b, c, d>> = <<e>> \o <<f, a, b, c, d>>
        OBVIOUS
    <2> QED
        BY <1>4, <1>10, <2>1
<1> QED
    BY <1>3, <1>11

LEMMA ProductsBox == Box(ProductTiles(10), 0, 24, 4, 12)
<1>1. ProductTiles(10) \in Layout /\ Len(ProductTiles(10)) = 10
    <2>1. ASSUME NEW i \in 1..10
          PROVE  ((i - 1) % 6) * 4 \in Nat /\ 4 + ((i - 1) \div 6) * 4 \in Nat
        OBVIOUS
    <2>2. \A i \in 1..10 : <<((i - 1) % 6) * 4, 4 + ((i - 1) \div 6) * 4, 4, 4>> \in Place
        BY <2>1, Rectangles DEF Place
    <2>3. ProductTiles(10) \in [1..10 -> Place]
        BY <2>2 DEF ProductTiles
    <2> DEFINE s == ProductTiles(10)
    <2> HIDE DEF s
    <2>4. s \in [1..10 -> Place]
        BY <2>3 DEF s
    <2>5. s \in Layout /\ Len(s) = 10
        BY <2>4, LayoutIs
    <2> QED
        BY <2>5 DEF s
<1>2. ASSUME NEW i \in 1..10
      PROVE  /\ ProductTiles(10)[i][1] = ((i - 1) % 6) * 4
             /\ ProductTiles(10)[i][2] = 4 + ((i - 1) \div 6) * 4
             /\ ProductTiles(10)[i][3] = 4 /\ ProductTiles(10)[i][4] = 4
    BY DEF ProductTiles
<1>3. ASSUME NEW i \in 1..10
      PROVE  Inside(ProductTiles(10)[i], 0, 24, 4, 12)
    BY <1>2 DEF Inside
<1>4. ASSUME NEW i \in 1..10, NEW j \in 1..10, i # j
      PROVE  Apart(ProductTiles(10)[i], ProductTiles(10)[j])
    <2>1. (i - 1) % 6 # (j - 1) % 6 \/ (i - 1) \div 6 # (j - 1) \div 6
        BY <1>4
    <2>2. (i - 1) % 6 \in 0..5 /\ (j - 1) % 6 \in 0..5 /\ (i - 1) \div 6 \in 0..1 /\ (j - 1) \div 6 \in 0..1
        OBVIOUS
    <2> DEFINE a == (i - 1) % 6
               b == (j - 1) % 6
               c == (i - 1) \div 6
               d == (j - 1) \div 6
    <2>3. a \in 0..5 /\ b \in 0..5 /\ c \in 0..1 /\ d \in 0..1 /\ (a # b \/ c # d)
        BY <2>1, <2>2
    <2>4. /\ ProductTiles(10)[i][1] = a * 4 /\ ProductTiles(10)[i][2] = 4 + c * 4
          /\ ProductTiles(10)[i][3] = 4 /\ ProductTiles(10)[i][4] = 4
          /\ ProductTiles(10)[j][1] = b * 4 /\ ProductTiles(10)[j][2] = 4 + d * 4
          /\ ProductTiles(10)[j][3] = 4 /\ ProductTiles(10)[j][4] = 4
        BY <1>2
    <2> HIDE DEF a, b, c, d
    <2> QED
        BY <2>3, <2>4 DEF Apart
<1> QED
    BY <1>1, <1>3, <1>4 DEF Box

LEMMA OverviewBox == Box(OverviewPanels, 0, 24, 0, 35)
<1>1. Box(HeaderPanel, 0, 24, 0, 3) /\ Box(<<Full(3, 1)>>, 0, 24, 3, 4)
    BY ListBoxes, FullBox
<1>2. Box(ProductTiles(10), 0, 24, 4, 12) /\ Box(<<Full(12, 1)>>, 0, 24, 12, 13)
    BY ProductsBox, FullBox
<1>3. Box(Tiles(4, 13, 4), 0, 24, 13, 17) /\ Box(Tiles(2, 17, 8), 0, 24, 17, 25)
    BY TilesBox
<1>4. Box(<<Full(25, 10)>>, 0, 24, 25, 35)
    BY FullBox
<1> DEFINE s1 == HeaderPanel \o <<Full(3, 1)>>
           s2 == s1 \o ProductTiles(10)
           s3 == s2 \o <<Full(12, 1)>>
           s4 == s3 \o Tiles(4, 13, 4)
           s5 == s4 \o Tiles(2, 17, 8)
<1>5. OverviewPanels = s5 \o <<Full(25, 10)>>
    BY DEF OverviewPanels
<1>6. Box(s1, 0, 24, 0, 4)
    BY <1>1, Below
<1> HIDE DEF s1
<1>7. Box(s2, 0, 24, 0, 12)
    BY <1>2, <1>6, Below
<1> HIDE DEF s2
<1>8. Box(s3, 0, 24, 0, 13)
    BY <1>2, <1>7, Below
<1> HIDE DEF s3
<1>9. Box(s4, 0, 24, 0, 17)
    BY <1>3, <1>8, Below
<1> HIDE DEF s4
<1>10. Box(s5, 0, 24, 0, 25)
    BY <1>3, <1>9, Below
<1> HIDE DEF s5
<1> QED
    BY <1>4, <1>5, <1>10, Below

LEMMA TopicBox == Box(KafkaTopicPanels, 0, 24, 0, 44)
<1> DEFINE a == <<0, 39, 4, 5>>
           b == <<4, 39, 10, 5>>
           c == <<14, 39, 5, 5>>
           d == <<19, 39, 5, 5>>
           e == Full(29, 7)
           f == Full(36, 1)
           g == Full(37, 2)
           s1 == Tiles(8, 0, 4)
           s2 == s1 \o <<Full(4, 1), Full(5, 7)>>
           s3 == s2 \o Tiles(2, 12, 8)
           s4 == s3 \o <<Full(20, 1)>>
           s5 == s4 \o Tiles(3, 21, 8)
<1>1. /\ a \in Place /\ a[1] = 0 /\ a[2] = 39 /\ a[3] = 4 /\ a[4] = 5
      /\ b \in Place /\ b[1] = 4 /\ b[2] = 39 /\ b[3] = 10 /\ b[4] = 5
      /\ c \in Place /\ c[1] = 14 /\ c[2] = 39 /\ c[3] = 5 /\ c[4] = 5
      /\ d \in Place /\ d[1] = 19 /\ d[2] = 39 /\ d[3] = 5 /\ d[4] = 5
    BY PlaceIs
<1>2. KafkaTopicPanels = s5 \o <<e, f, g, a, b, c, d>>
    BY DEF KafkaTopicPanels
<1>3. /\ \A t : Box(t, 0, 24, 39, 44) => Box(<<g>> \o t, 0, 24, 37, 44)
      /\ \A t : Box(t, 0, 24, 37, 44) => Box(<<f>> \o t, 0, 24, 36, 44)
      /\ \A t : Box(t, 0, 24, 36, 44) => Box(<<e>> \o t, 0, 24, 29, 44)
    BY FullAbove
<1>4. Box(s1, 0, 24, 0, 4)
    BY TilesBox
<1>5. Box(<<Full(4, 1), Full(5, 7)>>, 0, 24, 4, 12) /\ Box(<<Full(20, 1)>>, 0, 24, 20, 21)
    BY TwoFulls, FullBox
<1>6. Box(Tiles(2, 12, 8), 0, 24, 12, 20) /\ Box(Tiles(3, 21, 8), 0, 24, 21, 29)
    BY TilesBox
<1> HIDE DEF a, b, c, d, e, f, g, s1
<1>7. Box(s2, 0, 24, 0, 12)
    BY <1>4, <1>5, Below
<1> HIDE DEF s2
<1>8. Box(s3, 0, 24, 0, 20)
    BY <1>6, <1>7, Below
<1> HIDE DEF s3
<1>9. Box(s4, 0, 24, 0, 21)
    BY <1>5, <1>8, Below
<1> HIDE DEF s4
<1>10. Box(s5, 0, 24, 0, 29)
    BY <1>6, <1>9, Below
<1> HIDE DEF s5
<1>11. Box(<<a, b, c, d>>, 0, 24, 39, 44)
    BY <1>1, FourBeside
<1>12. Box(<<g, a, b, c, d>>, 0, 24, 37, 44)
    <2>1. <<g, a, b, c, d>> = <<g>> \o <<a, b, c, d>>
        OBVIOUS
    <2> QED
        BY <1>3, <1>11, <2>1
<1>13. Box(<<f, g, a, b, c, d>>, 0, 24, 36, 44)
    <2>1. <<f, g, a, b, c, d>> = <<f>> \o <<g, a, b, c, d>>
        OBVIOUS
    <2> QED
        BY <1>3, <1>12, <2>1
<1>14. Box(<<e, f, g, a, b, c, d>>, 0, 24, 29, 44)
    <2>1. <<e, f, g, a, b, c, d>> = <<e>> \o <<f, g, a, b, c, d>>
        OBVIOUS
    <2> QED
        BY <1>3, <1>13, <2>1
<1>15. \A t : Box(t, 0, 24, 29, 44) => Box(s5 \o t, 0, 24, 0, 44)
    BY <1>10, Below
<1> QED
    BY <1>2, <1>14, <1>15

LEMMA BrokerBox == Box(KafkaBrokerPanels, 0, 24, 0, 59)
<1> DEFINE a == <<0, 48, 12, 4>>
           b == <<12, 48, 4, 4>>
           c == <<16, 48, 4, 4>>
           d == <<20, 48, 4, 4>>
           e == Full(47, 1)
           s1 == Tiles(8, 0, 4)
           s2 == s1 \o <<Full(4, 1), Full(5, 8), Full(13, 1)>>
           s3 == s2 \o Tiles(2, 14, 8)
           s4 == s3 \o <<Full(22, 1)>>
           s5 == s4 \o Tiles(3, 23, 8)
           s6 == s5 \o <<Full(31, 1)>>
           s7 == s6 \o Tiles(2, 32, 7)
           s8 == s7 \o <<Full(39, 1)>>
           s9 == s8 \o Tiles(4, 40, 7)
           s10 == s9 \o <<e, a, b, c, d>>
<1>1. /\ a \in Place /\ a[1] = 0 /\ a[2] = 48 /\ a[3] = 12 /\ a[4] = 4
      /\ b \in Place /\ b[1] = 12 /\ b[2] = 48 /\ b[3] = 4 /\ b[4] = 4
      /\ c \in Place /\ c[1] = 16 /\ c[2] = 48 /\ c[3] = 4 /\ c[4] = 4
      /\ d \in Place /\ d[1] = 20 /\ d[2] = 48 /\ d[3] = 4 /\ d[4] = 4
    BY PlaceIs
<1>2. KafkaBrokerPanels = s10 \o Tiles(2, 52, 7)
    BY DEF KafkaBrokerPanels
<1>3. \A t : Box(t, 0, 24, 48, 52) => Box(<<e>> \o t, 0, 24, 47, 52)
    BY FullAbove
<1>4. Box(s1, 0, 24, 0, 4)
    BY TilesBox
<1>5. Box(<<Full(4, 1), Full(5, 8), Full(13, 1)>>, 0, 24, 4, 14)
    <2>1. Box(<<Full(5, 8), Full(13, 1)>>, 0, 24, 5, 14)
        BY TwoFulls
    <2>2. Box(<<Full(4, 1)>> \o <<Full(5, 8), Full(13, 1)>>, 0, 24, 4, 14)
        BY <2>1, FullAbove
    <2>3. <<Full(4, 1), Full(5, 8), Full(13, 1)>> = <<Full(4, 1)>> \o <<Full(5, 8), Full(13, 1)>>
        OBVIOUS
    <2> QED
        BY <2>2, <2>3
<1>6. /\ Box(<<Full(22, 1)>>, 0, 24, 22, 23) /\ Box(<<Full(31, 1)>>, 0, 24, 31, 32)
      /\ Box(<<Full(39, 1)>>, 0, 24, 39, 40)
    BY FullBox
<1> HIDE DEF a, b, c, d, e, s1
<1>8. Box(s2, 0, 24, 0, 14)
    BY <1>4, <1>5, Below
<1> HIDE DEF s2
<1>9. Box(s3, 0, 24, 0, 22)
    <2>1. Box(Tiles(2, 14, 8), 0, 24, 14, 22)
        BY TilesBox
    <2> QED
        BY <1>8, <2>1, Below
<1> HIDE DEF s3
<1>10. Box(s4, 0, 24, 0, 23)
    BY <1>6, <1>9, Below
<1> HIDE DEF s4
<1>11. Box(s5, 0, 24, 0, 31)
    <2>1. Box(Tiles(3, 23, 8), 0, 24, 23, 31)
        BY TilesBox
    <2> QED
        BY <1>10, <2>1, Below
<1> HIDE DEF s5
<1>12. Box(s6, 0, 24, 0, 32)
    BY <1>6, <1>11, Below
<1> HIDE DEF s6
<1>13. Box(s7, 0, 24, 0, 39)
    <2>1. Box(Tiles(2, 32, 7), 0, 24, 32, 39)
        BY TilesBox
    <2> QED
        BY <1>12, <2>1, Below
<1> HIDE DEF s7
<1>14. Box(s8, 0, 24, 0, 40)
    BY <1>6, <1>13, Below
<1> HIDE DEF s8
<1>15. Box(s9, 0, 24, 0, 47)
    <2>1. Box(Tiles(4, 40, 7), 0, 24, 40, 47)
        BY TilesBox
    <2> QED
        BY <1>14, <2>1, Below
<1> HIDE DEF s9
<1>16. Box(<<a, b, c, d>>, 0, 24, 48, 52)
    BY <1>1, FourBeside
<1>17. Box(<<e, a, b, c, d>>, 0, 24, 47, 52)
    <2>1. <<e, a, b, c, d>> = <<e>> \o <<a, b, c, d>>
        OBVIOUS
    <2> QED
        BY <1>3, <1>16, <2>1
<1>18. Box(s10, 0, 24, 0, 52)
    BY <1>15, <1>17, Below
<1> HIDE DEF s10
<1>19. Box(s10 \o Tiles(2, 52, 7), 0, 24, 0, 59)
    <2>1. Box(Tiles(2, 52, 7), 0, 24, 52, 59)
        BY TilesBox
    <2> QED
        BY <1>18, <2>1, Below
<1> QED
    BY <1>2, <1>19

LEMMA GroupBox == Box(NifiGroupPanels, 0, 24, 0, 41)
<1> DEFINE s1 == Tiles(8, 0, 4)
           a == Full(4, 1)
           b == Full(5, 7)
           c == Full(12, 1)
           d == Full(13, 6)
           e == Full(19, 5)
           f == Full(24, 1)
           s2 == s1 \o <<a, b, c, d, e, f>>
           s3 == s2 \o Tiles(2, 25, 8)
<1>1. NifiGroupPanels = s3 \o Tiles(2, 33, 8)
    BY DEF NifiGroupPanels
<1>2. Box(s1, 0, 24, 0, 4) /\ Box(Tiles(2, 25, 8), 0, 24, 25, 33) /\ Box(Tiles(2, 33, 8), 0, 24, 33, 41)
    BY TilesBox
<1>3. Box(<<a, b>>, 0, 24, 4, 12) /\ Box(<<c, d>>, 0, 24, 12, 19) /\ Box(<<e, f>>, 0, 24, 19, 25)
    BY TwoFulls
<1> HIDE DEF s1, a, b, c, d, e, f
<1>4. Box((<<a, b>> \o <<c, d>>) \o <<e, f>>, 0, 24, 4, 25)
    <2>1. Box(<<a, b>> \o <<c, d>>, 0, 24, 4, 19)
        BY <1>3, Below
    <2> QED
        BY <1>3, <2>1, Below
<1>5. (<<a, b>> \o <<c, d>>) \o <<e, f>> = <<a, b, c, d, e, f>>
    <2>1. <<a, b, c, d>> = <<a, b>> \o <<c, d>>
        OBVIOUS
    <2>2. <<a, b, c, d, e, f>> = <<a, b, c, d>> \o <<e, f>>
        OBVIOUS
    <2> QED
        BY <2>1, <2>2
<1>6. Box(s2, 0, 24, 0, 25)
    <2>1. Box(<<a, b, c, d, e, f>>, 0, 24, 4, 25)
        BY <1>4, <1>5
    <2>2. \A t : Box(t, 0, 24, 4, 25) => Box(s1 \o t, 0, 24, 0, 25)
        BY <1>2, Below
    <2> QED
        BY <2>1, <2>2
<1> HIDE DEF s2
<1>7. Box(s3, 0, 24, 0, 33)
    BY <1>2, <1>6, Below
<1> HIDE DEF s3
<1> QED
    BY <1>1, <1>2, <1>7, Below

LEMMA ProcessorBox == Box(NifiProcessorPanels, 0, 24, 0, 27)
<1> DEFINE p == <<0, 0, 4, 4>>
           u == [i \in 1..6 |-> <<3 * i + 1, 0, 3, 4>>]
           q == <<22, 0, 2, 4>>
           f == Full(4, 1)
           s1 == <<p>> \o u
           s2 == s1 \o <<q, f>>
           s3 == s2 \o Tiles(2, 5, 8)
           s4 == s3 \o Tiles(2, 13, 8)
           s5 == s4 \o <<Full(21, 1)>>
<1>1. NifiProcessorPanels = s5 \o Tiles(2, 22, 5)
    BY DEF NifiProcessorPanels
<1>2. /\ Box(Tiles(2, 5, 8), 0, 24, 5, 13) /\ Box(Tiles(2, 13, 8), 0, 24, 13, 21)
      /\ Box(Tiles(2, 22, 5), 0, 24, 22, 27) /\ Box(<<Full(21, 1)>>, 0, 24, 21, 22)
    BY TilesBox, FullBox
<1>3. Box(<<p>>, 0, 4, 0, 4)
    BY OnePanel
<1>4. Box(u, 4, 22, 0, 4)
    <2>1. \A i \in 1..6 : 3 * i + 1 \in Nat /\ 3 * i + 1 = 4 + (i - 1) * 3
        OBVIOUS
    <2>2. \A i \in 1..6 : <<3 * i + 1, 0, 3, 4>> \in Place
        BY <2>1, Rectangles DEF Place
    <2>3. u \in [1..6 -> Place]
        BY <2>2
    <2>4. \A i \in 1..6 : u[i] = <<4 + (i - 1) * 3, 0, 3, 4>>
        BY <2>1
    <2> HIDE DEF u
    <2>5. u \in Layout /\ Len(u) = 6
        BY <2>3, LayoutIs
    <2>6. \A i \in 1..Len(u) : u[i] = <<4 + (i - 1) * 3, 0, 3, 4>>
        BY <2>4, <2>5
    <2>7. 4 + Len(u) * 3 <= 22
        BY <2>5
    <2>8. Box(u, 4, 22, 0, 0 + 4)
        BY <2>5, <2>6, <2>7, Row
    <2> QED
        BY <2>8
<1>5. /\ q \in Place /\ q[1] = 22 /\ q[2] = 0 /\ q[3] = 2 /\ q[4] = 4
      /\ f \in Place /\ f[1] = 0 /\ f[2] = 4 /\ f[3] = 24 /\ f[4] = 1
    BY PlaceIs DEF Full, Columns
<1> HIDE DEF p, u, q, f
<1>6. Box(s1, 0, 22, 0, 4)
    BY <1>3, <1>4, Beside
<1> HIDE DEF s1
<1>7. Box(s2, 0, 24, 0, 5)
    <2> DEFINE t == <<q, f>>
    <2>1. Inside(q, 0, 24, 0, 5) /\ Inside(f, 0, 24, 0, 5) /\ Apart(q, f)
        BY <1>5 DEF Inside, Apart
    <2>2. Box(t, 0, 24, 0, 5)
        BY <1>5, <2>1, TwoPanels
    <2>3. t[1] = q /\ t[2] = f /\ Len(t) = 2
        OBVIOUS
    <2> HIDE DEF t
    <2>4. Box(s1, 0, 24, 0, 5)
        BY <1>6, Wider
    <2>5. \A i \in 1..Len(s1) : s1[i] \in Place /\ Inside(s1[i], 0, 22, 0, 4)
        BY <1>6, ElementOfSeq DEF Box, Layout, Place
    <2>6. ASSUME NEW i \in 1..Len(s1), NEW j \in 1..2
          PROVE  Apart(s1[i], t[j]) /\ Apart(t[j], s1[i])
        <3>1. /\ s1[i] \in Place /\ s1[i][1] + s1[i][3] <= 22 /\ s1[i][2] + s1[i][4] <= 4
            BY <2>5 DEF Inside
        <3>2. \A r \in Place : r[1] + r[3] <= 22 => Apart(r, q) /\ Apart(q, r)
            BY <1>5 DEF Apart, Place
        <3>3. \A r \in Place : r[2] + r[4] <= 4 => Apart(r, f) /\ Apart(f, r)
            BY <1>5 DEF Apart, Place
        <3>4. j = 1 \/ j = 2
            OBVIOUS
        <3> QED
            BY <2>3, <3>1, <3>2, <3>3, <3>4
    <2>7. /\ s1 \in Layout /\ t \in Layout
          /\ \A i \in 1..Len(s1) : Inside(s1[i], 0, 24, 0, 5)
          /\ \A i \in 1..Len(t) : Inside(t[i], 0, 24, 0, 5)
          /\ \A i, j \in 1..Len(s1) : i # j => Apart(s1[i], s1[j])
          /\ \A i, j \in 1..Len(t) : i # j => Apart(t[i], t[j])
        BY <2>2, <2>4 DEF Box
    <2>8. \A i \in 1..Len(s1), j \in 1..Len(t) : Apart(s1[i], t[j]) /\ Apart(t[j], s1[i])
        BY <2>3, <2>6
    <2>9. Box(s1 \o t, 0, 24, 0, 5)
        BY <2>7, <2>8, JoinBox
    <2>10. s2 = s1 \o t
        BY DEF t
    <2> QED
        BY <2>9, <2>10
<1> HIDE DEF s2
<1>8. Box(s3, 0, 24, 0, 13)
    BY <1>2, <1>7, Below
<1> HIDE DEF s3
<1>9. Box(s4, 0, 24, 0, 21)
    BY <1>2, <1>8, Below
<1> HIDE DEF s4
<1>10. Box(s5, 0, 24, 0, 22)
    BY <1>2, <1>9, Below
<1> HIDE DEF s5
<1>11. Box(s5 \o Tiles(2, 22, 5), 0, 24, 0, 27)
    BY <1>2, <1>10, Below
<1> QED
    BY <1>1, <1>11

\* The panels of a dashboard do not overlap, nor leave the grid.
Clear(dash) ==
    \A i \in DOMAIN dash :
        /\ dash[i].at[1] + dash[i].at[3] <= Columns
        /\ \A j \in DOMAIN dash \ {i} : Disjoint(dash[i], dash[j])

LEMMA PlacedClear ==
    ASSUME NEW first \in Nat, NEW places, NEW shapes, NEW y0 \in Nat, NEW y1 \in Nat, Box(places, 0, 24, y0, y1)
    PROVE  /\ Clear(Placed(first, places, shapes))
           /\ DOMAIN Placed(first, places, shapes) = first..(first + Len(places) - 1)
           /\ \A i \in DOMAIN Placed(first, places, shapes) :
                Placed(first, places, shapes)[i].at[2] + Placed(first, places, shapes)[i].at[4] <= y1
<1> DEFINE dash == Placed(first, places, shapes)
<1>1. Len(places) \in Nat
    BY LenProperties DEF Box, Layout
<1>2. DOMAIN dash = first..(first + Len(places) - 1)
    BY DEF Placed
<1>3. ASSUME NEW i \in DOMAIN dash
      PROVE  i - first + 1 \in 1..Len(places) /\ dash[i].at = places[i - first + 1] /\ i \in Nat
    BY <1>1 DEF Placed
<1> HIDE DEF dash
<1>4. \A i \in DOMAIN dash : Inside(dash[i].at, 0, 24, y0, y1)
    BY <1>3 DEF Box
<1>5. ASSUME NEW i \in DOMAIN dash, NEW j \in DOMAIN dash, i # j
      PROVE  Disjoint(dash[i], dash[j])
    <2>1. i - first + 1 # j - first + 1
        BY <1>3, <1>5
    <2>2. Apart(dash[i].at, dash[j].at)
        BY <1>3, <2>1 DEF Box
    <2> QED
        BY <2>2 DEF Apart, Disjoint
<1>6. Clear(dash)
    BY <1>4, <1>5 DEF Clear, Inside, Columns
<1>7. \A i \in DOMAIN dash : dash[i].at[2] + dash[i].at[4] <= y1
    BY <1>4 DEF Inside
<1> QED
    BY <1>2, <1>6, <1>7 DEF dash

LEMMA ExtendClear ==
    ASSUME NEW dash, NEW reserved, NEW added, NEW offset \in Nat, Typed(dash), Typed(added), Clear(dash), Clear(added),
           DOMAIN dash \intersect reserved = {}, DOMAIN added \subseteq reserved,
           \A i \in DOMAIN added : added[i].at[2] + added[i].at[4] <= offset
    PROVE  Clear(Extend(dash, reserved, added, offset))
<1> DEFINE e == Extend(dash, reserved, added, offset)
           moved == [i \in DOMAIN dash |-> Down(dash[i], offset)]
<1>1. Foreign(dash, reserved) = DOMAIN dash
    BY DEF Foreign
<1>2. e = Merge(moved, added)
    BY <1>1 DEF Extend
<1>3. DOMAIN e = DOMAIN dash \union DOMAIN added
    BY <1>2 DEF Merge
<1>4. ASSUME NEW i \in DOMAIN added
      PROVE  e[i] = added[i] /\ added[i].at \in Place
    BY <1>2, <1>3 DEF Merge, Typed, Panel, Place
<1>5. ASSUME NEW i \in DOMAIN dash
      PROVE  /\ e[i].at[1] = dash[i].at[1] /\ e[i].at[2] = dash[i].at[2] + offset
             /\ e[i].at[3] = dash[i].at[3] /\ e[i].at[4] = dash[i].at[4] /\ dash[i].at \in Place
    <2>1. e[i] = Down(dash[i], offset)
        BY <1>2, <1>3 DEF Merge
    <2>2. dash[i] \in Panel
        BY DEF Typed
    <2>3. Down(dash[i], offset).at = [dash[i].at EXCEPT ![2] = @ + offset]
        BY <2>2 DEF Down, Panel
    <2> QED
        BY <2>1, <2>2, <2>3 DEF Panel, Place
<1> HIDE DEF e, moved
<1>6. ASSUME NEW i \in DOMAIN dash, NEW j \in DOMAIN dash, i # j
      PROVE  Disjoint(e[i], e[j])
    <2>1. Disjoint(dash[i], dash[j])
        BY <1>6 DEF Clear
    <2> QED
        BY <1>5, <2>1 DEF Disjoint, Place
<1>7. ASSUME NEW i \in DOMAIN added, NEW j \in DOMAIN added, i # j
      PROVE  Disjoint(e[i], e[j])
    BY <1>4, <1>7 DEF Clear
<1>8. ASSUME NEW i \in DOMAIN added, NEW j \in DOMAIN dash
      PROVE  Disjoint(e[i], e[j]) /\ Disjoint(e[j], e[i])
    <2>1. e[i].at[2] + e[i].at[4] <= e[j].at[2]
        BY <1>4, <1>5 DEF Place
    <2> QED
        BY <2>1 DEF Disjoint
<1>9. \A i \in DOMAIN e : e[i].at[1] + e[i].at[3] <= Columns
    BY <1>3, <1>4, <1>5 DEF Clear
<1>10. Clear(e)
    BY <1>3, <1>6, <1>7, <1>8, <1>9 DEF Clear
<1> QED
    BY <1>10 DEF e

LEMMA OwnClear ==
    ASSUME NEW first \in Nat, NEW places, NEW y1 \in Nat, Box(places, 0, 24, 0, y1)
    PROVE  /\ Clear(Own(first, places))
           /\ \A i \in DOMAIN Own(first, places) : Own(first, places)[i].at[2] + Own(first, places)[i].at[4] <= y1
    BY PlacedClear DEF Own

LEMMA AddedClear ==
    /\ Clear(Header)
    /\ \A i \in DOMAIN Header : Header[i].at[2] + Header[i].at[4] <= HeaderOffset
    /\ \A d \in Extended :
        /\ Clear(Added(d))
        /\ \A i \in DOMAIN Added(d) : Added(d)[i].at[2] + Added(d)[i].at[4] <= Offset(d)
<1>1. /\ Clear(Header)
      /\ \A i \in DOMAIN Header : Header[i].at[2] + Header[i].at[4] <= HeaderOffset
    BY ListBoxes, OwnClear DEF Header, HeaderOffset
<1>2. /\ Clear(Own(100, KafkaLists))
      /\ \A i \in DOMAIN Own(100, KafkaLists) :
            Own(100, KafkaLists)[i].at[2] + Own(100, KafkaLists)[i].at[4] <= KafkaOffset
    BY ListBoxes, OwnClear DEF KafkaOffset
<1>3. /\ Clear(Own(100, NifiLists))
      /\ \A i \in DOMAIN Own(100, NifiLists) :
            Own(100, NifiLists)[i].at[2] + Own(100, NifiLists)[i].at[4] <= NifiOffset
    BY ListBoxes, OwnClear DEF NifiOffset
<1>4. ASSUME NEW d \in Extended
      PROVE  /\ Clear(Added(d))
             /\ \A i \in DOMAIN Added(d) : Added(d)[i].at[2] + Added(d)[i].at[4] <= Offset(d)
    <2>1. CASE d = "kafka"
        <3>1. Added(d) = Own(100, KafkaLists) /\ Offset(d) = KafkaOffset
            BY <2>1 DEF Added, Offset
        <3> QED
            BY <1>2, <3>1
    <2>2. CASE d = "nifi"
        <3>1. Added(d) = Own(100, NifiLists) /\ Offset(d) = NifiOffset
            BY <2>2 DEF Added, Offset
        <3> QED
            BY <1>3, <3>1
    <2>3. CASE d \notin {"kafka", "nifi"}
        <3>1. Added(d) = Header /\ Offset(d) = HeaderOffset
            BY <2>3 DEF Added, Offset
        <3> QED
            BY <1>1, <3>1
    <2> QED
        BY <2>1, <2>2, <2>3
<1> QED
    BY <1>1, <1>4

\* People made dashboards on which no panels overlap.
DesignsFit == \A d \in Extended : \A dash \in Designs[d] : Clear(dash)

LEMMA WithListsClear ==
    ASSUME DesignsFit, NEW d \in Extended, NEW dash \in Designs[d]
    PROVE  Clear(WithLists(d, dash))
<1>1. Typed(dash) /\ Clear(dash) /\ DOMAIN dash \intersect Reserved(d) = {}
    BY DesignsTyped, DesignsAssumption DEF DesignsFit
<1>2. Typed(Added(d)) /\ Offset(d) \in Nat /\ DOMAIN Added(d) \subseteq Reserved(d)
    BY AddedTyped, AddedIsReserved
<1>3. /\ Clear(Added(d))
      /\ \A i \in DOMAIN Added(d) : Added(d)[i].at[2] + Added(d)[i].at[4] <= Offset(d)
    BY AddedClear
<1> QED
    BY <1>1, <1>2, <1>3, ExtendClear DEF WithLists

ClearFile(file) == \A d \in DOMAIN file : Clear(file[d])

\* A dashboard that the script numbers from 1 on does not have the header's id.
LEMMA FreshClear ==
    ASSUME NEW places, NEW shapes, NEW y1 \in Nat, Box(places, 0, 24, 0, y1), Len(places) <= 100,
           Typed(Placed(1, places, shapes))
    PROVE  Clear(WithHeader(Placed(1, places, shapes)))
<1> DEFINE dash == Placed(1, places, shapes)
<1>1. Clear(dash) /\ DOMAIN dash = 1..(1 + Len(places) - 1)
    BY PlacedClear
<1>2. Len(places) \in Nat
    BY LenProperties DEF Box, Layout
<1>3. DOMAIN dash \intersect {900} = {}
    BY <1>1, <1>2
<1>4. Typed(Header) /\ DOMAIN Header \subseteq {900} /\ HeaderOffset \in Nat
    BY AddedTyped, HeaderIsReserved DEF HeaderOffset
<1>5. Typed(dash)
    OBVIOUS
<1> HIDE DEF dash
<1>6. Clear(WithHeader(dash))
    BY <1>1, <1>3, <1>4, <1>5, AddedClear, ExtendClear DEF WithHeader
<1> QED
    BY <1>6 DEF dash

LEMMA BrandedClear ==
    ASSUME NEW m, TemplateTypes(m), m.airflow \in Designs["airflow"]
    PROVE  ClearFile(Branded(FreshTrino(m))) /\ ClearFile(Branded(FreshAuthorization(m)))
<1>1. /\ DOMAIN FreshTrino(m) = {"queries", "detail"} /\ DOMAIN FreshAuthorization(m) = {"nifi"}
      /\ Typed(FreshTrino(m)["queries"]) /\ Typed(FreshTrino(m)["detail"])
      /\ Typed(FreshAuthorization(m)["nifi"])
    BY FreshTyped DEF FreshTrino, FreshAuthorization
<1>2. /\ Len(TrinoQueriesPanels) <= 100 /\ Len(TrinoDetailPanels) <= 100
      /\ Len(NifiAuthorizationPanels) <= 100
    BY QueriesLayout, DetailLayout DEF NifiAuthorizationPanels
<1>3. Clear(WithHeader(FreshTrino(m)["queries"]))
    <2>1. FreshTrino(m)["queries"] = Placed(1, TrinoQueriesPanels, m.queries)
        BY DEF FreshTrino
    <2> QED
        BY <1>1, <1>2, <2>1, TrinoBoxes, FreshClear
<1>4. Clear(WithHeader(FreshTrino(m)["detail"]))
    <2>1. PICK shapes : FreshTrino(m)["detail"] = Placed(1, TrinoDetailPanels, shapes)
        BY DEF FreshTrino
    <2> QED
        BY <1>1, <1>2, <2>1, TrinoBoxes, FreshClear
<1>5. Clear(WithHeader(FreshAuthorization(m)["nifi"]))
    <2>1. PICK shapes : FreshAuthorization(m)["nifi"] = Placed(1, NifiAuthorizationPanels, shapes)
        BY DEF FreshAuthorization, NifiAuthorization
    <2> QED
        BY <1>1, <1>2, <2>1, AuthorizationBox, FreshClear
<1> QED
    BY <1>1, <1>3, <1>4, <1>5 DEF Branded, ClearFile

LEMMA OwnFilesClear == ClearFile([overview |-> Overview]) /\ ClearFile(KafkaFile) /\ ClearFile(NifiFlow)
<1>1. Clear(Overview)
    BY OverviewBox, OwnClear DEF Overview
<1>2. Clear(Own(1, KafkaTopicPanels)) /\ Clear(Own(1, KafkaBrokerPanels))
    BY TopicBox, BrokerBox, OwnClear
<1>3. Clear(Own(1, NifiGroupPanels)) /\ Clear(Own(1, NifiProcessorPanels))
    BY GroupBox, ProcessorBox, OwnClear
<1>4. \A d \in DOMAIN [overview |-> Overview] : [overview |-> Overview][d] = Overview
    OBVIOUS
<1>5. \A d \in DOMAIN KafkaFile : KafkaFile[d] \in {Own(1, KafkaTopicPanels), Own(1, KafkaBrokerPanels)}
    BY DEF KafkaFile
<1>6. \A d \in DOMAIN NifiFlow : NifiFlow[d] \in {Own(1, NifiGroupPanels), Own(1, NifiProcessorPanels)}
    BY DEF NifiFlow
<1> QED
    BY <1>1, <1>2, <1>3, <1>4, <1>5, <1>6 DEF ClearFile

LEMMA ResultClear ==
    ASSUME DesignsFit, NEW m, TemplateTypes(m), \A d \in Extended : m[d] \in Designs[d]
    PROVE  \A f \in Files : ClearFile(Result(m)[f])
<1>1. Extended = {"airflow", "opa", "logs", "kafka", "nifi"}
    BY DEF Extended
<1>2. m.airflow \in Designs["airflow"]
    BY <1>1
<1>3. ClearFile(Branded(FreshTrino(m))) /\ ClearFile(Branded(FreshAuthorization(m)))
    BY <1>2, BrandedClear
<1>4. \A d \in Extended : Clear(WithLists(d, m[d]))
    BY WithListsClear
<1>5. Result(m)["trino"] = Branded(FreshTrino(m)) /\ Result(m)["authorization"] = Branded(FreshAuthorization(m))
    BY DEF Result, FreshTrino, FreshAuthorization
<1>6. \A f \in {"airflow", "opa", "logs"} :
        /\ DOMAIN Result(m)[f] = {f}
        /\ Result(m)[f][f] = WithLists(f, m[f])
    BY HeaderIsList DEF Result
<1>7. /\ DOMAIN Result(m)["stackable"] = {"kafka", "nifi"}
      /\ \A d \in {"kafka", "nifi"} : Result(m)["stackable"][d] = WithLists(d, m[d])
    BY DEF Result
<1>8. /\ Result(m)["overview"] = [overview |-> Overview]
      /\ Result(m)["kafka"] = KafkaFile /\ Result(m)["flow"] = NifiFlow
    BY DEF Result
<1>9. \A f \in {"airflow", "opa", "logs", "stackable"} : ClearFile(Result(m)[f])
    BY <1>1, <1>4, <1>6, <1>7 DEF ClearFile
<1> QED
    BY <1>3, <1>5, <1>8, <1>9, OwnFilesClear, FilesAre

\* The header and the lists of grafana-dashboards.py fit into the space that is
\* made for them, and its own layouts fit together: if people's panels do not
\* overlap, then none do on the dashboards that a complete run leaves.
THEOREM PanelsDoNotOverlap ==
    ASSUME DesignsFit
    PROVE  Spec => []NoOverlap
<1>1. TypeInv => NoOverlap
    <2> SUFFICES ASSUME TypeInv, step = Done
                 PROVE  \A f \in Files : \A dash \in Dashboards(tree[f]) : Clear(dash)
        BY DEF NoOverlap, Clear
    <2>1. TemplateTypes(made) /\ \A d \in Extended : made[d] \in Designs[d]
        BY DEF TypeInv, ResultInv, GoodOrigin, GoodInv, GoodTree
    <2>2. \A f \in Files : tree[f] = Result(made)[f]
        BY FilesAre, LastWrites DEF TypeInv, ResultInv, AllDone
    <2>3. \A f \in Files : ClearFile(tree[f])
        BY <2>1, <2>2, ResultClear
    <2> QED
        BY <2>3 DEF ClearFile, Dashboards
<1> QED
    BY <1>1, TypeInit, TypeStep, PTL DEF Spec
=============================================================================
