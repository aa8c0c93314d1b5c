---------------------------- MODULE SupersetJob ----------------------------
(***************************************************************************)
(* configure_superset.py: the database connection, the role of the viewers,*)
(* datasets, charts and dashboards in Superset, found by their names and   *)
(* made or updated in place.                                               *)
(*                                                                         *)
(* Looking for an object and writing it are two calls, and people use      *)
(* Superset meanwhile.  A call that is not answered within 120 s, or whose *)
(* pod dies, ends the attempt, but may take effect later.  The ids that an *)
(* attempt has seen do not outlive it.                                     *)
(***************************************************************************)
EXTENDS SetUpJobs

CONSTANTS
    Datasets,   \* the names of the datasets, charts and dashboards, in their order
    Charts,
    Boards,
    Virtual,    \* the datasets that are defined by a query
    DatasetOf,  \* chart -> its dataset
    Layers,     \* the charts that the last chart shows on one map
    ShownOn     \* chart -> the dashboards it is on

VARIABLES
    objects,    \* what there is in Superset
    newest,     \* the last id given
    got,        \* name -> the id this attempt goes by; 0 if it has none yet
    found,      \* what it has found of the name it is at: an id, 0, or NotYet
    pending,    \* requests nobody waits for any more
    tables,     \* the datasets whose tables exist in Trino
    edits,      \* bound: edits there may still be
    delays      \* bound: requests that may still be delayed

\* History, for the properties.
VARIABLE
    alone       \* nobody has edited anything since this attempt began, and no
                \* update of an earlier one has come in

supersetVars == <<objects, newest, got, found, pending, tables, edits, delays, alone>>

Database == "database"
Role == "role"
Sought == {Database, Role} \union Range(Datasets) \union Range(Charts) \union Range(Boards)
LayeredMap == Charts[Len(Charts)]
NotYet == -1

\* Names are keys of dictionaries; objects of two kinds have two names here.
ASSUME NamesAssumption ==
    /\ Datasets \in Seq(Range(Datasets)) /\ IsInjective(Datasets)
    /\ Charts \in Seq(Range(Charts)) /\ IsInjective(Charts)
    /\ Boards \in Seq(Range(Boards)) /\ IsInjective(Boards)
    /\ Range(Datasets) \intersect Range(Charts) = {}
    /\ Range(Datasets) \intersect Range(Boards) = {}
    /\ Range(Charts) \intersect Range(Boards) = {}
    /\ {Database, Role, "renamed"} \intersect (Range(Datasets) \union Range(Charts) \union Range(Boards)) = {}

ASSUME ChartsAssumption ==
    /\ Virtual \subseteq Range(Datasets)
    /\ DatasetOf \in [Range(Charts) -> Range(Datasets)]
    /\ ShownOn \in [Range(Charts) -> SUBSET Range(Boards)]
    /\ Layers \subseteq Range(Charts) \ {LayeredMap}

Do(op, name) == [op |-> op, name |-> name]
All(op, seq) == Each(seq, LAMBDA name : Do(op, name))
EachDataset ==
    [i \in 1..2 * Len(Datasets) |->
        Do(IF i % 2 = 1 THEN "dataset" ELSE "refresh", Datasets[(i + 1) \div 2])]

LayoutFirst ==
    <<Do("login", Database), Do("database", Database), Do("role", Role), Do("grant", Role)>> \o
    EachDataset \o All("board", Boards) \o All("layout", Boards) \o All("chart", Charts)

\* main; dashboards first, as charts refer to them, and their layouts last.
Main ==
    <<Do("login", Database), Do("database", Database), Do("role", Role), Do("grant", Role)>> \o
    EachDataset \o All("board", Boards) \o All("chart", Charts) \o All("uuid", Charts) \o
    All("layout", Boards)

SupersetDone == at["superset"] = Len(Main) + 1

\* What is looked for first, and what changes nothing.
Ensures == {"database", "role", "dataset", "board", "chart"}
Reads == {"login", "refresh", "uuid"}

----------------------------------------------------------------------------
(***************************************************************************)
(* What Superset does with a request                                       *)
(***************************************************************************)

\* The ids a written object refers to.
Refers(do, ids) ==
    CASE do.op \in {"dataset", "grant"} -> {ids[Database]}
      [] do.op = "chart" -> {ids[DatasetOf[do.name]]} \union {ids[b] : b \in ShownOn[do.name]}
                            \union (IF do.name = LayeredMap THEN {ids[c] : c \in Layers} ELSE {})
      [] do.op = "layout" -> {ids[c] : c \in {c \in Range(Charts) : do.name \in ShownOn[c]}}
      [] OTHER -> {}

\* find: the objects of that name, of which it takes one.
Find(name) == {o \in objects : o.name = name}
Ids == {o.id : o \in objects}

\* A request that writes, to an object or, with id 0, to make one.  Superset
\* does not look for the charts that a layout or a map of layers names.
Request(do) ==
    [do |-> do, id |-> IF do.op \in Ensures THEN found ELSE got[do.name],
     refers |-> Refers(do, got), needs |-> Refers(do, got) \ {got[c] : c \in Range(Charts)},
     attempt |-> retries["superset"]]

\* Databases, roles and dashboards have names of their own, a dataset in its
\* database; the others can have any.
Taken(w) ==
    \E o \in Find(w.do.name) \ {o \in objects : o.id = w.id} :
        \/ w.do.op \in {"database", "role", "board", "layout"}
        \/ w.do.op = "dataset" /\ w.id = 0 /\ o.refers = w.refers

Accepted(w) ==
    /\ w.needs \subseteq Ids
    /\ w.id # 0 => w.id \in Ids
    /\ w.do.op \in {"dataset", "refresh"} => w.do.name \in tables
    /\ ~Taken(w)

\* late: the caller of the request that gave it its name was gone; kept: people
\* have changed of it what the script never puts back.
Made(w, late) ==
    [id |-> newest + 1, name |-> w.do.name, refers |-> w.refers, ours |-> TRUE, kept |-> FALSE, late |-> late]

\* Of a dataset only the query is sent, of a role the permissions.
Put(w, o, late) ==
    [o EXCEPT !.name = IF w.do.op \in {"dataset", "grant"} THEN @ ELSE w.do.name,
              !.refers = IF w.do.op = "dataset" THEN @ ELSE w.refers,
              !.ours = TRUE,
              !.late = @ \/ (late /\ w.do.op \notin {"dataset", "grant"} /\ o.name # w.do.name)]

Performs(w, late) ==
    /\ Accepted(w)
    /\ \/ /\ w.do.op \in Reads
          /\ UNCHANGED <<objects, newest>>
       \/ /\ w.do.op \notin Reads /\ w.id = 0
          /\ objects' = objects \union {Made(w, late)}
          /\ newest' = newest + 1
       \/ /\ w.do.op \notin Reads /\ w.id # 0
          /\ objects' = {IF o.id = w.id THEN Put(w, o, late) ELSE o : o \in objects}
          /\ UNCHANGED newest

----------------------------------------------------------------------------
(***************************************************************************)
(* An attempt                                                              *)
(***************************************************************************)

LooksPast(do) ==
    /\ do.op \in Ensures /\ found = NotYet
    /\ found' = 0
    /\ UNCHANGED <<at, retries, objects, newest, got, pending, delays, alone>>

\* The GET of find, or of ensure_viewer_role.
Looks(do) ==
    /\ do.op \in Ensures /\ found = NotYet
    /\ found' \in IF Find(do.name) = {} THEN {0} ELSE {o.id : o \in Find(do.name)}
    /\ UNCHANGED <<at, retries, objects, newest, got, pending, delays, alone>>

Looked(do) == do.op \in Ensures => found # NotYet

CallsIfNew(do) == do.op \in Ensures => found = 0

\* A role, a dashboard or a physical dataset that is there is left alone: the
\* permissions and the layout are written later.
Calls(do) ==
    \/ do.op \notin {"role", "board", "dataset"}
    \/ do.op = "dataset" /\ do.name \in Virtual
    \/ found = 0

Proceeds(do) ==
    /\ Looked(do)
    /\ IF Calls(do) THEN Performs(Request(do), FALSE) ELSE UNCHANGED <<objects, newest>>
    /\ got' = [got EXCEPT ![do.name] =
                  IF do.op \in Ensures /\ found = 0 THEN newest' ELSE Request(do).id]
    /\ found' = NotYet
    /\ Passes("superset")
    /\ UNCHANGED <<pending, delays, alone>>

\* No answer: it was done, or not, or is still going to be done.
Fails(do) ==
    /\ \/ UNCHANGED <<objects, newest, pending, delays>>
       \/ /\ Looked(do) /\ Calls(do)
          /\ Performs(Request(do), FALSE)
          /\ UNCHANGED <<pending, delays>>
       \/ /\ Looked(do) /\ Calls(do) /\ do.op \notin Reads
          /\ delays > 0 /\ delays' = delays - 1
          /\ pending' = pending \union {Request(do)}
          /\ UNCHANGED <<objects, newest>>
    /\ got' = [n \in Sought |-> 0]
    /\ found' = NotYet
    /\ alone' = TRUE
    /\ Aborts("superset")

RunsSuperset ==
    /\ at["superset"] \in 1..Len(Main)
    /\ LET do == Main[at["superset"]] IN Looks(do) \/ Proceeds(do) \/ Fails(do)
    /\ UNCHANGED <<there, tables, edits>>

\* A request nobody waits for any more.
Arrives ==
    /\ \E w \in pending :
        /\ pending' = pending \ {w}
        /\ Performs(w, TRUE) \/ (~Accepted(w) /\ UNCHANGED <<objects, newest>>)
        /\ alone' = (alone /\ w.id = 0)
    /\ UNCHANGED <<jobVars, got, found, tables, edits, delays>>

----------------------------------------------------------------------------
(***************************************************************************)
(* In the user interface                                                   *)
(***************************************************************************)

\* Superset does not delete a database that has datasets.
Deletes(o) ==
    /\ \A d \in objects : d.name \in Range(Datasets) => o.id \notin d.refers
    /\ objects' = objects \ {o}
    /\ UNCHANGED newest

Becomes(o, p) == objects' = (objects \ {o}) \union {p} /\ UNCHANGED newest

\* What it is, shows or permits; a physical dataset gets a query, which the
\* script does not take away.
Changes(o) ==
    /\ o.name \in Sought
    /\ IF o.name \in Range(Datasets)
       THEN Becomes(o, [o EXCEPT !.ours = FALSE, !.kept = @ \/ o.name \notin Virtual])
       ELSE Becomes(o, [o EXCEPT !.ours = FALSE, !.refers = {}])

\* A dataset is put on another database, where the script leaves it.
Moves(o) ==
    /\ o.name \in Range(Datasets)
    /\ Becomes(o, [o EXCEPT !.refers = {}, !.kept = TRUE])

\* The script makes what it does not find anew, but does not put the datasets
\* of a renamed database on the new one.
Renames(o) ==
    /\ o.name \in Sought
    /\ Becomes(o, [o EXCEPT !.name = "renamed", !.kept = TRUE])

\* A chart is saved as another one of the same name.
Copies(o) ==
    /\ o.name \in Range(Charts)
    /\ objects' = objects \union {[o EXCEPT !.id = newest + 1, !.ours = FALSE, !.late = TRUE]}
    /\ newest' = newest + 1

UserInterface ==
    /\ edits > 0 /\ edits' = edits - 1
    /\ \E o \in objects : Deletes(o) \/ Changes(o) \/ Moves(o) \/ Renames(o) \/ Copies(o)
    /\ alone' = FALSE
    /\ UNCHANGED <<jobVars, got, found, pending, tables, delays>>
=============================================================================
