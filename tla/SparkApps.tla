----------------------------- MODULE SparkApps -----------------------------
(***************************************************************************)
(* The SparkApplications of the solar jobs as dags/solar_pipeline.py finds *)
(* and leaves them in the Kubernetes API, and what the Stackable operator  *)
(* does with them.                                                         *)
(***************************************************************************)
EXTENDS Integers, FiniteSets, Sequences, SequencesExt

CONSTANTS
    Scripts,   \* the jobs
    Ids,       \* names of applications; a deleted one stands for a new one
    Names,     \* bound: job -> the names its applications may have
    Nobody,    \* no application
    MaxErrors  \* bound: job -> API calls that fail and tasks that are killed

ASSUME AppsAssumption ==
    /\ Nobody \notin Ids
    /\ Names \in [Scripts -> SUBSET Ids]
    /\ MaxErrors \in [Scripts -> Nat]

VARIABLES
    apps,      \* job -> its SparkApplications in the order of their creation
    errors     \* job -> failed calls so far

\* The phase is that of the driver as the operator saw it last, "none" at first.
Finished == {"Succeeded", "Failed"}
Fates == Finished \union {"none", "live"}
App == [id: Ids, driver: Fates, phase: Fates]

Index(s) == 1..Len(apps[s])
Named(s) == {apps[s][i].id : i \in Index(s)}
At(s, id) == CHOOSE i \in Index(s) : apps[s][i].id = id
Phase(s, id) == apps[s][At(s, id)].phase

\* A name of its own for every start.
NewName(s) == CHOOSE id \in Names[s] : id \notin Named(s)
HasName(s) == ~(Names[s] \subseteq Named(s))
Created(s) == [apps EXCEPT ![s] = Append(@, [id |-> NewName(s), driver |-> "none", phase |-> "none"])]
Deleted(s, id) == IF id \in Named(s) THEN [apps EXCEPT ![s] = RemoveAt(@, At(s, id))] ELSE apps

NoApps ==
    /\ apps = [s \in Scripts |-> <<>>]
    /\ errors = [s \in Scripts |-> 0]

\* The operator starts the driver of a new application.
Submits(s, i) ==
    /\ apps[s][i].driver = "none"
    /\ apps' = [apps EXCEPT ![s][i].driver = "live"]
    /\ UNCHANGED errors

\* A driver may also hang for ever.
DriverEnds(s, i) ==
    /\ apps[s][i].driver = "live"
    /\ \E fate \in Finished : apps' = [apps EXCEPT ![s][i].driver = fate]
    /\ UNCHANGED errors

Reports(s, i) ==
    /\ apps[s][i].phase # apps[s][i].driver
    /\ apps' = [apps EXCEPT ![s][i].phase = apps[s][i].driver]
    /\ UNCHANGED errors

OperatorStep(s) ==
    \E i \in Index(s) : Submits(s, i) \/ DriverEnds(s, i) \/ Reports(s, i)

\* An operator that works submits and reports; drivers end when they end.
OperatorWorks(s) ==
    \E i \in Index(s) : Submits(s, i) \/ Reports(s, i)

\* A call to the API fails, before or after it took one of the effects.
CallFails(s, effects) ==
    /\ errors[s] < MaxErrors[s]
    /\ errors' = [errors EXCEPT ![s] = @ + 1]
    /\ apps' \in {apps} \union effects

\* Applications whose driver works on the tables or will.
Unfinished(s) == {i \in Index(s) : apps[s][i].driver \notin Finished}

\* Names are unique; a phase that says finished is the driver's.
AppsOK ==
    /\ apps \in [Scripts -> Seq(App)]
    /\ errors \in [Scripts -> Nat]
    /\ \A s \in Scripts : \A i \in Index(s) :
        /\ \A j \in Index(s) : apps[s][i].id = apps[s][j].id => i = j
        /\ apps[s][i].phase \in Finished => apps[s][i].phase = apps[s][i].driver
=============================================================================
