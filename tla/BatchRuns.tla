----------------------------- MODULE BatchRuns -----------------------------
(***************************************************************************)
(* run_spark_job of dags/solar_pipeline.py and the DAGs that use it.       *)
(*                                                                         *)
(* A DAG run creates an application, polls its phase, and deletes it after *)
(* success or at the time-out; it keeps a failed one.  There is one run of *)
(* a DAG at a time and no retry.  The gold DAG runs on the asset event of  *)
(* the silver DAG.  Any API call may fail with or without its effect.      *)
(***************************************************************************)
EXTENDS SparkApps

CONSTANTS
    Silver,    \* the job whose asset event triggers Gold
    Gold

ASSUME SilverIsNotGold == Silver \in Scripts /\ Gold \in Scripts /\ Silver # Gold

VARIABLES
    run,       \* job -> its DAG run: the step it is at, the application it created
    due        \* an asset event of Silver that no run of Gold was created for

\* History, for the properties.
VARIABLE
    owed       \* Silver has succeeded and no application of Gold was created since

vars == <<apps, errors, run, due, owed>>

Idle == [step |-> "idle", app |-> Nobody]

Init ==
    /\ NoApps
    /\ run = [s \in Scripts |-> Idle]
    /\ due = FALSE
    /\ owed = FALSE

EndRun(s) == run' = [run EXCEPT ![s] = Idle]

\* By schedule or by hand; Gold when there is an event for it.
Trigger(s) ==
    /\ run[s] = Idle
    /\ s = Gold => due
    /\ due' = (due /\ s # Gold)
    /\ run' = [run EXCEPT ![s].step = "create"]
    /\ UNCHANGED <<apps, errors, owed>>

Creates(s) ==
    /\ run[s].step = "create"
    /\ HasName(s)
    /\ apps' = Created(s)
    /\ run' = [run EXCEPT ![s] = [step |-> "poll", app |-> NewName(s)]]
    /\ owed' = (owed /\ s # Gold)
    /\ UNCHANGED <<errors, due>>

Exists(s) == run[s].app \in Named(s)

\* The poll loop goes on until the application is gone, failed or succeeded.
Polls(s) ==
    /\ run[s].step = "poll"
    /\ \/ /\ ~Exists(s)
          /\ EndRun(s)
       \/ /\ Exists(s)
          /\ Phase(s, run[s].app) = "Failed"
          /\ EndRun(s)
       \/ /\ Exists(s)
          /\ Phase(s, run[s].app) = "Succeeded"
          /\ run' = [run EXCEPT ![s].step = "collect"]
    /\ UNCHANGED <<apps, errors, due, owed>>

ExpiresNever(s) == FALSE /\ UNCHANGED vars

\* The deadline has passed, whatever the last poll said.
Expires(s) ==
    /\ run[s].step = "poll"
    /\ run' = [run EXCEPT ![s].step = "expire"]
    /\ UNCHANGED <<apps, errors, due, owed>>

EventUnlessRunning(s) == s = Silver /\ run[Gold] = Idle

\* A task that succeeds records the asset events of its outlets.
Event(s) == s = Silver

\* Deleting an application that is gone fails like any other call.
Collects(s) ==
    /\ run[s].step = "collect"
    /\ apps' = Deleted(s, run[s].app)
    /\ due' = (due \/ (Exists(s) /\ Event(s)))
    /\ owed' = (owed \/ (Exists(s) /\ s = Silver))
    /\ EndRun(s)
    /\ UNCHANGED errors

GivesUpOnly(s) ==
    /\ run[s].step = "expire"
    /\ EndRun(s)
    /\ UNCHANGED <<apps, errors, due, owed>>

GivesUp(s) ==
    /\ run[s].step = "expire"
    /\ apps' = Deleted(s, run[s].app)
    /\ EndRun(s)
    /\ UNCHANGED <<errors, due, owed>>

\* What the call of this step does if it takes effect.
Effects(s) ==
    CASE run[s].step = "create" -> IF HasName(s) THEN {Created(s)} ELSE {}
      [] run[s].step \in {"collect", "expire"} -> {Deleted(s, run[s].app)}
      [] OTHER -> {}

RunDies(s) ==
    /\ run[s] # Idle
    /\ CallFails(s, Effects(s))
    /\ EndRun(s)
    /\ UNCHANGED <<due, owed>>

RunStep(s) == Creates(s) \/ Polls(s) \/ Expires(s) \/ Collects(s) \/ GivesUp(s)

\* Somebody has looked at a finished application and deletes it.
Discards(s) ==
    /\ \E i \in Index(s) :
        /\ apps[s][i].phase \in Finished
        /\ apps' = Deleted(s, apps[s][i].id)
    /\ UNCHANGED <<errors, run, due, owed>>

Next == \E s \in Scripts :
    \/ Trigger(s)
    \/ RunStep(s)
    \/ RunDies(s)
    \/ Discards(s)
    \/ OperatorStep(s) /\ UNCHANGED <<run, due, owed>>

Spec == Init /\ [][Next]_vars

(***************************************************************************)
(* The clock reaches the deadline, the API answers, and Airflow creates    *)
(* the runs of Gold.  Names never run out in the code: fairness of         *)
(* Discards and of the operator keeps the ones here in supply.             *)
(***************************************************************************)
FairSpec ==
    /\ Spec
    /\ WF_vars(Trigger(Gold))
    /\ \A s \in Scripts :
        /\ WF_vars(RunStep(s))
        /\ WF_vars(Discards(s))
        /\ WF_vars(OperatorWorks(s) /\ UNCHANGED <<run, due, owed>>)

----------------------------------------------------------------------------
(***************************************************************************)
(* Properties                                                              *)
(***************************************************************************)

\* The types, and that a run knows the application it polls (run_spark_job).
TypeOK ==
    /\ AppsOK
    /\ run \in [Scripts -> [step: {"idle", "create", "poll", "collect", "expire"},
                            app: Ids \union {Nobody}]]
    /\ \A s \in Scripts : (run[s].app = Nobody) <=> (run[s].step \in {"idle", "create"})
    /\ due \in BOOLEAN
    /\ owed \in BOOLEAN

\* run_spark_job leaves the next run a second driver on the same tables only
\* if a call to the API has failed or a task was killed, and then one for each
\* of these at most, however long drivers hang and late phases arrive.  Its
\* docstring promises none at all.
DriversPerError == \A s \in Scripts : Cardinality(Unfinished(s)) <= 1 + errors[s]

\* Every run of run_spark_job ends, so that the next one can start
\* (max_active_runs=1), also when its driver hangs.
RunsEnd == \A s \in Scripts : run[s] # Idle ~> run[s] = Idle

\* After every silver run that succeeded, a gold application is created, also
\* when a gold run was going on at that moment; unless the gold task fails
\* before that, which uses up the event.
GoldFollows == owed ~> ~owed \/ errors[Gold] > 0
=============================================================================
