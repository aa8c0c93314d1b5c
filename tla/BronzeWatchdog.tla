--------------------------- MODULE BronzeWatchdog ---------------------------
(***************************************************************************)
(* ensure_bronze of dags/solar_pipeline.py, run every five minutes by the  *)
(* DAG solar_bronze_watchdog, one run at a time.                           *)
(*                                                                         *)
(* It lists the bronze applications and does nothing while one of them has *)
(* not finished.  Otherwise it deletes the finished ones but the newest,   *)
(* one call each, and creates the next.  Any call may fail with or without *)
(* its effect, which ends the run; the next run starts from a new list.    *)
(***************************************************************************)
EXTENDS SparkApps

CONSTANT Bronze    \* the streaming job

ASSUME BronzeIsAScript == Bronze \in Scripts

VARIABLE
    watch    \* the run: its step, the applications it has yet to delete

watchVars == <<apps, errors, watch>>

NoWatch == [step |-> "idle", todo |-> <<>>]

WatchInit == NoApps /\ watch = NoWatch

Bronzes == apps[Bronze]

IsActiveIfLive(a) == a.phase = "live"
IsActiveUnlessSucceeded(a) == a.phase # "Succeeded"

\* Also one that has no phase yet.
IsActive(a) == a.phase \notin Finished

Active == {i \in Index(Bronze) : IsActive(Bronzes[i])}

StaleAll(list) == [i \in 1..Len(list) |-> list[i].id]
StaleButTwo(list) == [i \in 1..(Len(list) - 2) |-> list[i].id]

\* finished[:-1] of the list, in the order of creation.
Stale(list) == [i \in 1..(Len(list) - 1) |-> list[i].id]

\* The list is read once; the rest of the run goes by it.
Looks ==
    /\ watch = NoWatch
    /\ Active = {}
    /\ watch' = [step |-> "clean", todo |-> Stale(Bronzes)]
    /\ UNCHANGED <<apps, errors>>

Cleans ==
    /\ watch.todo # <<>>
    /\ apps' = Deleted(Bronze, Head(watch.todo))
    /\ watch' = [watch EXCEPT !.todo = Tail(@)]
    /\ UNCHANGED errors

Starts ==
    /\ watch.step = "clean"
    /\ watch.todo = <<>>
    /\ HasName(Bronze)
    /\ apps' = Created(Bronze)
    /\ watch' = NoWatch
    /\ UNCHANGED errors

\* The list call may fail, too.
WatchDies ==
    /\ CallFails(Bronze,
           IF watch.todo # <<>> THEN {Deleted(Bronze, Head(watch.todo))}
           ELSE IF watch.step = "clean" /\ HasName(Bronze) THEN {Created(Bronze)}
           ELSE {})
    /\ watch' = NoWatch

\* To restart the bronze job one deletes its running application; its driver
\* goes with it.
Restarts ==
    /\ \E i \in Active : apps' = Deleted(Bronze, Bronzes[i].id)
    /\ UNCHANGED <<errors, watch>>

WatchStep == Looks \/ Cleans \/ Starts

WatchNext ==
    \/ WatchStep
    \/ WatchDies
    \/ Restarts
    \/ OperatorStep(Bronze) /\ UNCHANGED watch

WatchSpec == WatchInit /\ [][WatchNext]_watchVars

\* The schedule starts run after run, the calls return, the operator works.
FairWatchSpec ==
    /\ WatchSpec
    /\ WF_watchVars(WatchStep)
    /\ WF_watchVars(OperatorWorks(Bronze) /\ UNCHANGED watch)

----------------------------------------------------------------------------
(***************************************************************************)
(* Properties                                                              *)
(***************************************************************************)

\* The types, and that a run deletes only what still is there and has
\* finished (ensure_bronze).
WatchTypeOK ==
    /\ AppsOK
    /\ watch \in [step: {"idle", "clean"}, todo: Seq(Ids)]
    /\ \A n \in 1..Len(watch.todo) :
        \E i \in Index(Bronze) :
            Bronzes[i].id = watch.todo[n] /\ Bronzes[i].phase \in Finished

\* ensure_bronze never leads to two bronze applications whose drivers write to
\* the same checkpoints or will, whatever call fails, however late the
\* operator starts a driver or reports its end, and whoever restarts the job.
OneBronze == Cardinality(Unfinished(Bronze)) <= 1

\* However often the bronze job fails and ensure_bronze is interrupted,
\* applications do not pile up: there are one that has finished and its
\* successor at most.
FewKept == Len(Bronzes) <= 2

\* ensure_bronze keeps the newest finished bronze application for inspection
\* until it has a successor that finished, also when a run stops half-way.
NewestKept ==
    [][\A i \in Index(Bronze) :
          /\ Bronzes[i].phase \in Finished
          /\ \A j \in Index(Bronze) : j > i => Bronzes[j].driver \notin Finished
          => \E k \in 1..Len(apps'[Bronze]) : apps'[Bronze][k].id = Bronzes[i].id]_watchVars

AllEnded == \A i \in Index(Bronze) : Bronzes[i].phase \in Finished

\* When every bronze application has ended, ensure_bronze starts a new one,
\* also after a failed or a deleted one and after it was interrupted half-way.
BronzeRestarts == AllEnded ~> ~AllEnded
=============================================================================
