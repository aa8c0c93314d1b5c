-------------------------- MODULE SolarDagsProofs --------------------------
(***************************************************************************)
(* Proofs about the DAGs of dags/solar_pipeline.py, for every number of    *)
(* jobs, of names of applications, of calls that fail and of restarts by   *)
(* hand: first SparkApps, what a call to the Kubernetes API and a step of  *)
(* the operator do to a job's applications; then BatchRuns, the runs of    *)
(* run_spark_job; then BronzeWatchdog, those of ensure_bronze.             *)
(***************************************************************************)
EXTENDS BatchRuns, BronzeWatchdog, SequenceTheorems, FiniteSetTheorems, TLAPS

----------------------------------------------------------------------------
(***************************************************************************)
(* Deleting and creating applications.                                     *)
(***************************************************************************)

LEMMA RemoveAtProperties ==
  ASSUME NEW S, NEW q \in Seq(S), NEW i \in 1..Len(q)
  PROVE  /\ RemoveAt(q, i) \in Seq(S)
         /\ Len(RemoveAt(q, i)) = Len(q) - 1
         /\ \A j \in 1..(Len(q) - 1) : RemoveAt(q, i)[j] = q[IF j < i THEN j ELSE j + 1]
<1> DEFINE before == SubSeq(q, 1, i - 1)
           after == SubSeq(q, i + 1, Len(q))
<1>1. /\ before \in Seq(S) /\ Len(before) = i - 1
      /\ \A j \in 1..(i - 1) : before[j] = q[j]
  BY SubSeqProperties
<1>2. /\ after \in Seq(S) /\ Len(after) = Len(q) - i
      /\ \A j \in 1..(Len(q) - i) : after[j] = q[i + j]
  BY SubSeqProperties
<1>3. RemoveAt(q, i) = before \o after
  BY DEF RemoveAt
<1> HIDE DEF before, after
<1>4. /\ before \o after \in Seq(S) /\ Len(before \o after) = Len(q) - 1
      /\ \A j \in 1..(Len(q) - 1) :
            (before \o after)[j] = IF j <= i - 1 THEN before[j] ELSE after[j - (i - 1)]
  BY <1>1, <1>2, ConcatProperties
<1>5. ASSUME NEW j \in 1..(Len(q) - 1)
      PROVE  (before \o after)[j] = q[IF j < i THEN j ELSE j + 1]
  <2>1. CASE j < i
    BY <1>1, <1>4, <2>1
  <2>2. CASE ~(j < i)
    <3>1. j - (i - 1) \in 1..(Len(q) - i) /\ i + (j - (i - 1)) = j + 1
      BY <2>2
    <3> QED
      BY <1>2, <1>4, <2>2, <3>1
  <2> QED
    BY <2>1, <2>2
<1> QED
  BY <1>3, <1>4, <1>5

\* Names are unique, so a delete takes the application it names.
LEMMA DeletedAt ==
  ASSUME AppsOK, NEW s \in Scripts, NEW i \in Index(s)
  PROVE  Deleted(s, apps[s][i].id) = [apps EXCEPT ![s] = RemoveAt(apps[s], i)]
<1>1. apps[s][i].id \in Named(s)
  BY DEF Named
<1>2. At(s, apps[s][i].id) = i
  BY DEF At, AppsOK
<1> QED
  BY <1>1, <1>2 DEF Deleted

LEMMA DeletedKeepsOK ==
  ASSUME AppsOK, NEW s \in Scripts, NEW i \in Index(s),
         apps' = Deleted(s, apps[s][i].id), errors' \in [Scripts -> Nat]
  PROVE  AppsOK'
<1>1. apps[s] \in Seq(App) /\ apps' = [apps EXCEPT ![s] = RemoveAt(apps[s], i)]
  BY DeletedAt DEF AppsOK
<1>2. /\ RemoveAt(apps[s], i) \in Seq(App)
      /\ Len(RemoveAt(apps[s], i)) = Len(apps[s]) - 1
      /\ \A j \in 1..(Len(apps[s]) - 1) :
            RemoveAt(apps[s], i)[j] = apps[s][IF j < i THEN j ELSE j + 1]
  BY <1>1, RemoveAtProperties DEF Index
<1> HIDE DEF RemoveAt
<1>3. apps' \in [Scripts -> Seq(App)]
  BY <1>1, <1>2 DEF AppsOK
<1>4. ASSUME NEW z \in Scripts, NEW j \in Index(z)', NEW k \in Index(z)'
      PROVE  /\ apps'[z][j].id = apps'[z][k].id => j = k
             /\ apps'[z][j].phase \in Finished => apps'[z][j].phase = apps'[z][j].driver
  <2>1. CASE z # s
    BY <1>1, <1>4, <2>1 DEF AppsOK, Index
  <2>2. CASE z = s
    <3>1. j \in 1..(Len(apps[s]) - 1) /\ k \in 1..(Len(apps[s]) - 1)
      BY <1>1, <1>2, <1>4, <2>2 DEF AppsOK, Index
    <3> DEFINE from(n) == IF n < i THEN n ELSE n + 1
    <3>2. from(j) \in Index(s) /\ from(k) \in Index(s) /\ (from(j) = from(k) => j = k)
      BY <3>1 DEF Index
    <3>3. apps'[z][j] = apps[s][from(j)] /\ apps'[z][k] = apps[s][from(k)]
      BY <1>1, <1>2, <2>2, <3>1 DEF AppsOK
    <3> HIDE DEF from
    <3> QED
      BY <3>2, <3>3 DEF AppsOK
  <2> QED
    BY <2>1, <2>2
<1> QED
  BY <1>3, <1>4 DEF AppsOK

\* Deleting an application that is gone changes nothing.
LEMMA AnyDeleteKeepsOK ==
  ASSUME AppsOK, NEW s \in Scripts, NEW id, apps' = Deleted(s, id),
         errors' \in [Scripts -> Nat]
  PROVE  /\ AppsOK'
         /\ \A z \in Scripts \ {s} : apps'[z] = apps[z]
<1>1. CASE id \in Named(s)
  <2>1. PICK i \in Index(s) : id = apps[s][i].id
    BY <1>1 DEF Named
  <2>2. AppsOK'
    BY <2>1, DeletedKeepsOK
  <2>3. apps' = [apps EXCEPT ![s] = RemoveAt(apps[s], i)]
    BY <2>1, DeletedAt
  <2> HIDE DEF RemoveAt
  <2> QED
    BY <2>2, <2>3 DEF AppsOK
<1>2. CASE id \notin Named(s)
  BY <1>2 DEF Deleted, AppsOK, Index
<1> QED
  BY <1>1, <1>2

LEMMA CreatedKeepsOK ==
  ASSUME AppsOK, NEW s \in Scripts, HasName(s), apps' = Created(s),
         errors' \in [Scripts -> Nat]
  PROVE  AppsOK'
<1> DEFINE new == [id |-> NewName(s), driver |-> "none", phase |-> "none"]
<1>1. NewName(s) \in Names[s] /\ NewName(s) \notin Named(s)
  BY DEF NewName, HasName
<1>2. NewName(s) \in Ids
  BY <1>1, AppsAssumption
<1>3. new \in App
  BY <1>2 DEF App, Fates
<1>4. apps[s] \in Seq(App) /\ apps' = [apps EXCEPT ![s] = Append(apps[s], new)]
  BY DEF Created, AppsOK
<1>5. new.id \notin Named(s) /\ new.phase \notin Finished
  BY <1>1 DEF Finished
<1> HIDE DEF new
<1>6. apps' \in [Scripts -> Seq(App)]
  BY <1>3, <1>4 DEF AppsOK
<1>7. ASSUME NEW z \in Scripts, NEW j \in Index(z)', NEW k \in Index(z)'
      PROVE  /\ apps'[z][j].id = apps'[z][k].id => j = k
             /\ apps'[z][j].phase \in Finished => apps'[z][j].phase = apps'[z][j].driver
  <2>1. CASE z # s
    BY <1>4, <1>7, <2>1 DEF AppsOK, Index
  <2>2. CASE z = s
    <3>1. \A n \in Index(z)' : \/ n \in Index(s) /\ apps'[z][n] = apps[s][n]
                               \/ n = Len(apps[s]) + 1 /\ apps'[z][n] = new
      BY <1>3, <1>4, <2>2 DEF AppsOK, Index
    <3>2. \A n \in Index(s) : apps[s][n].id # new.id
      BY <1>5 DEF Named
    <3> QED
      BY <1>5, <3>1, <3>2 DEF AppsOK
  <2> QED
    BY <2>1, <2>2
<1> QED
  BY <1>6, <1>7 DEF AppsOK

\* The operator changes one application, whose name stays.
LEMMA OperatorKeepsOK ==
  ASSUME AppsOK, NEW s \in Scripts, OperatorStep(s)
  PROVE  /\ AppsOK'
         /\ Len(apps'[s]) = Len(apps[s])
         /\ \A j \in Index(s) :
               /\ apps'[s][j].id = apps[s][j].id
               /\ apps[s][j].phase \in Finished => apps'[s][j] = apps[s][j]
<1>1. PICK i \in Index(s) : Submits(s, i) \/ DriverEnds(s, i) \/ Reports(s, i)
  BY DEF OperatorStep
<1>2. apps[s] \in Seq(App) /\ apps[s][i] \in App /\ errors' = errors
  BY <1>1 DEF AppsOK, Index, Submits, DriverEnds, Reports
<1>3. PICK a \in App :
        /\ apps' = [apps EXCEPT ![s] = [apps[s] EXCEPT ![i] = a]]
        /\ a.id = apps[s][i].id
        /\ a.phase \in Finished => a.phase = a.driver
        /\ apps[s][i].phase \in Finished => a = apps[s][i]
  <2>1. CASE Submits(s, i)
    <3> DEFINE a == [apps[s][i] EXCEPT !.driver = "live"]
    <3>1. a \in App /\ a.id = apps[s][i].id /\ apps[s][i].phase \notin Finished /\ a.phase = apps[s][i].phase
      BY <1>2, <2>1 DEF Submits, App, Fates, Finished, AppsOK
    <3>2. apps' = [apps EXCEPT ![s] = [apps[s] EXCEPT ![i] = a]]
      BY <2>1, ZenonT(30) DEF Submits
    <3> QED
      BY <3>1, <3>2
  <2>2. CASE DriverEnds(s, i)
    <3>1. PICK fate \in Finished : apps' = [apps EXCEPT ![s][i].driver = fate]
      BY <2>2 DEF DriverEnds
    <3> DEFINE a == [apps[s][i] EXCEPT !.driver = fate]
    <3>2. a \in App /\ a.id = apps[s][i].id /\ apps[s][i].phase \notin Finished /\ a.phase = apps[s][i].phase
      BY <1>2, <2>2 DEF DriverEnds, App, Fates, Finished, AppsOK
    <3>3. apps' = [apps EXCEPT ![s] = [apps[s] EXCEPT ![i] = a]]
      BY <3>1, ZenonT(30)
    <3> QED
      BY <3>2, <3>3
  <2>3. CASE Reports(s, i)
    <3> DEFINE a == [apps[s][i] EXCEPT !.phase = apps[s][i].driver]
    <3>1. a \in App /\ a.id = apps[s][i].id /\ apps[s][i].phase \notin Finished /\ a.phase = a.driver
      BY <1>2, <2>3 DEF Reports, App, Fates, Finished, AppsOK
    <3>2. apps' = [apps EXCEPT ![s] = [apps[s] EXCEPT ![i] = a]]
      BY <2>3, ZenonT(30) DEF Reports
    <3> QED
      BY <3>1, <3>2
  <2> QED
    BY <1>1, <2>1, <2>2, <2>3
<1>4. /\ apps' \in [Scripts -> Seq(App)]
      /\ Len(apps'[s]) = Len(apps[s])
      /\ apps'[s][i] = a
      /\ \A j \in Index(s) \ {i} : apps'[s][j] = apps[s][j]
      /\ \A z \in Scripts \ {s} : apps'[z] = apps[z]
  BY <1>2, <1>3, ExceptSeq DEF AppsOK, Index
<1>5. \A j \in Index(s) : /\ apps'[s][j].id = apps[s][j].id
                          /\ apps[s][j].phase \in Finished => apps'[s][j] = apps[s][j]
                          /\ apps'[s][j].phase \in Finished => apps'[s][j].phase = apps'[s][j].driver
  BY <1>3, <1>4 DEF AppsOK
<1>6. ASSUME NEW z \in Scripts, NEW j \in Index(z)', NEW k \in Index(z)'
      PROVE  /\ apps'[z][j].id = apps'[z][k].id => j = k
             /\ apps'[z][j].phase \in Finished => apps'[z][j].phase = apps'[z][j].driver
  <2>1. CASE z # s
    BY <1>4, <2>1 DEF AppsOK, Index
  <2>2. CASE z = s
    BY <1>4, <1>5, <2>2 DEF AppsOK, Index
  <2> QED
    BY <2>1, <2>2
<1>7. errors' \in [Scripts -> Nat]
  BY <1>2 DEF AppsOK
<1> QED
  BY <1>4, <1>5, <1>6, <1>7 DEF AppsOK

----------------------------------------------------------------------------
(***************************************************************************)
(* The applications whose driver works or will, by name.                   *)
(***************************************************************************)

UnfinishedNames(s) == {apps[s][i].id : i \in Unfinished(s)}

LEMMA UnfinishedFinite ==
  ASSUME AppsOK, NEW s \in Scripts
  PROVE  IsFiniteSet(Unfinished(s))
<1>1. apps[s] \in Seq(App) /\ Len(apps[s]) \in Nat
  BY LenProperties DEF AppsOK
<1>2. IsFiniteSet(1..Len(apps[s]))
  BY <1>1, FS_Interval
<1>3. Unfinished(s) \subseteq 1..Len(apps[s])
  BY DEF Unfinished, Index
<1> QED
  BY <1>2, <1>3, FS_Subset

LEMMA UnfinishedByName ==
  ASSUME AppsOK, NEW s \in Scripts
  PROVE  /\ IsFiniteSet(UnfinishedNames(s))
         /\ Cardinality(Unfinished(s)) <= Cardinality(UnfinishedNames(s))
<1>1. IsFiniteSet(Unfinished(s))
  BY UnfinishedFinite
<1> DEFINE f == [i \in Unfinished(s) |-> apps[s][i].id]
<1>3. IsFiniteSet(UnfinishedNames(s))
  <2>1. f \in Surjection(Unfinished(s), UnfinishedNames(s))
    BY DEF Surjection, UnfinishedNames
  <2> HIDE DEF f
  <2> QED
    BY <1>1, <2>1, FS_Surjection
<1>4. f \in Injection(Unfinished(s), UnfinishedNames(s))
  <2>1. f \in [Unfinished(s) -> UnfinishedNames(s)]
    BY DEF UnfinishedNames
  <2>2. \A i, j \in Unfinished(s) : f[i] = f[j] => i = j
    BY DEF Unfinished, AppsOK
  <2> HIDE DEF f
  <2> QED
    BY <2>1, <2>2 DEF Injection, IsInjective
<1> HIDE DEF f
<1>5. Cardinality(Unfinished(s)) <= Cardinality(UnfinishedNames(s))
  BY <1>3, <1>4, FS_Injection
<1> QED
  BY <1>3, <1>5

LEMMA CreatedNames ==
  ASSUME AppsOK, NEW s \in Scripts, HasName(s), apps' = Created(s)
  PROVE  UnfinishedNames(s)' = UnfinishedNames(s) \union {NewName(s)}
<1> DEFINE new == [id |-> NewName(s), driver |-> "none", phase |-> "none"]
<1>1. apps[s] \in Seq(App) /\ apps' = [apps EXCEPT ![s] = Append(apps[s], new)]
  BY DEF Created, AppsOK
<1>2. apps'[s] = Append(apps[s], new) /\ Len(apps[s]) \in Nat
  BY <1>1, LenProperties DEF AppsOK
<1>3. new.id = NewName(s) /\ new.driver \notin Finished
  BY DEF Finished
<1> HIDE DEF new
<1>4. /\ Index(s)' = Index(s) \union {Len(apps[s]) + 1}
      /\ \A i \in Index(s) : apps'[s][i] = apps[s][i]
      /\ apps'[s][Len(apps[s]) + 1] = new
  BY <1>1, <1>2 DEF Index
<1>5. Unfinished(s)' = Unfinished(s) \union {Len(apps[s]) + 1}
  BY <1>3, <1>4 DEF Unfinished
<1> QED
  BY <1>3, <1>4, <1>5 DEF UnfinishedNames, Unfinished

LEMMA DeletedNames ==
  ASSUME AppsOK, NEW s \in Scripts, NEW id, apps' = Deleted(s, id)
  PROVE  UnfinishedNames(s)' \subseteq UnfinishedNames(s) \ {id}
<1>1. CASE id \notin Named(s)
  BY <1>1 DEF Deleted, UnfinishedNames, Unfinished, Named, Index
<1>2. CASE id \in Named(s)
  <2>1. PICK i \in Index(s) : id = apps[s][i].id
    BY <1>2 DEF Named
  <2>2. apps[s] \in Seq(App) /\ apps' = [apps EXCEPT ![s] = RemoveAt(apps[s], i)]
    BY <2>1, DeletedAt DEF AppsOK
  <2>3. /\ Len(RemoveAt(apps[s], i)) = Len(apps[s]) - 1
        /\ \A j \in 1..(Len(apps[s]) - 1) :
              RemoveAt(apps[s], i)[j] = apps[s][IF j < i THEN j ELSE j + 1]
    BY <2>2, RemoveAtProperties DEF Index
  <2> HIDE DEF RemoveAt
  <2>4. apps'[s] = RemoveAt(apps[s], i) /\ Len(apps[s]) \in Nat /\ i \in 1..Len(apps[s])
    BY <2>2, LenProperties DEF AppsOK, Index
  <2>5. ASSUME NEW j \in Unfinished(s)'
        PROVE  apps'[s][j].id \in UnfinishedNames(s) \ {id}
    <3> DEFINE from == IF j < i THEN j ELSE j + 1
    <3>1. j \in 1..(Len(apps[s]) - 1) /\ apps'[s][j].driver \notin Finished
      BY <2>3, <2>4, <2>5 DEF Unfinished, Index
    <3>2. apps'[s][j] = apps[s][from]
      BY <2>3, <2>4, <3>1
    <3>3. from \in Index(s) /\ from # i
      BY <2>4, <3>1 DEF Index
    <3> HIDE DEF from
    <3> QED
      BY <2>1, <3>1, <3>2, <3>3 DEF AppsOK, UnfinishedNames, Unfinished
  <2> QED
    BY <2>5 DEF UnfinishedNames
<1> QED
  BY <1>1, <1>2

LEMMA OperatorNames ==
  ASSUME AppsOK, NEW s \in Scripts, OperatorStep(s)
  PROVE  /\ UnfinishedNames(s)' \subseteq UnfinishedNames(s)
         /\ \A z \in Scripts \ {s} : apps'[z] = apps[z]
<1>1. PICK i \in Index(s) : Submits(s, i) \/ DriverEnds(s, i) \/ Reports(s, i)
  BY DEF OperatorStep
<1>2. /\ Len(apps'[s]) = Len(apps[s])
      /\ \A j \in Index(s) : apps'[s][j].id = apps[s][j].id
  BY OperatorKeepsOK
<1>3. apps[s] \in Seq(App) /\ i \in DOMAIN apps[s] /\ s \in DOMAIN apps
  BY <1>1, LenProperties DEF AppsOK, Index
<1>4. \A j \in Index(s) : apps[s][j].driver \in Finished => apps'[s][j].driver \in Finished
  <2>1. CASE Submits(s, i)
    BY <1>3, <2>1 DEF Submits, Finished, Index, AppsOK, App
  <2>2. CASE DriverEnds(s, i)
    BY <1>3, <2>2 DEF DriverEnds, Finished, Index, AppsOK, App
  <2>3. CASE Reports(s, i)
    BY <1>3, <2>3 DEF Reports, Finished, Index, AppsOK, App
  <2> QED
    BY <1>1, <2>1, <2>2, <2>3
<1>5. UnfinishedNames(s)' \subseteq UnfinishedNames(s)
  BY <1>2, <1>4 DEF UnfinishedNames, Unfinished, Index
<1>6. \A z \in Scripts \ {s} : apps'[z] = apps[z]
  BY <1>1 DEF Submits, DriverEnds, Reports, AppsOK
<1> QED
  BY <1>5, <1>6

----------------------------------------------------------------------------
(***************************************************************************)
(* What a step does to the job it is about, and that it leaves the others  *)
(* alone.                                                                  *)
(***************************************************************************)

Alone(s) ==
    \A z \in Scripts \ {s} :
        apps'[z] = apps[z] /\ run'[z] = run[z] /\ errors'[z] = errors[z]

LEMMA InitType == Init => TypeOK
<1> SUFFICES ASSUME Init PROVE TypeOK
  OBVIOUS
<1>1. AppsOK
  BY DEF Init, NoApps, AppsOK, Index
<1>2. /\ run \in [Scripts -> [step: {"idle", "create", "poll", "collect", "expire"},
                             app: Ids \union {Nobody}]]
      /\ \A s \in Scripts : run[s].app = Nobody /\ run[s].step = "idle"
  BY DEF Init, Idle
<1> QED
  BY <1>1, <1>2 DEF Init, TypeOK

LEMMA NewNameIsNew ==
  ASSUME NEW s \in Scripts, HasName(s)
  PROVE  NewName(s) \in Ids /\ NewName(s) \notin Named(s) /\ NewName(s) # Nobody
<1>1. NewName(s) \in Names[s] /\ NewName(s) \notin Named(s)
  BY DEF NewName, HasName
<1> QED
  BY <1>1, AppsAssumption

LEMMA AppsOKStep ==
  ASSUME TypeOK, [Next]_vars
  PROVE  AppsOK'
<1> USE DEF TypeOK
<1>1. errors \in [Scripts -> Nat]
  BY DEF AppsOK
<1>2. CASE UNCHANGED <<apps, errors>>
  BY <1>2 DEF AppsOK, Index
<1>3. ASSUME NEW s \in Scripts, Creates(s)
      PROVE  AppsOK'
  BY <1>1, <1>3, CreatedKeepsOK DEF Creates
<1>4. ASSUME NEW s \in Scripts, Collects(s) \/ GivesUp(s)
      PROVE  AppsOK'
  BY <1>1, <1>4, AnyDeleteKeepsOK DEF Collects, GivesUp
<1>5. ASSUME NEW s \in Scripts, Discards(s)
      PROVE  AppsOK'
  BY <1>1, <1>5, AnyDeleteKeepsOK DEF Discards
<1>6. ASSUME NEW s \in Scripts, RunDies(s)
      PROVE  AppsOK'
  <2>1. errors' \in [Scripts -> Nat]
    BY <1>1, <1>6 DEF RunDies, CallFails
  <2>2. CASE apps' = apps
    BY <2>1, <2>2 DEF AppsOK, Index
  <2>3. CASE apps' \in Effects(s)
    <3>1. \/ HasName(s) /\ apps' = Created(s)
          \/ apps' = Deleted(s, run[s].app)
      BY <2>3, Zenon DEF Effects
    <3> QED
      BY <2>1, <3>1, CreatedKeepsOK, AnyDeleteKeepsOK
  <2> QED
    BY <1>6, <2>2, <2>3 DEF RunDies, CallFails
<1>7. ASSUME NEW s \in Scripts, OperatorStep(s)
      PROVE  AppsOK'
  BY <1>7, OperatorKeepsOK
<1> QED
  BY <1>2, <1>3, <1>4, <1>5, <1>6, <1>7
  DEF Next, RunStep, Trigger, Polls, Expires, vars

LEMMA TypeStep ==
  ASSUME TypeOK, [Next]_vars
  PROVE  TypeOK'
<1>1. AppsOK'
  BY AppsOKStep
<1> DEFINE RunType == [step: {"idle", "create", "poll", "collect", "expire"},
                       app: Ids \union {Nobody}]
           RunOK(r) == r \in RunType /\ ((r.app = Nobody) <=> (r.step \in {"idle", "create"}))
<1>2. run \in [Scripts -> RunType] /\ \A s \in Scripts : RunOK(run[s])
  BY DEF TypeOK
<1>3. ASSUME NEW s \in Scripts, NEW r, RunOK(r), run' = [run EXCEPT ![s] = r],
             due' \in BOOLEAN, owed' \in BOOLEAN
      PROVE  TypeOK'
  BY <1>1, <1>2, <1>3 DEF TypeOK
<1>4. CASE run' = run /\ due' \in BOOLEAN /\ owed' \in BOOLEAN
  BY <1>1, <1>2, <1>4 DEF TypeOK
<1>5. RunOK(Idle)
  BY DEF Idle
<1>6. due \in BOOLEAN /\ owed \in BOOLEAN
  BY DEF TypeOK
<1>7. ASSUME NEW s \in Scripts, Trigger(s)
      PROVE  TypeOK'
  <2>1. run' = [run EXCEPT ![s] = [step |-> "create", app |-> Nobody]]
    <3>1. run' = [run EXCEPT ![s] = [run[s] EXCEPT !.step = "create"]]
      BY <1>7, Zenon DEF Trigger
    <3>2. [Idle EXCEPT !.step = "create"] = [step |-> "create", app |-> Nobody]
      BY DEF Idle
    <3> QED
      BY <1>7, <3>1, <3>2 DEF Trigger
  <2>2. RunOK([step |-> "create", app |-> Nobody])
    OBVIOUS
  <2>3. due' \in BOOLEAN /\ owed' \in BOOLEAN
    BY <1>6, <1>7 DEF Trigger
  <2> HIDE DEF RunOK
  <2> QED
    BY <1>3, <2>1, <2>2, <2>3
<1>8. ASSUME NEW s \in Scripts, Creates(s)
      PROVE  TypeOK'
  <2>1. RunOK([step |-> "poll", app |-> NewName(s)])
    BY <1>8, NewNameIsNew DEF Creates
  <2>2. due' \in BOOLEAN /\ owed' \in BOOLEAN
    BY <1>6, <1>8 DEF Creates
  <2> HIDE DEF RunOK
  <2> QED
    BY <1>3, <1>8, <2>1, <2>2 DEF Creates
<1>9. ASSUME NEW s \in Scripts, EndRun(s), due' \in BOOLEAN, owed' \in BOOLEAN
      PROVE  TypeOK'
  <2> HIDE DEF RunOK
  <2> QED
    BY <1>3, <1>5, <1>9 DEF EndRun
<1>10. ASSUME NEW s \in Scripts, NEW step \in {"collect", "expire"}, run[s].step = "poll",
              run' = [run EXCEPT ![s].step = step], UNCHANGED <<due, owed>>
       PROVE  TypeOK'
  <2>1. run' = [run EXCEPT ![s] = [step |-> step, app |-> run[s].app]]
    <3>1. run' = [run EXCEPT ![s] = [run[s] EXCEPT !.step = step]]
      BY <1>10, Zenon
    <3>2. [run[s] EXCEPT !.step = step] = [step |-> step, app |-> run[s].app]
      BY <1>2
    <3> QED
      BY <3>1, <3>2
  <2>2. RunOK([step |-> step, app |-> run[s].app])
    BY <1>2, <1>10
  <2> HIDE DEF RunOK
  <2> QED
    BY <1>3, <1>6, <1>10, <2>1, <2>2
<1>11. ASSUME NEW s \in Scripts, Polls(s) \/ Expires(s)
       PROVE  TypeOK'
  BY <1>6, <1>9, <1>10, <1>11 DEF Polls, Expires
<1>12. ASSUME NEW s \in Scripts, Collects(s) \/ GivesUp(s) \/ RunDies(s)
       PROVE  TypeOK'
  <2>1. due' \in BOOLEAN /\ owed' \in BOOLEAN
    BY <1>6, <1>12 DEF Collects, GivesUp, RunDies
  <2> QED
    BY <1>9, <1>12, <2>1 DEF Collects, GivesUp, RunDies
<1>13. ASSUME NEW s \in Scripts, Discards(s)
       PROVE  TypeOK'
  BY <1>4, <1>6, <1>13 DEF Discards
<1> QED
  BY <1>4, <1>6, <1>7, <1>8, <1>11, <1>12, <1>13 DEF Next, RunStep, vars

\* Type correctness, which says that a run of run_spark_job knows the name of
\* the application it polls and deletes, which no other application has.
THEOREM BatchTypes == Spec => []TypeOK
  BY InitType, TypeStep, PTL DEF Spec

----------------------------------------------------------------------------
(***************************************************************************)
(* Drivers.                                                                *)
(***************************************************************************)

\* Applications whose driver works or will, and that no run looks after.
Orphans(s) == UnfinishedNames(s) \ {run[s].app}

\* A call that fails leaves at most one of them behind.
OrphansInv == \A s \in Scripts : Cardinality(Orphans(s)) <= errors[s]

LEMMA OrphansFinite ==
  ASSUME TypeOK, NEW s \in Scripts
  PROVE  IsFiniteSet(Orphans(s)) /\ Cardinality(Orphans(s)) \in Nat /\ errors[s] \in Nat
<1>1. IsFiniteSet(UnfinishedNames(s))
  BY UnfinishedByName DEF TypeOK
<1>2. IsFiniteSet(Orphans(s))
  BY <1>1, FS_Subset DEF Orphans
<1> QED
  BY <1>2, FS_CardinalityType DEF TypeOK, AppsOK

LEMMA NobodyIsNoName ==
  ASSUME TypeOK, NEW s \in Scripts
  PROVE  /\ \A i \in Index(s) : apps[s][i].id \in Ids
         /\ Nobody \notin UnfinishedNames(s)
<1>1. ASSUME NEW i \in Index(s)
      PROVE  apps[s][i].id \in Ids
  <2>1. apps[s] \in Seq(App) /\ i \in 1..Len(apps[s])
    BY DEF TypeOK, AppsOK, Index
  <2>2. apps[s][i] \in App
    BY <2>1, ElementOfSeq
  <2> QED
    BY <2>2 DEF App
<1> QED
  BY <1>1, AppsAssumption DEF UnfinishedNames, Unfinished

LEMMA OneMore ==
  ASSUME NEW S, NEW T, NEW x, IsFiniteSet(S), T \subseteq S \union {x}
  PROVE  Cardinality(T) <= Cardinality(S) + 1 /\ Cardinality(T) \in Nat
<1>1. IsFiniteSet(S \union {x}) /\ Cardinality(S \union {x}) <= Cardinality(S) + 1
      /\ Cardinality(S) \in Nat
  BY FS_AddElement, FS_CardinalityType
<1>2. Cardinality(T) <= Cardinality(S \union {x}) /\ IsFiniteSet(T)
  BY <1>1, FS_Subset
<1>3. Cardinality(T) \in Nat /\ Cardinality(S \union {x}) \in Nat
  BY <1>1, <1>2, FS_CardinalityType
<1> QED
  BY <1>1, <1>2, <1>3

\* A phase that says finished is the driver's, so the application of a run
\* that sees one is not among those with a driver.
LEMMA FinishedIsNotOurs ==
  ASSUME TypeOK, NEW s \in Scripts, NEW id, id \notin Named(s) \/ Phase(s, id) \in Finished
  PROVE  id \notin UnfinishedNames(s)
<1>1. CASE id \notin Named(s)
  BY <1>1 DEF Named, UnfinishedNames, Unfinished
<1>2. ASSUME NEW i \in Index(s), apps[s][i].id = id, Phase(s, id) \in Finished
      PROVE  id \notin UnfinishedNames(s)
  <2>1. At(s, id) = i
    BY <1>2 DEF At, TypeOK, AppsOK
  <2>2. apps[s][i].driver \in Finished
    BY <1>2, <2>1 DEF Phase, TypeOK, AppsOK
  <2> QED
    BY <1>2, <2>2 DEF UnfinishedNames, Unfinished, TypeOK, AppsOK
<1> QED
  BY <1>1, <1>2 DEF Named

LEMMA OrphansStep ==
  ASSUME TypeOK, OrphansInv, [Next]_vars
  PROVE  OrphansInv'
<1>1. TypeOK'
  BY TypeStep
<1> DEFINE Fine(s) == Cardinality(Orphans(s)') <= errors'[s]
<1>2. ASSUME NEW z \in Scripts, apps'[z] = apps[z], run'[z].app = run[z].app, errors'[z] = errors[z]
      PROVE  Fine(z)
  <2>1. Orphans(z)' = Orphans(z)
    BY <1>2 DEF Orphans, UnfinishedNames, Unfinished, Index
  <2> QED
    BY <1>2, <2>1 DEF OrphansInv
<1>3. ASSUME NEW s \in Scripts, Orphans(s)' \subseteq Orphans(s), errors'[s] = errors[s]
      PROVE  Fine(s)
  <2>1. /\ IsFiniteSet(Orphans(s)') /\ Cardinality(Orphans(s)') <= Cardinality(Orphans(s))
        /\ Cardinality(Orphans(s)) <= errors[s]
    BY <1>3, OrphansFinite, FS_Subset DEF OrphansInv
  <2>2. Cardinality(Orphans(s)') \in Nat
    BY <2>1, FS_CardinalityType
  <2> HIDE DEF Orphans
  <2> QED
    BY <1>3, <2>1, <2>2, OrphansFinite
<1>4. ASSUME NEW s \in Scripts, NEW x, Orphans(s)' \subseteq Orphans(s) \union {x},
             errors'[s] = errors[s] + 1
      PROVE  Fine(s)
  <2>1. /\ Cardinality(Orphans(s)') <= Cardinality(Orphans(s)) + 1
        /\ Cardinality(Orphans(s)') \in Nat
        /\ Cardinality(Orphans(s)) <= errors[s]
    BY <1>4, OrphansFinite, OneMore DEF OrphansInv
  <2> QED
    BY <1>4, <2>1, OrphansFinite
<1>5. ASSUME NEW s \in Scripts, Alone(s), Fine(s)
      PROVE  OrphansInv'
  BY <1>2, <1>5 DEF Alone, OrphansInv
<1> HIDE DEF Fine
<1>6. ASSUME NEW s \in Scripts, apps' = apps, errors' = errors,
             run' = [run EXCEPT ![s] = run'[s]],
             run'[s].app = run[s].app \/ run[s].app \notin UnfinishedNames(s)
      PROVE  OrphansInv'
  <2>1. Alone(s)
    BY <1>6 DEF Alone, TypeOK
  <2>2. UnfinishedNames(s)' = UnfinishedNames(s)
    BY <1>6 DEF UnfinishedNames, Unfinished, Index
  <2>3. Orphans(s)' \subseteq Orphans(s)
    BY <1>6, <2>2 DEF Orphans
  <2> QED
    BY <1>3, <1>5, <1>6, <2>1, <2>3
<1>7. ASSUME NEW s \in Scripts, Trigger(s)
      PROVE  OrphansInv'
  <2>1. run'[s].app = run[s].app /\ run' = [run EXCEPT ![s] = run'[s]]
    BY <1>7 DEF Trigger, TypeOK
  <2> QED
    BY <1>6, <1>7, <2>1 DEF Trigger
<1>8. ASSUME NEW s \in Scripts, Creates(s)
      PROVE  OrphansInv'
  <2>1. run[s].app = Nobody /\ Nobody \notin UnfinishedNames(s)
    BY <1>8, NobodyIsNoName DEF Creates, TypeOK
  <2>2. UnfinishedNames(s)' = UnfinishedNames(s) \union {NewName(s)} /\ run'[s].app = NewName(s)
    BY <1>8, CreatedNames DEF Creates, TypeOK
  <2>3. Orphans(s)' \subseteq Orphans(s)
    BY <2>1, <2>2 DEF Orphans
  <2>4. Alone(s)
    BY <1>8 DEF Creates, Created, Alone, TypeOK, AppsOK
  <2> QED
    BY <1>3, <1>5, <1>8, <2>3, <2>4 DEF Creates
<1>9. ASSUME NEW s \in Scripts, Polls(s) \/ Expires(s)
      PROVE  OrphansInv'
  <2>1. run' = [run EXCEPT ![s] = run'[s]]
    BY <1>9 DEF Polls, Expires, EndRun, TypeOK
  <2>2. run'[s].app = run[s].app \/ run[s].app \notin UnfinishedNames(s)
    BY <1>9, FinishedIsNotOurs DEF Polls, Expires, EndRun, Exists, Finished, TypeOK
  <2> QED
    BY <1>6, <1>9, <2>1, <2>2 DEF Polls, Expires
<1>10. ASSUME NEW s \in Scripts, Collects(s) \/ GivesUp(s)
       PROVE  OrphansInv'
  <2>1. apps' = Deleted(s, run[s].app) /\ errors' = errors /\ EndRun(s)
    BY <1>10 DEF Collects, GivesUp
  <2>2. Orphans(s)' \subseteq Orphans(s)
    BY <2>1, DeletedNames DEF Orphans, TypeOK
  <2>3. Alone(s)
    BY <2>1, AnyDeleteKeepsOK DEF Alone, EndRun, TypeOK, AppsOK
  <2> QED
    BY <1>3, <1>5, <2>1, <2>2, <2>3
<1>11. ASSUME NEW s \in Scripts, Discards(s)
       PROVE  OrphansInv'
  <2>1. PICK id \in Ids : apps' = Deleted(s, id)
    BY <1>11, NobodyIsNoName DEF Discards
  <2>2. errors' = errors /\ run' = run
    BY <1>11 DEF Discards
  <2>3. Orphans(s)' \subseteq Orphans(s)
    BY <2>1, <2>2, DeletedNames DEF Orphans, TypeOK
  <2>4. Alone(s)
    BY <2>1, <2>2, AnyDeleteKeepsOK DEF Alone, TypeOK, AppsOK
  <2> QED
    BY <1>3, <1>5, <2>2, <2>3, <2>4
<1>12. ASSUME NEW s \in Scripts, RunDies(s)
       PROVE  OrphansInv'
  <2>1. /\ errors' = [errors EXCEPT ![s] = @ + 1] /\ EndRun(s)
        /\ apps' = apps \/ apps' \in Effects(s)
    BY <1>12 DEF RunDies, CallFails
  <2>2. errors'[s] = errors[s] + 1 /\ \A z \in Scripts \ {s} : errors'[z] = errors[z] /\ run'[z] = run[z]
    BY <2>1 DEF EndRun, TypeOK, AppsOK
  <2>3. CASE apps' = apps
    <3>1. UnfinishedNames(s)' = UnfinishedNames(s)
      BY <2>3 DEF UnfinishedNames, Unfinished, Index
    <3>2. Orphans(s)' \subseteq Orphans(s) \union {run[s].app}
      BY <3>1 DEF Orphans
    <3> QED
      BY <1>4, <1>5, <2>2, <2>3, <3>2 DEF Alone
  <2>4. CASE run[s].step = "create" /\ HasName(s) /\ apps' = Created(s)
    <3>1. run[s].app = Nobody /\ Nobody \notin UnfinishedNames(s)
      BY <2>4, NobodyIsNoName DEF TypeOK
    <3>2. Orphans(s)' \subseteq Orphans(s) \union {NewName(s)}
      BY <2>4, <3>1, CreatedNames DEF Orphans, TypeOK
    <3>3. Alone(s)
      BY <2>2, <2>4 DEF Created, Alone, TypeOK, AppsOK
    <3> QED
      BY <1>4, <1>5, <2>2, <3>2, <3>3
  <2>5. CASE apps' = Deleted(s, run[s].app)
    <3>1. Orphans(s)' \subseteq Orphans(s) \union {Nobody}
      BY <2>5, DeletedNames DEF Orphans, TypeOK
    <3>2. Alone(s)
      BY <1>1, <2>2, <2>5, AnyDeleteKeepsOK DEF Alone, TypeOK, AppsOK
    <3> QED
      BY <1>4, <1>5, <2>2, <3>1, <3>2
  <2>6. apps' \in Effects(s) => \/ run[s].step = "create" /\ HasName(s) /\ apps' = Created(s)
                                \/ apps' = Deleted(s, run[s].app)
    BY Zenon DEF Effects
  <2> QED
    BY <2>1, <2>3, <2>4, <2>5, <2>6
<1>13. ASSUME NEW s \in Scripts, OperatorStep(s), UNCHANGED run
       PROVE  OrphansInv'
  <2>1. UnfinishedNames(s)' \subseteq UnfinishedNames(s) /\ \A z \in Scripts \ {s} : apps'[z] = apps[z]
    BY <1>13, OperatorNames DEF TypeOK
  <2>2. errors' = errors
    BY <1>13 DEF OperatorStep, Submits, DriverEnds, Reports
  <2>3. Orphans(s)' \subseteq Orphans(s) /\ Alone(s)
    BY <1>13, <2>1, <2>2 DEF Orphans, Alone
  <2> QED
    BY <1>3, <1>5, <2>2, <2>3
<1>14. CASE UNCHANGED vars
  BY <1>2, <1>14 DEF vars, Fine, OrphansInv
<1> QED
  BY <1>7, <1>8, <1>9, <1>10, <1>11, <1>12, <1>13, <1>14 DEF Next, RunStep

\* run_spark_job leaves the next run a second driver on the same tables only if
\* a call to the API failed or its task was killed, and one for each of these
\* at most: for every number of jobs and failures, however long drivers hang,
\* and whenever somebody deletes finished applications.
THEOREM DriversComeFromErrors == Spec => []DriversPerError
<1>1. Init => OrphansInv
  <2> SUFFICES ASSUME Init, NEW s \in Scripts
               PROVE  Cardinality(Orphans(s)) <= errors[s]
    BY DEF OrphansInv
  <2>1. Orphans(s) = {} /\ errors[s] = 0
    BY DEF Init, NoApps, Orphans, UnfinishedNames, Unfinished, Index
  <2> QED
    BY <2>1, FS_EmptySet
<1>2. ASSUME TypeOK, OrphansInv
      PROVE  DriversPerError
  <2> SUFFICES ASSUME NEW s \in Scripts
               PROVE  Cardinality(Unfinished(s)) <= 1 + errors[s]
    BY DEF DriversPerError
  <2>1. UnfinishedNames(s) \subseteq Orphans(s) \union {run[s].app}
    BY DEF Orphans
  <2>2. Cardinality(UnfinishedNames(s)) <= Cardinality(Orphans(s)) + 1
    BY <1>2, <2>1, OrphansFinite, OneMore
  <2>3. /\ Cardinality(Unfinished(s)) <= Cardinality(UnfinishedNames(s))
        /\ Cardinality(UnfinishedNames(s)) \in Nat
    BY <1>2, UnfinishedByName, FS_CardinalityType DEF TypeOK
  <2>4. Cardinality(Unfinished(s)) \in Nat
    BY <1>2, UnfinishedFinite, FS_CardinalityType DEF TypeOK
  <2> QED
    BY <1>2, <2>2, <2>3, <2>4, OrphansFinite DEF OrphansInv
<1> QED
  BY <1>1, <1>2, BatchTypes, OrphansStep, PTL DEF Spec

----------------------------------------------------------------------------
(***************************************************************************)
(* The watchdog.                                                           *)
(***************************************************************************)

\* Of two bronze applications the first has finished.
FewInv ==
    /\ Len(Bronzes) <= 2
    /\ Len(Bronzes) = 2 => Bronzes[1].phase \in Finished

\* What a run read in its list stays true until its last call: the applications
\* have finished, and the only one it has yet to delete is the first of two.
RunInv ==
    \/ watch = NoWatch
    \/ /\ watch.step = "clean"
       /\ \A i \in Index(Bronze) : Bronzes[i].phase \in Finished
       /\ \/ watch = [step |-> "clean", todo |-> <<>>] /\ Len(Bronzes) # 2
          \/ watch = [step |-> "clean", todo |-> <<Bronzes[1].id>>] /\ Len(Bronzes) = 2

WatchInv == AppsOK /\ FewInv /\ RunInv

LEMMA AtMostTwo ==
  ASSUME NEW n \in Nat, n <= 2
  PROVE  n = 0 \/ n = 1 \/ n = 2
  OBVIOUS

LEMMA OneLessOfTwo ==
  ASSUME NEW n \in Nat, n <= 2
  PROVE  n - 1 <= 2 /\ n - 1 # 2
  OBVIOUS

LEMMA FewCases ==
  ASSUME WatchInv
  PROVE  Len(Bronzes) = 0 \/ Len(Bronzes) = 1 \/ Len(Bronzes) = 2
<1>1. apps[Bronze] \in Seq(App)
  BY BronzeIsAScript DEF WatchInv, AppsOK
<1>2. Len(Bronzes) \in Nat /\ Len(Bronzes) <= 2
  BY <1>1, LenProperties DEF WatchInv, FewInv, Bronzes
<1> QED
  BY <1>2, AtMostTwo

LEMMA InitWatch == WatchInit => WatchInv
  BY BronzeIsAScript DEF WatchInit, NoApps, WatchInv, AppsOK, FewInv, RunInv, Bronzes, Index

LEMMA WatchType ==
  ASSUME WatchInv PROVE WatchTypeOK
<1>1. apps[Bronze] \in Seq(App)
  BY BronzeIsAScript DEF WatchInv, AppsOK
<1>2. CASE watch = NoWatch \/ watch = [step |-> "clean", todo |-> <<>>]
  <2>1. watch.step \in {"idle", "clean"} /\ watch.todo = <<>>
    BY <1>2 DEF NoWatch
  <2>2. watch \in [step: {"idle", "clean"}, todo: Seq(Ids)]
    <3> DEFINE none == <<>>
    <3>1. none \in Seq(Ids)
      BY EmptySeq
    <3>2. watch = [step |-> "idle", todo |-> none] \/ watch = [step |-> "clean", todo |-> none]
      BY <1>2 DEF NoWatch
    <3> HIDE DEF none
    <3> QED
      BY <3>1, <3>2
  <2>3. Len(watch.todo) = 0
    BY <2>1
  <2> QED
    BY <2>2, <2>3 DEF WatchInv, WatchTypeOK
<1>3. CASE /\ watch = [step |-> "clean", todo |-> <<Bronzes[1].id>>] /\ Len(Bronzes) = 2
           /\ \A i \in Index(Bronze) : Bronzes[i].phase \in Finished
  <2>1. 1 \in Index(Bronze) /\ Bronzes[1].id \in Ids
    <3>1. 1 \in 1..Len(apps[Bronze])
      BY <1>3 DEF Bronzes
    <3>2. apps[Bronze][1] \in App
      BY <1>1, <3>1, ElementOfSeq
    <3> QED
      BY <3>1, <3>2 DEF Bronzes, Index, App
  <2>2. watch.todo \in Seq(Ids) /\ Len(watch.todo) = 1 /\ watch.todo[1] = Bronzes[1].id
    BY <1>3, <2>1
  <2> QED
    BY <1>3, <2>1, <2>2 DEF WatchInv, WatchTypeOK
<1> QED
  BY <1>2, <1>3 DEF WatchInv, RunInv

\* The delete of the first of two leaves the second, which has finished.
LEMMA CleansOne ==
  ASSUME WatchInv, watch.todo # <<>>
  PROVE  /\ Len(Bronzes) = 2 /\ 1 \in Index(Bronze) /\ 2 \in Index(Bronze)
         /\ watch.step = "clean" /\ watch.todo = <<Bronzes[1].id>>
         /\ \A i \in Index(Bronze) : Bronzes[i].phase \in Finished
<1>1. watch = [step |-> "clean", todo |-> <<Bronzes[1].id>>] /\ Len(Bronzes) = 2
      /\ \A i \in Index(Bronze) : Bronzes[i].phase \in Finished
  BY DEF WatchInv, RunInv, NoWatch
<1> QED
  BY <1>1 DEF Index, Bronzes

LEMMA DeletesFirst ==
  ASSUME WatchInv, watch.todo # <<>>, apps' = Deleted(Bronze, Head(watch.todo)),
         errors' \in [Scripts -> Nat]
  PROVE  /\ AppsOK'
         /\ Len(apps'[Bronze]) = 1
         /\ apps'[Bronze][1] = Bronzes[2]
<1>1. /\ Len(Bronzes) = 2 /\ 1 \in Index(Bronze)
      /\ watch.todo = <<Bronzes[1].id>>
  BY CleansOne
<1>2. Head(watch.todo) = apps[Bronze][1].id
  BY <1>1 DEF Bronzes
<1>3. AppsOK'
  BY <1>1, <1>2, BronzeIsAScript, DeletedKeepsOK DEF WatchInv
<1>4. apps' = [apps EXCEPT ![Bronze] = RemoveAt(apps[Bronze], 1)]
  BY <1>1, <1>2, BronzeIsAScript, DeletedAt DEF WatchInv
<1>5. apps[Bronze] \in Seq(App) /\ Len(apps[Bronze]) = 2 /\ apps \in [Scripts -> Seq(App)]
  BY <1>1, BronzeIsAScript DEF WatchInv, AppsOK, Bronzes
<1>6. /\ Len(RemoveAt(apps[Bronze], 1)) = 1
      /\ RemoveAt(apps[Bronze], 1)[1] = apps[Bronze][2]
  <2>1. /\ 1 \in 1..Len(apps[Bronze]) /\ 1 \in 1..(Len(apps[Bronze]) - 1)
        /\ Len(apps[Bronze]) - 1 = 1
    BY <1>5
  <2>2. /\ Len(RemoveAt(apps[Bronze], 1)) = Len(apps[Bronze]) - 1
        /\ \A j \in 1..(Len(apps[Bronze]) - 1) :
              RemoveAt(apps[Bronze], 1)[j] = apps[Bronze][IF j < 1 THEN j ELSE j + 1]
    BY <1>5, <2>1, RemoveAtProperties
  <2> HIDE DEF RemoveAt
  <2>3. RemoveAt(apps[Bronze], 1)[1] = apps[Bronze][IF 1 < 1 THEN 1 ELSE 1 + 1]
    BY <2>1, <2>2
  <2> QED
    BY <1>5, <2>2, <2>3
<1> QED
  BY <1>3, <1>4, <1>5, <1>6, BronzeIsAScript DEF Bronzes

\* Somebody deletes the application that has not finished, which is the last.
LEMMA RestartsLast ==
  ASSUME WatchInv, NEW i \in Active, apps' = Deleted(Bronze, Bronzes[i].id),
         errors' \in [Scripts -> Nat]
  PROVE  /\ AppsOK'
         /\ i = Len(Bronzes)
         /\ Len(apps'[Bronze]) = Len(Bronzes) - 1
         /\ \A j \in Index(Bronze) \ {i} : apps'[Bronze][j] = Bronzes[j]
<1>1. i \in Index(Bronze) /\ Bronzes[i].phase \notin Finished
  BY DEF Active, IsActive
<1>2. apps[Bronze] \in Seq(App) /\ apps \in [Scripts -> Seq(App)]
  BY BronzeIsAScript DEF WatchInv, AppsOK
<1>3. i = Len(Bronzes)
  <2>1. i \in 1..Len(Bronzes) /\ (Len(Bronzes) = 2 => i # 1)
    BY <1>1 DEF WatchInv, FewInv, Bronzes, Index
  <2>2. CASE Len(Bronzes) = 2
    <3>1. i \in 1..2 /\ i # 1
      BY <2>1, <2>2
    <3> QED
      BY <2>2, <3>1
  <2>3. CASE Len(Bronzes) = 1
    <3>1. i \in 1..1
      BY <2>1, <2>3
    <3> QED
      BY <2>3, <3>1
  <2>4. Len(Bronzes) # 0
    <3> SUFFICES ASSUME Len(Bronzes) = 0
                 PROVE  FALSE
      OBVIOUS
    <3>1. i \in 1..0
      BY <2>1
    <3> QED
      BY <3>1
  <2> QED
    BY <2>2, <2>3, <2>4, FewCases
<1>4. AppsOK'
  BY <1>1, BronzeIsAScript, DeletedKeepsOK DEF WatchInv, Bronzes
<1>5. apps' = [apps EXCEPT ![Bronze] = RemoveAt(apps[Bronze], i)]
  BY <1>1, BronzeIsAScript, DeletedAt DEF WatchInv, Bronzes
<1>6. /\ Len(RemoveAt(apps[Bronze], i)) = Len(apps[Bronze]) - 1
      /\ \A j \in 1..(Len(apps[Bronze]) - 1) :
            RemoveAt(apps[Bronze], i)[j] = apps[Bronze][IF j < i THEN j ELSE j + 1]
  BY <1>1, <1>2, RemoveAtProperties DEF Index
<1>7. \A j \in Index(Bronze) \ {i} : j < i /\ j \in 1..(Len(apps[Bronze]) - 1)
  BY <1>2, <1>3 DEF Index, Bronzes
<1> HIDE DEF RemoveAt
<1> QED
  BY <1>2, <1>3, <1>4, <1>5, <1>6, <1>7, BronzeIsAScript DEF Bronzes

LEMMA CreatesLast ==
  ASSUME WatchInv, HasName(Bronze), apps' = Created(Bronze), errors' \in [Scripts -> Nat]
  PROVE  /\ AppsOK'
         /\ Len(apps'[Bronze]) = Len(Bronzes) + 1
         /\ \A j \in Index(Bronze) : apps'[Bronze][j] = Bronzes[j]
<1>1. AppsOK'
  BY BronzeIsAScript, CreatedKeepsOK DEF WatchInv
<1>2. apps[Bronze] \in Seq(App) /\ apps \in [Scripts -> Seq(App)] /\ apps'[Bronze] \in Seq(App)
  BY <1>1, BronzeIsAScript DEF WatchInv, AppsOK
<1>3. apps'[Bronze] = Append(apps[Bronze], [id |-> NewName(Bronze), driver |-> "none", phase |-> "none"])
  BY <1>2, BronzeIsAScript DEF Created
<1> QED
  BY <1>1, <1>2, <1>3 DEF Bronzes, Index

LEMMA AppsKept ==
  ASSUME AppsOK, apps' = apps, errors' \in [Scripts -> Nat]
  PROVE  AppsOK'
  BY DEF AppsOK, Index

LEMMA WatchStepKeeps ==
  ASSUME WatchInv, [WatchNext]_watchVars
  PROVE  WatchInv'
<1> USE BronzeIsAScript
<1>1. apps[Bronze] \in Seq(App) /\ errors \in [Scripts -> Nat] /\ Len(Bronzes) \in Nat
  BY DEF WatchInv, AppsOK, Bronzes
<1>2. CASE Looks
  <2>0. AppsOK' /\ FewInv' /\ apps' = apps
    BY <1>1, <1>2, AppsKept DEF Looks, WatchInv, FewInv, Bronzes
  <2>1. \A i \in Index(Bronze) : Bronzes[i].phase \in Finished
    BY <1>2 DEF Looks, Active, IsActive
  <2>2. CASE Len(Bronzes) = 2
    <3>1. Stale(Bronzes) = <<Bronzes[1].id>>
      BY <2>2 DEF Stale
    <3> QED
      BY <1>2, <2>0, <2>1, <2>2, <3>1 DEF Looks, WatchInv, RunInv, Bronzes, Index
  <2>3. CASE Len(Bronzes) # 2
    <3>1. Stale(Bronzes) = <<>>
      <4>1. Len(Bronzes) = 0 \/ Len(Bronzes) = 1
        BY <2>3, FewCases
      <4>2. CASE Len(Bronzes) = 0
        BY <4>2 DEF Stale
      <4>3. CASE Len(Bronzes) = 1
        BY <4>3 DEF Stale
      <4> QED
        BY <4>1, <4>2, <4>3
    <3> QED
      BY <1>2, <2>0, <2>1, <2>3, <3>1 DEF Looks, WatchInv, RunInv, Bronzes, Index
  <2> QED
    BY <2>2, <2>3
<1>3. CASE Cleans
  <2>1. AppsOK' /\ Len(apps'[Bronze]) = 1 /\ apps'[Bronze][1] = Bronzes[2]
    BY <1>1, <1>3, DeletesFirst DEF Cleans
  <2>2. watch.step = "clean" /\ watch.todo = <<Bronzes[1].id>> /\ Bronzes[2].phase \in Finished
    BY <1>3, CleansOne DEF Cleans
  <2>3. watch' = [step |-> "clean", todo |-> <<>>]
    BY <1>3, <2>2 DEF Cleans, WatchInv, RunInv, NoWatch
  <2> QED
    BY <2>1, <2>2, <2>3 DEF WatchInv, FewInv, RunInv, Bronzes, Index
<1>4. ASSUME WatchInv, watch.step = "clean", watch.todo = <<>>
      PROVE  Len(Bronzes) # 2 /\ \A i \in Index(Bronze) : Bronzes[i].phase \in Finished
  BY <1>4 DEF WatchInv, RunInv, NoWatch
<1>5. ASSUME watch.step = "clean", watch.todo = <<>>, HasName(Bronze), apps' = Created(Bronze),
             errors' \in [Scripts -> Nat]
      PROVE  AppsOK' /\ FewInv'
  <2>1. /\ AppsOK' /\ Len(apps'[Bronze]) = Len(Bronzes) + 1
        /\ \A j \in Index(Bronze) : apps'[Bronze][j] = Bronzes[j]
    BY <1>5, CreatesLast
  <2>2. CASE Len(Bronzes) = 0
    BY <2>1, <2>2 DEF FewInv, Bronzes
  <2>3. CASE Len(Bronzes) = 1
    <3>1. 1 \in Index(Bronze) /\ Bronzes[1].phase \in Finished
      BY <1>4, <1>5, <2>3 DEF Bronzes, Index
    <3> QED
      BY <2>1, <2>3, <3>1 DEF FewInv, Bronzes
  <2> QED
    BY <1>4, <1>5, <2>2, <2>3, FewCases
<1>6. CASE Starts
  BY <1>1, <1>5, <1>6 DEF Starts, WatchInv, RunInv
<1>7. CASE WatchDies
  <2>1. errors' \in [Scripts -> Nat] /\ watch' = NoWatch
    BY <1>1, <1>7 DEF WatchDies, CallFails
  <2>2. CASE apps' = apps
    BY <2>1, <2>2, AppsKept DEF WatchInv, FewInv, RunInv, Bronzes, Index
  <2>3. CASE watch.todo # <<>> /\ apps' = Deleted(Bronze, Head(watch.todo))
    <3>1. AppsOK' /\ Len(apps'[Bronze]) = 1
      BY <2>1, <2>3, DeletesFirst
    <3> QED
      BY <2>1, <3>1 DEF WatchInv, FewInv, RunInv, Bronzes
  <2>4. CASE watch.step = "clean" /\ watch.todo = <<>> /\ HasName(Bronze) /\ apps' = Created(Bronze)
    BY <1>5, <2>1, <2>4 DEF WatchInv, RunInv
  <2> QED
    BY <1>7, <2>2, <2>3, <2>4 DEF WatchDies, CallFails
<1>8. CASE Restarts
  <2>1. PICK i \in Active : apps' = Deleted(Bronze, Bronzes[i].id)
    BY <1>8 DEF Restarts
  <2>2. errors' = errors /\ watch' = watch
    BY <1>8 DEF Restarts
  <2>3. /\ AppsOK' /\ i = Len(Bronzes) /\ Len(apps'[Bronze]) = Len(Bronzes) - 1
    BY <1>1, <2>1, <2>2, RestartsLast
  <2>4. watch = NoWatch
    BY DEF WatchInv, RunInv, Active, IsActive
  <2> QED
    <3>1. Len(Bronzes) - 1 <= 2 /\ Len(Bronzes) - 1 # 2
      <4>1. Len(Bronzes) \in Nat /\ Len(Bronzes) <= 2
        BY <1>1 DEF WatchInv, FewInv
      <4> QED
        BY <4>1, OneLessOfTwo
    <3>2. Len(apps'[Bronze]) <= 2 /\ Len(apps'[Bronze]) # 2
      BY <2>3, <3>1
    <3>3. FewInv'
      BY <3>2 DEF FewInv, Bronzes
    <3> QED
      BY <2>2, <2>3, <2>4, <3>3 DEF WatchInv, RunInv
<1>9. CASE OperatorStep(Bronze) /\ UNCHANGED watch
  <2>1. /\ AppsOK' /\ Len(apps'[Bronze]) = Len(apps[Bronze])
        /\ \A j \in Index(Bronze) :
              /\ apps'[Bronze][j].id = apps[Bronze][j].id
              /\ apps[Bronze][j].phase \in Finished => apps'[Bronze][j] = apps[Bronze][j]
    BY <1>9, OperatorKeepsOK DEF WatchInv
  <2>2. FewInv'
    BY <1>1, <2>1 DEF WatchInv, FewInv, Bronzes, Index
  <2>3. RunInv'
    BY <1>1, <1>9, <2>1 DEF WatchInv, RunInv, Bronzes, Index, NoWatch
  <2> QED
    BY <2>1, <2>2, <2>3 DEF WatchInv
<1>10. CASE UNCHANGED watchVars
  BY <1>1, <1>10, AppsKept DEF watchVars, WatchInv, FewInv, RunInv, Bronzes, Index
<1> QED
  BY <1>2, <1>3, <1>6, <1>7, <1>8, <1>9, <1>10 DEF WatchNext, WatchStep

LEMMA WatchInvAlways == WatchSpec => []WatchInv
  BY InitWatch, WatchStepKeeps, PTL DEF WatchSpec

----------------------------------------------------------------------------
(***************************************************************************)
(* Theorems                                                                *)
(***************************************************************************)

\* Type correctness, which says that a run of ensure_bronze deletes only what
\* is still there and has finished, although it reads the list once.
THEOREM WatchdogTypes == WatchSpec => []WatchTypeOK
  BY WatchInvAlways, WatchType, PTL

\* Only the last application may have a driver that works or will.
LEMMA UnfinishedIsLast ==
  ASSUME WatchInv, NEW i \in Unfinished(Bronze)
  PROVE  i = Len(Bronzes)
<1>1. i \in 1..Len(Bronzes) /\ Bronzes[i].driver \notin Finished
  BY DEF Unfinished, Index, Bronzes
<1>2. Bronzes[i].phase \notin Finished
  BY <1>1, BronzeIsAScript DEF WatchInv, AppsOK, Index, Bronzes, Unfinished
<1>3. CASE Len(Bronzes) = 2
  <2>1. i \in 1..2 /\ i # 1
    BY <1>1, <1>2, <1>3 DEF WatchInv, FewInv
  <2> QED
    BY <1>3, <2>1
<1>4. CASE Len(Bronzes) = 1
  <2>1. i \in 1..1
    BY <1>1, <1>4
  <2> QED
    BY <1>4, <2>1
<1>5. CASE Len(Bronzes) = 0
  <2>1. i \in 1..0
    BY <1>1, <1>5
  <2> QED
    BY <2>1
<1> QED
  BY <1>3, <1>4, <1>5, FewCases

\* ensure_bronze never leads to two bronze drivers on the same checkpoints,
\* whatever calls fail before or after their effect, however the operator lags,
\* and however often somebody restarts the job by deleting its application.
THEOREM OneBronzeDriver == WatchSpec => []OneBronze
<1>1. ASSUME WatchInv
      PROVE  OneBronze
  <2>1. Unfinished(Bronze) \subseteq {Len(Bronzes)}
    BY <1>1, UnfinishedIsLast
  <2>2. IsFiniteSet({Len(Bronzes)}) /\ Cardinality({Len(Bronzes)}) = 1
    BY FS_Singleton
  <2>3. Cardinality(Unfinished(Bronze)) <= Cardinality({Len(Bronzes)})
    BY <2>1, <2>2, FS_Subset
  <2> QED
    BY <2>2, <2>3 DEF OneBronze
<1> QED
  BY <1>1, WatchInvAlways, PTL

\* Bronze applications do not pile up, however often the job fails and runs of
\* ensure_bronze are interrupted.
THEOREM AppsDoNotPileUp == WatchSpec => []FewKept
<1>1. WatchInv => FewKept
  BY DEF WatchInv, FewInv, FewKept
<1> QED
  BY <1>1, WatchInvAlways, PTL

\* The newest finished application of the bronze job is there for inspection
\* until its successor has finished, at whatever call a run of ensure_bronze
\* stops.
THEOREM NewestIsKept == WatchSpec => NewestKept
<1> DEFINE Newest(i) ==
             /\ Bronzes[i].phase \in Finished
             /\ \A j \in Index(Bronze) : j > i => Bronzes[j].driver \notin Finished
           Kept(i) == \E k \in 1..Len(apps'[Bronze]) : apps'[Bronze][k].id = Bronzes[i].id
<1>1. ASSUME WatchInv, WatchNext, NEW i \in Index(Bronze), Newest(i)
      PROVE  Kept(i)
  <2> USE <1>1, BronzeIsAScript
  <2>1. /\ apps[Bronze] \in Seq(App) /\ errors \in [Scripts -> Nat] /\ Len(Bronzes) \in Nat
        /\ i \in 1..Len(Bronzes)
    BY DEF WatchInv, AppsOK, Bronzes, Index
  <2>2. CASE apps' = apps
    BY <2>1, <2>2 DEF Bronzes
  <2>3. CASE watch.todo # <<>> /\ apps' = Deleted(Bronze, Head(watch.todo)) /\ errors' \in [Scripts -> Nat]
    <3>1. Len(apps'[Bronze]) = 1 /\ apps'[Bronze][1] = Bronzes[2]
      BY <2>3, DeletesFirst
    <3>2. /\ Len(Bronzes) = 2 /\ 2 \in Index(Bronze)
          /\ Bronzes[2].phase \in Finished
      BY <2>3, CleansOne
    <3>3. Bronzes[2].driver \in Finished
      BY <3>2 DEF WatchInv, AppsOK, Bronzes
    <3>4. i \in 1..2 /\ i # 1
      BY <2>1, <3>2, <3>3
    <3>5. i = 2
      BY <3>4
    <3>6. 1 \in 1..Len(apps'[Bronze])
      BY <3>1
    <3> QED
      BY <3>1, <3>5, <3>6
  <2>4. CASE HasName(Bronze) /\ apps' = Created(Bronze) /\ errors' \in [Scripts -> Nat]
    <3>1. AppsOK' /\ Len(apps'[Bronze]) = Len(Bronzes) + 1 /\ apps'[Bronze][i] = Bronzes[i]
      BY <2>4, CreatesLast
    <3>2. i \in 1..Len(apps'[Bronze])
      BY <2>1, <3>1
    <3> QED
      BY <3>1, <3>2
  <2>5. CASE Restarts
    <3>1. PICK n \in Active : apps' = Deleted(Bronze, Bronzes[n].id)
      BY <2>5 DEF Restarts
    <3>2. /\ n = Len(Bronzes)
          /\ Len(apps'[Bronze]) = Len(Bronzes) - 1
          /\ \A j \in Index(Bronze) \ {n} : apps'[Bronze][j] = Bronzes[j]
      BY <2>1, <2>5, <3>1, RestartsLast DEF Restarts
    <3>3. i # n
      BY DEF Active, IsActive
    <3>4. i \in 1..Len(apps'[Bronze])
      BY <2>1, <3>2, <3>3
    <3> QED
      BY <3>2, <3>3, <3>4
  <2>6. CASE OperatorStep(Bronze)
    BY <2>1, <2>6, OperatorKeepsOK DEF WatchInv, Bronzes
  <2>7. CASE WatchDies
    <3>1. errors' \in [Scripts -> Nat]
      BY <2>1, <2>7 DEF WatchDies, CallFails
    <3> QED
      BY <2>2, <2>3, <2>4, <2>7, <3>1 DEF WatchDies, CallFails
  <2>8. CASE WatchStep
    BY <2>1, <2>2, <2>3, <2>4, <2>8 DEF WatchStep, Looks, Cleans, Starts
  <2> QED
    BY <2>5, <2>6, <2>7, <2>8 DEF WatchNext
<1>2. WatchInv /\ [WatchNext]_watchVars => [\A i \in Index(Bronze) : Newest(i) => Kept(i)]_watchVars
  BY <1>1
<1>3. WatchInv /\ [WatchNext]_watchVars =>
        [\A i \in Index(Bronze) :
          /\ Bronzes[i].phase \in Finished
          /\ \A j \in Index(Bronze) : j > i => Bronzes[j].driver \notin Finished
          => \E k \in 1..Len(apps'[Bronze]) : apps'[Bronze][k].id = Bronzes[i].id]_watchVars
  BY <1>2
<1> QED
  BY <1>3, WatchInvAlways, PTL DEF WatchSpec, NewestKept
=============================================================================
