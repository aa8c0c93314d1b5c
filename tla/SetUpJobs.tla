----------------------------- MODULE SetUpJobs -----------------------------
(***************************************************************************)
(* The Kubernetes Jobs that set the demo up.  A Job runs a script of calls *)
(* from the first to the last; a call that fails, with or without its      *)
(* effect, ends the attempt, and the next one starts from the first call,  *)
(* until the limit of the Job is reached.                                  *)
(*                                                                         *)
(* Two of the scripts only add what calls after them use: run.py what the  *)
(* statements of trino-init create, configure_openmetadata.py services,    *)
(* pipelines and lineage in OpenMetadata, all of them PUT.                 *)
(***************************************************************************)
EXTENDS Integers, Sequences, Functions

CONSTANTS
    Statements, \* run.py: the statements of all files, in their order
    Creates,    \* statement -> what it creates
    Uses,       \* statement -> what it uses
    Once,       \* the statements that fail when what they create is there
    Topics,     \* the solar topics, in their order
    Backoff     \* job -> how often it is tried again

VARIABLES
    at,         \* job -> the call it is at; 0 if the Job is not run or has given up
    retries,    \* job -> attempts that failed
    there       \* what there is in Trino and OpenMetadata

jobVars == <<at, retries, there>>

Jobs == {"sql", "superset", "metadata"}

ASSUME JobsAssumption ==
    /\ Statements \in Seq(Range(Statements))
    /\ Topics \in Seq(Range(Topics))
    /\ Backoff \in [Jobs -> Nat]

\* A statement uses what those before it create.
ASSUME StatementsAssumption ==
    \A k \in 1..Len(Statements) :
        Uses[Statements[k]] \subseteq {Creates[Statements[j]] : j \in 1..(k - 1)}

Call(needs, gives) == [needs |-> needs, gives |-> gives, once |-> FALSE]
Statement(s, once) == [needs |-> Uses[s], gives |-> {Creates[s]}, once |-> once]
Each(seq, F(_)) == [i \in 1..Len(seq) |-> F(seq[i])]

Service(s) == <<"service", s>>
Topic(t) == <<"topic", t>>
Lineage(t) == <<"lineage", t>>
Pipeline(s) == <<"pipeline", s>>
Deployed(s) == <<"deployed", s>>

\* CREATE without IF NOT EXISTS.
SqlScriptOnce == Each(Statements, LAMBDA s : Statement(s, TRUE))

\* run.py: no file ends the attempt; statements are not undone.
SqlScript ==
    IF Statements = <<>> THEN <<Call({<<"file", "sql">>}, {})>>
    ELSE Each(Statements, LAMBDA s : Statement(s, s \in Once))

Login == <<Call({}, {})>>

EnsureKafka ==
    <<Call({}, {Service("kafka")})>> \o
    Each(Topics, LAMBDA t : Call({Service("kafka")}, {Topic(t)}))

EnsureNifi ==
    <<Call({}, {Service("nifi")}), Call({Service("nifi")}, {Pipeline("nifi")})>> \o
    Each(Topics, LAMBDA t : Call({Pipeline("nifi"), Topic(t)}, {Lineage(t)}))

\* ensure_airflow and ensure_superset
EnsureIngestion(s) ==
    <<Call({}, {Service(s)}), Call({Service(s)}, {Pipeline(s)}),
      Call({Pipeline(s)}, {Deployed(s)})>>

\* What it starts also runs by its own schedule, and is not waited for.
Triggers(s) == <<Call({Pipeline(s), Deployed(s)}, {})>>

MetadataScriptShort ==
    Login \o EnsureKafka \o EnsureNifi \o EnsureIngestion("airflow") \o Triggers("trino") \o Triggers("airflow")

MetadataScript ==
    Login \o EnsureKafka \o EnsureNifi \o EnsureIngestion("airflow") \o EnsureIngestion("superset") \o
    Triggers("trino") \o Triggers("airflow") \o Triggers("superset")

\* The Job's pod gets the answer.
Passes(j) ==
    /\ at' = [at EXCEPT ![j] = @ + 1]
    /\ UNCHANGED retries

\* An exception, a non-zero exit or the end of the pod; restartPolicy OnFailure.
Aborts(j) ==
    /\ at' = [at EXCEPT ![j] = IF retries[j] < Backoff[j] THEN 1 ELSE 0]
    /\ retries' = [retries EXCEPT ![j] = IF @ < Backoff[j] THEN @ + 1 ELSE @]

Possible(call) == call.needs \subseteq there /\ (call.once => ~(call.gives \subseteq there))

Makes(j, script) ==
    /\ at[j] \in 1..Len(script)
    /\ LET call == script[at[j]]
       IN  \/ /\ Possible(call)
              /\ there' = there \union call.gives
              /\ Passes(j) \/ Aborts(j)
           \/ /\ UNCHANGED there
              /\ Aborts(j)

RunsSql == Makes("sql", SqlScript)
RunsMetadata == Makes("metadata", MetadataScript)

SqlDone == at["sql"] = Len(SqlScript) + 1
MetadataDone == at["metadata"] = Len(MetadataScript) + 1
=============================================================================
