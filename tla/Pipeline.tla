------------------------------- MODULE Pipeline -------------------------------
(***************************************************************************)
(* The stages of the pipeline (pipeline/orchestrator.py): ETL, view,       *)
(* training, forecast and evaluation in BigQuery, then the copy of the     *)
(* forecasts to PostgreSQL and one summary per product.  Several           *)
(* orchestrators may run, beside scripts/run_bqml.py, which executes       *)
(* BigQuery statements, and beside generations of single summaries: API    *)
(* requests and the members of a batch of scripts/sync_narratives.py.      *)
(*                                                                         *)
(* An artefact is known by the version of the raw sales it was made from   *)
(* (0: there is none).  A statement runs as a job in BigQuery, which reads *)
(* its input when it starts and replaces its output when it ends.  The     *)
(* client waits for it, but may lose it and send another one.              *)
(*                                                                         *)
(* Replacing the rows of a product is one step here: ReplaceTx looks into  *)
(* it, and ForecastSync into a copy while products come and go.            *)
(***************************************************************************)
EXTENDS Naturals, FiniteSets

CONSTANTS
  Orchestrators, \* each executes run() again and again
  Scripts,       \* the same for run_bqml
  Generators,    \* generations of a summary outside the pipeline
  Products,
  None,          \* no product
  Attempts,      \* tries of a statement: stop_after_attempt of bq/client.py
  MaxRaw,        \* bound: versions of the raw sales
  MaxLost        \* bound: jobs nobody waits for, at a time

Callers == Orchestrators \cup Scripts
Writers == Orchestrators \cup Generators

ASSUME KindsAssumption ==
  /\ Orchestrators \cap Scripts = {} /\ Callers \cap Generators = {}
  /\ None \notin Products
ASSUME BoundsAssumption == Attempts \in Nat \ {0} /\ MaxRaw \in Nat \ {0} /\ MaxLost \in Nat

VARIABLES
  raw,       \* the CSV files in Cloud Storage
  sales,     \* sales_clean
  view,      \* whether v_daily_sales exists
  model,     \* arima_sales_model
  table,     \* forecasts_30d
  job,       \* the job a caller waits for, by what it has read; 0: it is over
  lost,      \* jobs that run on although nobody waits for them any more
  stage,     \* of a caller
  whole,     \* whether a caller goes on to the next stage
  sent,      \* whether it waits for a job
  tries,     \* failed attempts of its statement
  todo,      \* products a loop of an orchestrator has still to visit
  item,      \* the product a writer is at
  rows,      \* and the forecast it has read for it
  forecasts, \* PostgreSQL, by product
  summaries, \* the forecast a product's summary describes
  origin,    \* history: the raw sales of an orchestrator's run
  alone,     \* history: callers whose last start met no run and no job, and
             \*   that nobody has joined since
  mixed,     \* history: runs have overlapped
  overtaken  \* history: writers whose product got another summary meanwhile

calls == <<stage, whole, sent, tries>>
loops == <<todo, item, rows>>
history == <<origin, alone, mixed, overtaken>>
vars == <<raw, sales, view, model, table, job, lost, calls, loops, forecasts,
          summaries, history>>

Statements == {"etl", "view", "train", "forecast", "evaluate"}
Ended == {"done", "failed"}

NextStage ==
  [etl |-> "view", view |-> "train", train |-> "forecast",
   forecast |-> "evaluate", evaluate |-> "sync"]

After(w) ==
  IF ~whole[w] \/ (w \in Scripts /\ stage[w] = "evaluate")
  THEN "done" ELSE NextStage[stage[w]]

(* What a statement reads; 0 when an object it names does not exist. *)
Input(k) ==
  CASE k = "etl" -> raw
    [] k = "view" -> sales
    [] k = "train" -> IF view THEN sales ELSE 0
    [] k \in {"forecast", "evaluate"} -> model

(* A caller turns from its job, which may go on.  That of an evaluation    *)
(* does not matter then.                                                   *)
Own(w) ==
  IF job[w] = 0 \/ stage[w] = "evaluate" THEN {}
  ELSE {[kind |-> stage[w], input |-> job[w]]}

Turn(w) ==
  /\ lost' \in {lost, lost \cup Own(w)} /\ Cardinality(lost') <= MaxLost
  /\ job' = [job EXCEPT ![w] = 0]
  /\ sent' = [sent EXCEPT ![w] = FALSE]

(* The ETL has no retry around it. *)
Limit(k) == IF k = "etl" THEN 1 ELSE Attempts

Init ==
  /\ raw = 1 /\ sales = 0 /\ view = FALSE /\ model = 0 /\ table = 0
  /\ job = [w \in Callers |-> 0] /\ lost = {}
  /\ stage = [w \in Callers |-> "done"]
  /\ whole = [w \in Callers |-> TRUE]
  /\ sent = [w \in Callers |-> FALSE]
  /\ tries = [w \in Callers |-> 0]
  /\ todo = [w \in Orchestrators |-> {}]
  /\ item = [w \in Writers |-> None]
  /\ rows = [w \in Writers |-> 0]
  /\ forecasts = [p \in Products |-> 0]
  /\ summaries = [p \in Products |-> 0]
  /\ origin = [w \in Orchestrators |-> 0]
  /\ alone = {} /\ mixed = FALSE /\ overtaken = {}

-----------------------------------------------------------------------------
NewSales ==
  /\ raw < MaxRaw
  /\ raw' = raw + 1
  /\ UNCHANGED <<sales, view, model, table, job, lost, calls, loops, forecasts,
                 summaries, history>>

Busy == {w \in Callers : stage[w] \notin Ended}

Start(w, k, all) ==
  /\ stage[w] \in Ended
  /\ stage' = [stage EXCEPT ![w] = k]
  /\ whole' = [whole EXCEPT ![w] = all]
  /\ alone' = IF Busy = {} /\ lost = {} THEN {w} ELSE {}
  /\ mixed' = (mixed \/ Busy # {} \/ lost # {})
  /\ UNCHANGED <<raw, sales, view, model, table, job, lost, sent, tries, loops,
                 forecasts, summaries, origin, overtaken>>

StartRun(w) == Start(w, "etl", TRUE)

(* --step all, or one step. *)
StartScript(w) ==
  \/ Start(w, "view", TRUE)
  \/ \E k \in Statements \ {"etl"} : Start(w, k, FALSE)

(* client.query, or the start of the Beam pipeline. *)
Submit(w) ==
  /\ stage[w] \in Statements /\ ~sent[w]
  /\ Input(stage[w]) # 0
  /\ job' = [job EXCEPT ![w] = Input(stage[w])]
  /\ sent' = [sent EXCEPT ![w] = TRUE]
  /\ origin' = IF stage[w] = "etl" THEN [origin EXCEPT ![w] = raw] ELSE origin
  /\ UNCHANGED <<raw, sales, view, model, table, lost, stage, whole, tries, loops,
                 forecasts, summaries, alone, mixed, overtaken>>

(* WRITE_TRUNCATE and CREATE OR REPLACE: old content until the end. *)
Write(kind, input) ==
  /\ sales' = IF kind = "etl" THEN input ELSE sales
  /\ view' = (view \/ kind = "view")
  /\ model' = IF kind = "train" THEN input ELSE model
  /\ table' = IF kind = "forecast" THEN input ELSE table

JobEnds(w) ==
  /\ job[w] # 0
  /\ Write(stage[w], job[w])
  /\ job' = [job EXCEPT ![w] = 0]
  /\ UNCHANGED <<raw, lost, calls, loops, forecasts, summaries, history>>

LostJobEnds ==
  \E j \in lost :
    /\ Write(j.kind, j.input) \/ UNCHANGED <<sales, view, model, table>>
    /\ lost' = lost \ {j}
    /\ UNCHANGED <<raw, job, calls, loops, forecasts, summaries, history>>

(* The job has ended and its caller is told.  With the last statement an   *)
(* orchestrator goes on to list the products of the forecast.              *)
Answered(w) ==
  /\ sent[w] /\ job[w] = 0
  /\ stage' = [stage EXCEPT ![w] = After(w)]
  /\ sent' = [sent EXCEPT ![w] = FALSE]
  /\ tries' = [tries EXCEPT ![w] = 0]
  /\ todo' = IF After(w) = "sync" THEN [todo EXCEPT ![w] = Products] ELSE todo
  /\ UNCHANGED <<raw, sales, view, model, table, job, lost, whole, item, rows,
                 forecasts, summaries, history>>

(* Mutant: DROP and CREATE instead of CREATE OR REPLACE. *)
FailureDrops(w) ==
  LET last == tries[w] + 1 >= Limit(stage[w]) IN
  /\ stage[w] \in Statements
  /\ Turn(w)
  /\ table' = IF sent[w] /\ stage[w] = "forecast" THEN 0 ELSE table
  /\ stage' = IF last THEN [stage EXCEPT ![w] = "failed"] ELSE stage
  /\ tries' = [tries EXCEPT ![w] = IF last THEN 0 ELSE @ + 1]
  /\ UNCHANGED <<raw, sales, view, model, whole, loops, forecasts, summaries, history>>

(* Mutant: the last failure is logged and the run goes on. *)
LastFailureIgnored(w) ==
  LET last == tries[w] + 1 >= Limit(stage[w]) IN
  /\ stage[w] \in Statements
  /\ Turn(w)
  /\ stage' = IF last THEN [stage EXCEPT ![w] = After(w)] ELSE stage
  /\ todo' = IF last /\ After(w) = "sync" THEN [todo EXCEPT ![w] = Products] ELSE todo
  /\ tries' = [tries EXCEPT ![w] = IF last THEN 0 ELSE @ + 1]
  /\ UNCHANGED <<raw, sales, view, model, table, whole, item, rows, forecasts,
                 summaries, history>>

(* The job fails, or its caller loses it: it may go on, or have ended.     *)
(* After the last attempt the exception ends the run.                      *)
StatementRaises(w) ==
  LET last == tries[w] + 1 >= Limit(stage[w]) IN
  /\ stage[w] \in Statements
  /\ Turn(w)
  /\ stage' = IF last THEN [stage EXCEPT ![w] = "failed"] ELSE stage
  /\ tries' = [tries EXCEPT ![w] = IF last THEN 0 ELSE @ + 1]
  /\ UNCHANGED <<raw, sales, view, model, table, whole, loops, forecasts,
                 summaries, history>>

-----------------------------------------------------------------------------
(* The loops over the products *)

FetchForecasts(w, p) ==
  /\ stage[w] = "sync" /\ item[w] = None /\ p \in todo[w]
  /\ item' = [item EXCEPT ![w] = p]
  /\ rows' = [rows EXCEPT ![w] = table]
  /\ UNCHANGED <<raw, sales, view, model, table, job, lost, calls, todo, forecasts,
                 summaries, history>>

Leave(w) ==
  /\ item' = [item EXCEPT ![w] = None]
  /\ rows' = [rows EXCEPT ![w] = 0]
  /\ todo' = IF w \in Orchestrators THEN [todo EXCEPT ![w] = @ \ {item[w]}] ELSE todo
  /\ overtaken' = overtaken \ {w}

ReplaceForecasts(w) ==
  /\ stage[w] = "sync" /\ item[w] # None
  /\ forecasts' = [forecasts EXCEPT ![item[w]] = rows[w]]
  /\ Leave(w)
  /\ UNCHANGED <<raw, sales, view, model, table, job, lost, calls, summaries,
                 origin, alone, mixed>>

(* An exception of the listing, of a fetch or of a transaction.  A fetch   *)
(* reads only, so its retries change nothing and are left out.             *)
SyncRaises(w) ==
  /\ stage[w] = "sync"
  /\ stage' = [stage EXCEPT ![w] = "failed"]
  /\ todo' = [todo EXCEPT ![w] = {}]
  /\ item' = [item EXCEPT ![w] = None]
  /\ rows' = [rows EXCEPT ![w] = 0]
  /\ UNCHANGED <<raw, sales, view, model, table, job, lost, whole, sent, tries,
                 forecasts, summaries, history>>

(* The loop of step 5 is over; step 6 lists what PostgreSQL has.  When its *)
(* loop is over, so is the run.                                            *)
LoopEnds(w) ==
  /\ stage[w] \in {"sync", "narratives"} /\ item[w] = None /\ todo[w] = {}
  /\ stage' = [stage EXCEPT ![w] = IF @ = "sync" THEN "narratives" ELSE "done"]
  /\ todo' = [todo EXCEPT ![w] =
       IF stage[w] = "sync" THEN {p \in Products : forecasts[p] # 0} ELSE {}]
  /\ UNCHANGED <<raw, sales, view, model, table, job, lost, whole, sent, tries, item,
                 rows, forecasts, summaries, history>>

MayDescribe(w, p) ==
  /\ item[w] = None /\ forecasts[p] # 0
  /\ w \in Orchestrators => stage[w] = "narratives" /\ p \in todo[w]

(* Mutant: the summary is given the rows of the warehouse. *)
ReadWarehouse(w, p) ==
  /\ MayDescribe(w, p)
  /\ item' = [item EXCEPT ![w] = p]
  /\ rows' = [rows EXCEPT ![w] = table]
  /\ UNCHANGED <<raw, sales, view, model, table, job, lost, calls, todo, forecasts,
                 summaries, history>>

(* The rows are read and the LLM is asked. *)
ReadForecast(w, p) ==
  /\ MayDescribe(w, p)
  /\ item' = [item EXCEPT ![w] = p]
  /\ rows' = [rows EXCEPT ![w] = forecasts[p]]
  /\ UNCHANGED <<raw, sales, view, model, table, job, lost, calls, todo, forecasts,
                 summaries, history>>

Describes(w) == item[w] # None /\ (w \in Orchestrators => stage[w] = "narratives")

SaveNarrative(w) ==
  LET p == item[w]
      others == {v \in Writers \ {w} : Describes(v) /\ item[v] = p} IN
  /\ Describes(w)
  /\ summaries' = [summaries EXCEPT ![p] = rows[w]]
  /\ item' = [item EXCEPT ![w] = None]
  /\ rows' = [rows EXCEPT ![w] = 0]
  /\ todo' = IF w \in Orchestrators THEN [todo EXCEPT ![w] = @ \ {p}] ELSE todo
  /\ overtaken' = (overtaken \cup others) \ {w}
  /\ UNCHANGED <<raw, sales, view, model, table, job, lost, calls, forecasts, origin,
                 alone, mixed>>

(* The LLM or the transaction raises: 502, a logged line, "skipping". *)
NarrativeRaises(w) ==
  /\ Describes(w)
  /\ Leave(w)
  /\ UNCHANGED <<raw, sales, view, model, table, job, lost, calls, forecasts,
                 summaries, origin, alone, mixed>>

(* The process of a caller dies; its jobs do not. *)
Crash(w) ==
  /\ stage[w] \notin Ended
  /\ Turn(w)
  /\ stage' = [stage EXCEPT ![w] = "failed"]
  /\ tries' = [tries EXCEPT ![w] = 0]
  /\ todo' = [v \in Orchestrators |-> IF v = w THEN {} ELSE todo[v]]
  /\ item' = [v \in Writers |-> IF v = w THEN None ELSE item[v]]
  /\ rows' = [v \in Writers |-> IF v = w THEN 0 ELSE rows[v]]
  /\ overtaken' = overtaken \ {w}
  /\ UNCHANGED <<raw, sales, view, model, table, whole, forecasts,
                 summaries, origin, alone, mixed>>

StatementStep(w) == Submit(w) \/ Answered(w) \/ StatementRaises(w)

SyncStep(w) ==
  \/ \E p \in Products : FetchForecasts(w, p)
  \/ ReplaceForecasts(w)
  \/ SyncRaises(w)
  \/ LoopEnds(w)

NarrativeStep(w) ==
  \/ \E p \in Products : ReadForecast(w, p)
  \/ SaveNarrative(w)
  \/ NarrativeRaises(w)

Next ==
  \/ NewSales
  \/ \E w \in Orchestrators : StartRun(w) \/ SyncStep(w)
  \/ \E w \in Scripts : StartScript(w)
  \/ \E w \in Callers : StatementStep(w) \/ Crash(w)
  \/ \E w \in Writers : NarrativeStep(w)
  \/ \E w \in Callers : JobEnds(w)
  \/ LostJobEnds

Spec == Init /\ [][Next]_vars

-----------------------------------------------------------------------------
Versions == 0 .. MaxRaw

TypeOK ==
  /\ raw \in 1 .. MaxRaw
  /\ {sales, model, table} \subseteq Versions
  /\ view \in BOOLEAN
  /\ job \in [Callers -> Versions]
  /\ lost \subseteq [kind : Statements \ {"evaluate"}, input : 1 .. MaxRaw]
  /\ stage \in [Callers -> Statements \cup {"sync", "narratives"} \cup Ended]
  /\ \A w \in Scripts : stage[w] \in (Statements \ {"etl"}) \cup Ended
  /\ whole \in [Callers -> BOOLEAN]
  /\ sent \in [Callers -> BOOLEAN]
  /\ tries \in [Callers -> 0 .. Attempts - 1]
  /\ todo \in [Orchestrators -> SUBSET Products]
  /\ item \in [Writers -> Products \cup {None}]
  /\ rows \in [Writers -> Versions]
  /\ forecasts \in [Products -> Versions]
  /\ summaries \in [Products -> Versions]
  /\ origin \in [Orchestrators -> Versions]
  /\ alone \subseteq Callers
  /\ mixed \in BOOLEAN
  /\ overtaken \subseteq Writers

(* As long as runs and lost jobs have not overlapped, nothing is newer     *)
(* than what it is made from, whatever fails, is repeated or dies on the   *)
(* way from the raw sales to the summary.                                  *)
Lineage ==
  ~mixed =>
    /\ raw >= sales /\ sales >= model /\ model >= table
    /\ \A p \in Products : table >= forecasts[p] /\ forecasts[p] >= summaries[p]

(* Then nothing is ever replaced by something older either, except that a  *)
(* slow generation overwrites the summary another writer has saved         *)
(* meanwhile.                                                              *)
NothingAges ==
  [][~mixed' =>
       /\ sales' >= sales /\ model' >= model /\ table' >= table
       /\ \A p \in Products :
            /\ forecasts'[p] >= forecasts[p]
            /\ summaries'[p] < summaries[p] => \E w \in overtaken : item[w] = p]_vars

(* A run that nobody joined, and that found no lost job when it started,   *)
(* ends with the raw sales of its ETL in every artefact, however often its *)
(* statements were repeated and whatever state earlier runs left behind.   *)
LoneRunIsEndToEnd ==
  [][\A w \in Orchestrators \cap alone :
       stage[w] = "narratives" /\ stage'[w] = "done" =>
         /\ {sales, model, table} = {origin[w]}
         /\ \A p \in Products : forecasts[p] = origin[w]]_vars
=============================================================================
