----------------------------- MODULE ForecastSync -----------------------------
(***************************************************************************)
(* How the forecasts computed in BigQuery reach the PostgreSQL table that  *)
(* the API reads: step 5 of the orchestrator (product by product, one      *)
(* transaction each) and scripts/sync_forecasts.py (one transaction for a  *)
(* product or for the whole table), beside retrainings that replace the    *)
(* BigQuery table.  The transactions are those of ReplaceTx.               *)
(***************************************************************************)
EXTENDS Naturals

CONSTANTS
  Products,
  Orchestrators,        \* executions of Orchestrator.run, at their step 5
  Scripts,              \* executions of scripts/sync_forecasts.py
  MaxVersion,           \* bound: forecasts_30d is replaced MaxVersion - 1 times
  BqRows,               \* BqRows[v]: products with rows in version v of forecasts_30d
  Seed, NoRows,         \* see ReplaceTx
  Converting,           \* orchestrators whose driver takes "2024-01-31" for a DATE
  MaxFaults             \* bound: failing queries, lost connections, crashes

Versions == 1 .. MaxVersion

ASSUME VersionsAssumption == MaxVersion \in Nat \ {0}
ASSUME WritersAssumption == Orchestrators \cap Scripts = {}
ASSUME BqRowsAssumption == BqRows \in [Versions -> SUBSET Products]
ASSUME ConvertingAssumption == Converting \subseteq Orchestrators
ASSUME FaultsAssumption == MaxFaults \in Nat

Writers == Orchestrators \cup Scripts
One(p) == {p}

(* A transaction is known by its writer, its scope and the version of the  *)
(* BigQuery table its rows were fetched from.                              *)
Txns ==
  [by : Orchestrators, scope : {One(p) : p \in Products}, version : Versions] \cup
  [by : Scripts, scope : {Products} \cup {One(p) : p \in Products}, version : Versions]

ASSUME SeedAssumption == Seed \notin Txns /\ NoRows \notin Txns \cup {Seed}

Scope == [t \in Txns |-> t.scope]
Fresh == [t \in Txns |-> t.scope \cap BqRows[t.version]]
Serialised == FALSE

VARIABLES
  live, pc, todo, mine, before,   \* the table and its transactions (ReplaceTx)
  bq,      \* version of forecasts_30d in BigQuery
  stage,   \* of each writer
  plan,    \* orchestrator: products of its list still to be fetched
  txn,     \* the transaction a writer is about to run or runs
  faults,
  overlap  \* history: a writer or a retraining began while a writer was busy

table == <<live, pc, todo, mine, before>>
vars == <<live, pc, todo, mine, before, bq, stage, plan, txn, faults, overlap>>

NoTxn == [by |-> Seed]

Tx == INSTANCE ReplaceTx

Busy(w) == stage[w] \notin {"idle", "done", "failed"}
Begins == overlap' = (overlap \/ \E u \in Writers : Busy(u))
Goes(w, to) == stage' = [stage EXCEPT ![w] = to]

Init ==
  /\ Tx!Init
  /\ bq = 1
  /\ stage = [w \in Writers |-> "idle"]
  /\ plan = [w \in Orchestrators |-> {}]
  /\ txn = [w \in Writers |-> NoTxn]
  /\ faults = 0
  /\ overlap = FALSE

-----------------------------------------------------------------------------
(* CREATE OR REPLACE TABLE forecasts_30d: step 4 of a run, or run_bqml.py. *)
Retrain ==
  /\ bq + 1 \in Versions
  /\ Begins
  /\ bq' = bq + 1
  /\ UNCHANGED <<table, stage, plan, txn, faults>>

(* _list_products: SELECT DISTINCT product_id *)
ListProducts(w) ==
  /\ w \in Orchestrators
  /\ stage[w] = "idle"
  /\ Begins
  /\ Goes(w, "listed")
  /\ plan' = [plan EXCEPT ![w] = BqRows[bq]]
  /\ UNCHANGED <<table, bq, txn, faults>>

Fetched(w, scope) ==
  /\ txn' = [txn EXCEPT ![w] = [by |-> w, scope |-> scope, version |-> bq]]
  /\ Goes(w, "fetched")

(* Mutant: the rows come from a cache of the first table. *)
FetchCachedForecasts(w) ==
  /\ w \in Orchestrators
  /\ stage[w] = "listed"
  /\ \E p \in plan[w] \cap BqRows[1] :
       /\ plan' = [plan EXCEPT ![w] = @ \ {p}]
       /\ txn' = [txn EXCEPT ![w] = [by |-> w, scope |-> One(p), version |-> 1]]
  /\ Goes(w, "fetched")
  /\ UNCHANGED <<table, bq, faults, overlap>>

(* fetch_forecasts reads the table as it is now; "if not rows: continue"   *)
(* leaves what PostgreSQL has for the product.                             *)
FetchForecasts(w) ==
  /\ w \in Orchestrators
  /\ stage[w] = "listed"
  /\ \E p \in plan[w] :
       /\ plan' = [plan EXCEPT ![w] = @ \ {p}]
       /\ IF p \in BqRows[bq] THEN Fetched(w, One(p)) ELSE UNCHANGED <<stage, txn>>
  /\ UNCHANGED <<table, bq, faults, overlap>>

(* Mutant: the loop returns where it should continue. *)
SyncedSome(w) ==
  /\ w \in Orchestrators
  /\ stage[w] = "listed"
  /\ Goes(w, "done")
  /\ UNCHANGED <<table, bq, plan, txn, faults, overlap>>

SyncedAll(w) ==
  /\ w \in Orchestrators
  /\ stage[w] = "listed"
  /\ plan[w] = {}
  /\ Goes(w, "done")
  /\ UNCHANGED <<table, bq, plan, txn, faults, overlap>>

(* sync_forecasts.py fetches once; without rows it deletes nothing. *)
ScriptFetches(w) ==
  /\ w \in Scripts
  /\ stage[w] = "idle"
  /\ Begins
  /\ \E scope \in {Products} \cup {One(p) : p \in Products} :
       IF scope \cap BqRows[bq] # {} THEN Fetched(w, scope)
       ELSE Goes(w, "done") /\ UNCHANGED txn
  /\ UNCHANGED <<table, bq, plan, faults>>

-----------------------------------------------------------------------------
DeleteOld(w) ==
  /\ stage[w] = "fetched"
  /\ Tx!BeginDelete(txn[w])
  /\ Goes(w, "replacing")
  /\ UNCHANGED <<bq, plan, txn, faults, overlap>>

(* Mutant: the DELETE has a transaction of its own. *)
DeleteOldRowAutocommit(w) ==
  /\ stage[w] = "replacing"
  /\ \E b \in todo[txn[w]] :
       /\ todo' = [todo EXCEPT ![txn[w]] = @ \ {b}]
       /\ live' = live \ {b}
  /\ UNCHANGED <<pc, mine, before, bq, stage, plan, txn, faults, overlap>>

DeleteOldRow(w) ==
  /\ stage[w] = "replacing"
  /\ Tx!DeleteRow(txn[w])
  /\ UNCHANGED <<bq, stage, plan, txn, faults, overlap>>

(* fetch_forecasts casts forecast_date to STRING and the orchestrator puts *)
(* the string in the Date column; the script passes BigQuery's date.       *)
RowsAreBindable(w) == w \in Scripts \cup Converting

InsertNew(w) ==
  /\ stage[w] = "replacing"
  /\ RowsAreBindable(w)
  /\ Tx!InsertAndCommit(txn[w])
  /\ Goes(w, IF w \in Orchestrators THEN "listed" ELSE "done")
  /\ txn' = [txn EXCEPT ![w] = NoTxn]
  /\ UNCHANGED <<bq, plan, faults, overlap>>

(* Mutant: the DELETE is committed before the INSERT is tried. *)
InsertRejectedAfterDelete(w) ==
  /\ stage[w] = "replacing"
  /\ todo[txn[w]] = {}
  /\ ~RowsAreBindable(w)
  /\ live' = live \ mine[txn[w]]
  /\ pc' = [pc EXCEPT ![txn[w]] = "aborted"]
  /\ mine' = [mine EXCEPT ![txn[w]] = {}]
  /\ Goes(w, "failed")
  /\ txn' = [txn EXCEPT ![w] = NoTxn]
  /\ UNCHANGED <<todo, before, bq, plan, faults, overlap>>

(* The INSERT raises, the session rolls back, and the run is over. *)
InsertRejected(w) ==
  /\ stage[w] = "replacing"
  /\ todo[txn[w]] = {}
  /\ ~RowsAreBindable(w)
  /\ Tx!Fail(txn[w])
  /\ Goes(w, "failed")
  /\ txn' = [txn EXCEPT ![w] = NoTxn]
  /\ UNCHANGED <<bq, plan, faults, overlap>>

(* A query that fails after its retries, a lost connection, a transaction  *)
(* chosen as deadlock victim, a dead process.                              *)
Fault(w) ==
  /\ Busy(w)
  /\ faults < MaxFaults
  /\ faults' = faults + 1
  /\ Goes(w, "failed")
  /\ IF stage[w] = "replacing" THEN Tx!Fail(txn[w]) ELSE UNCHANGED table
  /\ txn' = [txn EXCEPT ![w] = NoTxn]
  /\ UNCHANGED <<bq, plan, overlap>>

Next ==
  \/ Retrain
  \/ \E w \in Writers :
       \/ ListProducts(w) \/ FetchForecasts(w) \/ SyncedAll(w)
       \/ ScriptFetches(w)
       \/ DeleteOld(w) \/ DeleteOldRow(w) \/ InsertNew(w) \/ InsertRejected(w)
       \/ Fault(w)

Spec == Init /\ [][Next]_vars

-----------------------------------------------------------------------------
Stages == {"idle", "listed", "fetched", "replacing", "done", "failed"}

TypeOK ==
  /\ Tx!TypeOK
  /\ bq \in Versions
  /\ stage \in [Writers -> Stages]
  /\ plan \in [Orchestrators -> SUBSET Products]
  /\ txn \in [Writers -> Txns \cup {NoTxn}]
  /\ faults \in 0 .. MaxFaults
  /\ overlap \in BOOLEAN

VersionsOf(p) == {IF b.by = Seed THEN 0 ELSE b.by.version : b \in Tx!BatchesOf(p)}

(* The writers use the table only through replacement transactions, so     *)
(* every theorem about ReplaceTx is one about the forecasts.               *)
TransactionsReplace == Tx!Spec

(* Step 5 "syncs BQ forecast rows to PostgreSQL" (orchestrator.py:20): an  *)
(* orchestrator that ends without an overlap leaves, for every product of  *)
(* the BigQuery table, the rows of the table's version and no others.      *)
EndedSyncIsComplete ==
  [][\A w \in Orchestrators :
       stage[w] # "done" /\ stage'[w] = "done" /\ ~overlap =>
         \A p \in BqRows[bq] : VersionsOf(p) = {bq}]_vars

(* The table never goes back to an older version of a product's forecast,  *)
(* whichever writers and retrainings follow one another.                   *)
ForecastsNeverAge ==
  [][~overlap => \A p \in Products : \A v \in VersionsOf(p)' :
       v \in VersionsOf(p) \/ \A u \in VersionsOf(p) : u <= v]_vars

(* A sync that fails on a product, at whatever point, leaves the rows that *)
(* readers had: deleted rows come back with the rollback.                  *)
FailureKeepsRows ==
  [][\A w \in Writers :
       stage[w] # "failed" /\ stage'[w] = "failed" => live' = live]_vars

(* Without faults, step 5 of the pipeline does not fail. *)
SyncSucceeds == \A w \in Orchestrators : stage[w] = "failed" => faults > 0
=============================================================================
