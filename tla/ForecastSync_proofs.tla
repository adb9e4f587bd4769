------------------------- MODULE ForecastSync_proofs -------------------------
(***************************************************************************)
(* The forecast writers run the transactions of ReplaceTx and nothing else *)
(* on the table, so what ReplaceTx_proofs establishes holds for them; and  *)
(* while nothing overlaps, the table follows BigQuery's.                   *)
(***************************************************************************)
EXTENDS ForecastSync, TLAPS

TxProofs == INSTANCE ReplaceTx_proofs

(* A writer that is about to run, or runs, a transaction has one.          *)
HasTxn ==
  /\ bq \in Versions
  /\ stage \in [Writers -> Stages]
  /\ txn \in [Writers -> Txns \cup {NoTxn}]
  /\ \A w \in Writers : stage[w] \in {"fetched", "replacing"} => txn[w] \in Txns

LEMMA HasTxnInit == Init => HasTxn
BY VersionsAssumption DEF Init, HasTxn, Stages, Versions

LEMMA HasTxnStep == HasTxn /\ [Next]_vars => HasTxn'
<1> SUFFICES ASSUME HasTxn, [Next]_vars PROVE HasTxn'
  OBVIOUS
<1> USE DEF HasTxn, Stages, Goes
<1>1. ASSUME NEW w \in Orchestrators, NEW p \in Products
      PROVE  [by |-> w, scope |-> One(p), version |-> bq] \in Txns
  BY DEF Txns
<1>2. ASSUME NEW w \in Scripts, NEW s \in {Products} \cup {One(p) : p \in Products}
      PROVE  [by |-> w, scope |-> s, version |-> bq] \in Txns
  BY DEF Txns
<1>3. CASE Retrain
  BY <1>3 DEF Retrain
<1>4. ASSUME NEW w \in Writers, ListProducts(w) \/ SyncedAll(w) PROVE HasTxn'
  BY <1>4 DEF ListProducts, SyncedAll
<1>5. ASSUME NEW w \in Writers, FetchForecasts(w), BqRowsAssumption PROVE HasTxn'
  <2>1. PICK p \in plan[w] :
          IF p \in BqRows[bq] THEN Fetched(w, One(p)) ELSE UNCHANGED <<stage, txn>>
    BY <1>5 DEF FetchForecasts
  <2>2. w \in Orchestrators /\ bq' = bq
    BY <1>5 DEF FetchForecasts
  <2>3. CASE p \in BqRows[bq]
    <3>1. p \in Products
      BY <2>3, BqRowsAssumption
    <3>2. [by |-> w, scope |-> One(p), version |-> bq] \in Txns
      BY <1>1, <2>2, <3>1
    <3> HIDE DEF One
    <3> QED
      BY <2>1, <2>2, <2>3, <3>2 DEF Fetched
  <2>4. CASE p \notin BqRows[bq]
    BY <2>1, <2>2, <2>4
  <2> QED
    BY <2>3, <2>4
<1>6. ASSUME NEW w \in Writers, ScriptFetches(w) PROVE HasTxn'
  <2>1. PICK scope \in {Products} \cup {One(p) : p \in Products} :
          IF scope \cap BqRows[bq] # {} THEN Fetched(w, scope)
          ELSE Goes(w, "done") /\ UNCHANGED txn
    BY <1>6 DEF ScriptFetches
  <2>2. w \in Scripts /\ bq' = bq
    BY <1>6 DEF ScriptFetches
  <2>3. [by |-> w, scope |-> scope, version |-> bq] \in Txns
    BY <1>2, <2>2
  <2> QED
    BY <2>1, <2>2, <2>3 DEF Fetched
<1>7. ASSUME NEW w \in Writers, DeleteOld(w) \/ DeleteOldRow(w) PROVE HasTxn'
  BY <1>7 DEF DeleteOld, DeleteOldRow
<1>8. ASSUME NEW w \in Writers, InsertNew(w) \/ InsertRejected(w) \/ Fault(w) PROVE HasTxn'
  BY <1>8 DEF InsertNew, InsertRejected, Fault
<1>9. CASE UNCHANGED vars
  BY <1>9 DEF vars
<1> QED
  BY <1>3, <1>4, <1>5, <1>6, <1>7, <1>8, <1>9, BqRowsAssumption DEF Next

(* What a step does to the table is a step of ReplaceTx, or nothing. *)
LEMMA TableSteps ==
  ASSUME HasTxn, [Next]_vars
  PROVE  (\E t \in Txns : \/ Tx!BeginDelete(t) \/ Tx!DeleteRow(t)
                          \/ Tx!InsertAndCommit(t) \/ Tx!Fail(t))
           \/ UNCHANGED table
<1> USE DEF HasTxn
<1>1. ASSUME NEW w \in Writers, DeleteOld(w) PROVE txn[w] \in Txns /\ Tx!BeginDelete(txn[w])
  BY <1>1 DEF DeleteOld
<1>2. ASSUME NEW w \in Writers, DeleteOldRow(w) PROVE txn[w] \in Txns /\ Tx!DeleteRow(txn[w])
  BY <1>2 DEF DeleteOldRow
<1>3. ASSUME NEW w \in Writers, InsertNew(w)
      PROVE  txn[w] \in Txns /\ Tx!InsertAndCommit(txn[w])
  BY <1>3 DEF InsertNew
<1>4. ASSUME NEW w \in Writers, InsertRejected(w) PROVE txn[w] \in Txns /\ Tx!Fail(txn[w])
  BY <1>4 DEF InsertRejected
<1>5. ASSUME NEW w \in Writers, Fault(w)
      PROVE  (txn[w] \in Txns /\ Tx!Fail(txn[w])) \/ UNCHANGED table
  BY <1>5 DEF Fault
<1>6. ASSUME NEW w \in Writers,
             ListProducts(w) \/ FetchForecasts(w) \/ SyncedAll(w) \/ ScriptFetches(w)
      PROVE  UNCHANGED table
  BY <1>6 DEF ListProducts, FetchForecasts, SyncedAll, ScriptFetches
<1>7. CASE Retrain
  BY <1>7 DEF Retrain
<1>8. CASE UNCHANGED vars
  BY <1>8 DEF vars, table
<1> QED
  BY <1>1, <1>2, <1>3, <1>4, <1>5, <1>6, <1>7, <1>8 DEF Next

(* Every step of the orchestrator and of the script is a step of ReplaceTx *)
(* or leaves the table alone.                                              *)
THEOREM WritersReplace == Spec => TransactionsReplace
<1>1. Init => Tx!Init
  BY DEF Init
<1>2. HasTxn /\ [Next]_vars => [Tx!Next]_<<live, pc, todo, mine, before>>
  BY TableSteps DEF table, Tx!Next
<1>3. Spec => []HasTxn
  BY HasTxnInit, HasTxnStep, PTL DEF Spec
<1> QED
  BY <1>1, <1>2, <1>3, PTL DEF Spec, TransactionsReplace, Tx!Spec, Tx!vars

(* The assumptions of ReplaceTx hold of the transactions the writers run.  *)
LEMMA Discharged ==
  /\ Scope \in [Txns -> SUBSET Products]
  /\ Fresh \in [Txns -> SUBSET Products]
  /\ \A t \in Txns : Fresh[t] \subseteq Scope[t]
  /\ Serialised \in BOOLEAN
BY BqRowsAssumption DEF Scope, Fresh, Serialised, Txns, One

(* Two generations of a forecast in the table are the work of writers whose*)
(* transactions overlapped: what ReplaceTx_proofs shows, for these writers.*)
COROLLARY ForecastDuplicatesNeedOverlap == Spec => []Tx!DuplicatesOnlyFromOverlap
<1>1. TxProofs!Spec => []TxProofs!DuplicatesOnlyFromOverlap
  BY TxProofs!DuplicatesNeedOverlap, Discharged, SeedAssumption
<1> QED
  BY <1>1, WritersReplace, PTL
     DEF TransactionsReplace, Tx!Spec, Tx!Init, Tx!Next, Tx!vars, Tx!BeginDelete,
         Tx!DeleteRow, Tx!InsertAndCommit, Tx!Fail, Tx!Rollback, Tx!DeadlockVictim,
         Tx!Deadlocked, Tx!Active, Tx!Committed, Tx!DuplicatesOnlyFromOverlap,
         TxProofs!Spec, TxProofs!Init, TxProofs!Next, TxProofs!vars, TxProofs!BeginDelete,
         TxProofs!DeleteRow, TxProofs!InsertAndCommit, TxProofs!Fail, TxProofs!Rollback,
         TxProofs!DeadlockVictim, TxProofs!Deadlocked, TxProofs!Active,
         TxProofs!Committed, TxProofs!DuplicatesOnlyFromOverlap

(* A sync that fails, at whatever point, leaves the table as readers had   *)
(* it: only the rollback of its transaction remains.                       *)
THEOREM FailuresKeepRows == Spec => FailureKeepsRows
<1>1. HasTxn /\ [Next]_vars =>
        [\A w \in Writers : stage[w] # "failed" /\ stage'[w] = "failed" => live' = live]_vars
  <2> SUFFICES ASSUME HasTxn, Next, NEW w \in Writers,
                      stage[w] # "failed", stage'[w] = "failed"
               PROVE  live' = live
    BY DEF vars
  <2> USE DEF Goes, HasTxn
  <2>1. ASSUME NEW u \in Writers, InsertRejected(u) \/ Fault(u) PROVE live' = live
    BY <2>1 DEF InsertRejected, Fault, Tx!Fail, Tx!Rollback, table
  <2>2. ASSUME NEW u \in Writers, InsertNew(u) PROVE FALSE
    BY <2>2 DEF InsertNew
  <2>3. ASSUME NEW u \in Writers, DeleteOld(u) \/ DeleteOldRow(u) PROVE live' = live
    BY <2>3 DEF DeleteOld, DeleteOldRow, Tx!BeginDelete, Tx!DeleteRow
  <2>4. ASSUME NEW u \in Writers,
               ListProducts(u) \/ FetchForecasts(u) \/ SyncedAll(u) \/ ScriptFetches(u)
        PROVE  live' = live
    BY <2>4 DEF ListProducts, FetchForecasts, SyncedAll, ScriptFetches, table
  <2>5. CASE Retrain
    BY <2>5 DEF Retrain, table
  <2> QED
    BY <2>1, <2>2, <2>3, <2>4, <2>5 DEF Next
<1>2. Spec => []HasTxn
  BY HasTxnInit, HasTxnStep, PTL DEF Spec
<1> QED
  BY <1>1, <1>2, PTL DEF Spec, FailureKeepsRows
-----------------------------------------------------------------------------
(* Without an overlap the table follows BigQuery.  What is always so: no   *)
(* row and no transaction is of a version BigQuery has not reached, and a  *)
(* transaction that has not begun holds no locks.                          *)
VersionOf(b) == IF b.by = Seed THEN 0 ELSE b.by.version
Behind ==
  /\ \A b \in live : VersionOf(b) <= bq
  /\ \A w \in Writers : stage[w] \in {"fetched", "replacing"} => txn[w].version <= bq
IdleHoldsNothing == \A t \in Txns : pc[t] = "idle" => mine[t] = {}

(* Without an overlap one writer at most is busy; ...                      *)
OneIsBusy == \A u, v \in Writers : Busy(u) /\ Busy(v) => u = v

(* ... what it has fetched is what BigQuery has; ...                       *)
FetchedIsCurrent ==
  \A w \in Writers : stage[w] \in {"fetched", "replacing"} =>
    /\ txn[w].version = bq
    /\ w \in Orchestrators => \E p \in BqRows[bq] : txn[w].scope = {p}

(* ... its DELETE has, or has still to visit, all rows of its scope; ...   *)
HoldsScope ==
  \A w \in Writers : stage[w] = "replacing" =>
    todo[txn[w]] \cup mine[txn[w]] = {b \in live : b.product \in txn[w].scope}

(* ... and an orchestrator has brought the products behind it up to date.  *)
SyncedSoFar ==
  \A w \in Orchestrators : Busy(w) =>
    /\ plan[w] \subseteq BqRows[bq]
    /\ \A p \in BqRows[bq] \ plan[w] :
         \/ VersionsOf(p) = {bq}
         \/ stage[w] \in {"fetched", "replacing"} /\ txn[w].scope = {p}

Calm == OneIsBusy /\ FetchedIsCurrent /\ HoldsScope /\ SyncedSoFar

IInv ==
  /\ TypeOK
  /\ HasTxn
  /\ Behind
  /\ IdleHoldsNothing
  /\ ~overlap => Calm

LEMMA InitIInv == Init => IInv
<1> SUFFICES ASSUME Init PROVE IInv
  OBVIOUS
<1> USE DEF Init
<1>1. HasTxn
  BY HasTxnInit
<1>2. Tx!TypeOK
  BY DEF Tx!Init, Tx!TypeOK, Tx!Batch, Tx!Writers
<1>3. TypeOK
  <2>1. faults \in 0 .. MaxFaults
    BY FaultsAssumption
  <2>2. plan \in [Orchestrators -> SUBSET Products] /\ overlap \in BOOLEAN
    OBVIOUS
  <2> QED
    BY <1>1, <1>2, <2>1, <2>2 DEF TypeOK, HasTxn
<1>4. Behind
  BY VersionsAssumption DEF Behind, Tx!Init, VersionOf
<1>5. IdleHoldsNothing
  BY DEF IdleHoldsNothing, Tx!Init
<1>6. Calm
  BY DEF Calm, OneIsBusy, FetchedIsCurrent, HoldsScope, SyncedSoFar, Busy, Writers
<1> QED
  BY <1>1, <1>3, <1>4, <1>5, <1>6 DEF IInv

(* The table's variables keep the types of ReplaceTx, and a transaction    *)
(* that has not begun gets no locks.                                       *)
LEMMA TableTypes ==
  ASSUME Tx!TypeOK, IdleHoldsNothing, HasTxn, [Next]_vars
  PROVE  Tx!TypeOK' /\ IdleHoldsNothing'
<1> USE DEF Tx!TypeOK, IdleHoldsNothing
<1>1. ASSUME NEW t \in Txns, Tx!BeginDelete(t) PROVE Tx!TypeOK' /\ IdleHoldsNothing'
  BY <1>1 DEF Tx!BeginDelete, Tx!Committed, Tx!Writers
<1>2. ASSUME NEW t \in Txns, Tx!DeleteRow(t) PROVE Tx!TypeOK' /\ IdleHoldsNothing'
  BY <1>2 DEF Tx!DeleteRow, Tx!Active
<1>3. ASSUME NEW t \in Txns, Tx!InsertAndCommit(t) PROVE Tx!TypeOK' /\ IdleHoldsNothing'
  <2>1. [product : Fresh[t], by : {t}] \subseteq Tx!Batch
    BY Discharged DEF Tx!Batch, Tx!Writers
  <2> QED
    BY <1>3, <2>1 DEF Tx!InsertAndCommit
<1>4. ASSUME NEW t \in Txns, Tx!Fail(t) PROVE Tx!TypeOK' /\ IdleHoldsNothing'
  BY <1>4 DEF Tx!Fail, Tx!Rollback
<1>5. CASE UNCHANGED table
  BY <1>5 DEF table
<1> QED
  BY <1>1, <1>2, <1>3, <1>4, <1>5, TableSteps

LEMMA TypesStep == ASSUME IInv, [Next]_vars PROVE TypeOK' /\ HasTxn' /\ IdleHoldsNothing'
<1> USE DEF IInv, TypeOK
<1>1. HasTxn'
  BY HasTxnStep
<1>2. Tx!TypeOK' /\ IdleHoldsNothing'
  BY TableTypes
<1>3. plan' \in [Orchestrators -> SUBSET Products]
  <2>1. ASSUME NEW w \in Writers, ListProducts(w)
        PROVE  plan' \in [Orchestrators -> SUBSET Products]
    BY <2>1, BqRowsAssumption DEF ListProducts
  <2>2. ASSUME NEW w \in Writers, FetchForecasts(w)
        PROVE  plan' \in [Orchestrators -> SUBSET Products]
    BY <2>2 DEF FetchForecasts
  <2> QED
    BY <2>1, <2>2 DEF Next, Retrain, SyncedAll, ScriptFetches, DeleteOld, DeleteOldRow,
                      InsertNew, InsertRejected, Fault, vars
<1>4. faults' \in 0 .. MaxFaults
  <2>1. ASSUME NEW w \in Writers, Fault(w) PROVE faults' \in 0 .. MaxFaults
    BY <2>1, FaultsAssumption DEF Fault
  <2> QED
    BY <2>1 DEF Next, Retrain, ListProducts, FetchForecasts, SyncedAll, ScriptFetches,
                DeleteOld, DeleteOldRow, InsertNew, InsertRejected, vars
<1>5. overlap' \in BOOLEAN
  BY DEF Next, Retrain, ListProducts, FetchForecasts, SyncedAll, ScriptFetches, Begins,
         DeleteOld, DeleteOldRow, InsertNew, InsertRejected, Fault, vars
<1> QED
  BY <1>1, <1>2, <1>3, <1>4, <1>5 DEF HasTxn
LEMMA BehindStep == ASSUME IInv, [Next]_vars PROVE Behind'
<1> USE DEF IInv, Goes
<1>0. /\ bq \in Nat
      /\ \A t \in Txns : t.version \in Nat /\ t # Seed
      /\ \A b \in live : VersionOf(b) \in Nat
  <2>1. \A t \in Txns : t.version \in Nat /\ t # Seed
    BY VersionsAssumption, SeedAssumption DEF Txns, Versions
  <2>2. \A b \in live : b.by \in Txns \cup {Seed}
    BY DEF TypeOK, Tx!TypeOK, Tx!Batch, Tx!Writers
  <2> QED
    BY <2>1, <2>2, VersionsAssumption DEF TypeOK, Versions, VersionOf
<1>1. CASE Retrain
  <2>1. bq' = bq + 1 /\ live' = live /\ stage' = stage /\ txn' = txn
    BY <1>1 DEF Retrain, table
  <2>2. \A w \in Writers : stage[w] \in {"fetched", "replacing"} => txn[w].version \in Nat
    BY <1>0 DEF HasTxn
  <2> QED
    BY <1>0, <2>1, <2>2 DEF Behind, VersionOf
<1>2. ASSUME NEW w \in Writers, NEW scope, Fetched(w, scope), live' = live, bq' = bq
      PROVE  Behind'
  BY <1>0, <1>2 DEF Behind, Fetched, HasTxn, VersionOf
<1>3. ASSUME NEW w \in Writers, NEW to \in Stages \ {"fetched", "replacing"}, Goes(w, to),
             txn' = txn \/ txn' = [txn EXCEPT ![w] = NoTxn], live' = live, bq' = bq
      PROVE  Behind'
  BY <1>3 DEF Behind, HasTxn, VersionOf
<1>4. ASSUME NEW w \in Writers, DeleteOld(w) \/ DeleteOldRow(w) PROVE Behind'
  BY <1>4 DEF DeleteOld, DeleteOldRow, Tx!BeginDelete, Tx!DeleteRow, Behind, HasTxn, VersionOf
<1>5. ASSUME NEW w \in Writers, InsertNew(w) PROVE Behind'
  <2>1. txn[w] \in Txns /\ txn[w].version <= bq /\ bq' = bq
    BY <1>5 DEF InsertNew, HasTxn, Behind
  <2>2. live' \subseteq live \cup [product : Fresh[txn[w]], by : {txn[w]}]
    BY <1>5 DEF InsertNew, Tx!InsertAndCommit
  <2>3. \A b \in live' : VersionOf(b)' <= bq'
    BY <1>0, <2>1, <2>2 DEF Behind, VersionOf
  <2>4. \A u \in Writers : stage'[u] \in {"fetched", "replacing"} =>
          u # w /\ stage[u] = stage'[u] /\ txn'[u] = txn[u]
    BY <1>5 DEF InsertNew, HasTxn
  <2> QED
    BY <2>1, <2>3, <2>4 DEF Behind
<1>6. ASSUME NEW w \in Writers, InsertRejected(w) \/ Fault(w) PROVE Behind'
  BY <1>3, <1>6 DEF InsertRejected, Fault, Tx!Fail, Tx!Rollback, table, Stages
<1>7. ASSUME NEW w \in Writers, ListProducts(w) \/ SyncedAll(w) PROVE Behind'
  BY <1>3, <1>7 DEF ListProducts, SyncedAll, table, Stages
<1>8. ASSUME NEW w \in Writers, FetchForecasts(w) PROVE Behind'
  <2>1. live' = live /\ bq' = bq
    BY <1>8 DEF FetchForecasts, table
  <2>2. CASE stage' = stage /\ txn' = txn
    BY <2>1, <2>2 DEF Behind, VersionOf
  <2> QED
    BY <1>2, <1>8, <2>1, <2>2 DEF FetchForecasts
<1>9. ASSUME NEW w \in Writers, ScriptFetches(w) PROVE Behind'
  BY <1>2, <1>3, <1>9 DEF ScriptFetches, table, Stages
<1>10. CASE UNCHANGED vars
  BY <1>10 DEF vars, Behind, VersionOf
<1> QED
  BY <1>1, <1>4, <1>5, <1>6, <1>7, <1>8, <1>9, <1>10 DEF Next
-----------------------------------------------------------------------------
(* The commit of a calm writer: the products of its scope have the rows of *)
(* BigQuery's version, or none where it has none, and no others change.    *)
LEMMA CalmCommit ==
  ASSUME IInv, Calm, NEW w \in Writers, stage[w] = "replacing", Tx!InsertAndCommit(txn[w]),
         NEW p \in Products
  PROVE  VersionsOf(p)' = IF p \in txn[w].scope
                          THEN IF p \in BqRows[bq] THEN {bq} ELSE {}
                          ELSE VersionsOf(p)
<1> DEFINE t == txn[w]
<1> DEFINE new == [product |-> p, by |-> t]
<1>1. t \in Txns /\ t # Seed /\ t.version = bq /\ Fresh[t] = t.scope \cap BqRows[bq]
  BY SeedAssumption DEF IInv, HasTxn, Calm, FetchedIsCurrent, Fresh
<1>2. mine[t] = {b \in live : b.product \in t.scope}
  BY DEF Calm, HoldsScope, Tx!InsertAndCommit
<1>3. live' = (live \ mine[t]) \cup [product : Fresh[t], by : {t}]
  BY DEF Tx!InsertAndCommit
<1>4. CASE p \notin t.scope
  <2>1. Tx!BatchesOf(p)' = Tx!BatchesOf(p)
    BY <1>1, <1>2, <1>3, <1>4 DEF Tx!BatchesOf
  <2> QED
    BY <1>4, <2>1 DEF VersionsOf
<1>5. CASE p \in t.scope /\ p \in BqRows[bq]
  <2>1. Tx!BatchesOf(p)' = {new}
    BY <1>1, <1>2, <1>3, <1>5 DEF Tx!BatchesOf
  <2> QED
    BY <1>1, <1>5, <2>1 DEF VersionsOf
<1>6. CASE p \in t.scope /\ p \notin BqRows[bq]
  <2>1. Tx!BatchesOf(p)' = {}
    BY <1>1, <1>2, <1>3, <1>6 DEF Tx!BatchesOf
  <2> QED
    BY <1>6, <2>1 DEF VersionsOf
<1> QED
  BY <1>4, <1>5, <1>6

LEMMA VersionsStay ==
  ASSUME live' = live, NEW p PROVE VersionsOf(p)' = VersionsOf(p)
BY DEF VersionsOf, Tx!BatchesOf

(* Writers that begin when nobody is busy. *)
LEMMA BeginIsAlone ==
  ASSUME Begins, ~overlap' PROVE ~overlap /\ \A u \in Writers : ~Busy(u)
BY DEF Begins

LEMMA CalmStep == ASSUME IInv, [Next]_vars, ~overlap' PROVE Calm'
<1> USE DEF IInv, Goes
<1>0. overlap = FALSE /\ Calm
  <2>1. overlap => overlap'
    BY DEF Next, Retrain, ListProducts, FetchForecasts, SyncedAll, ScriptFetches, Begins,
           DeleteOld, DeleteOldRow, InsertNew, InsertRejected, Fault, vars, TypeOK
  <2> QED
    BY <2>1 DEF TypeOK
<1> USE <1>0
<1>1. CASE Retrain
  <2>1. \A u \in Writers : ~Busy(u)
    BY <1>1, BeginIsAlone DEF Retrain
  <2>2. stage' = stage
    BY <1>1 DEF Retrain
  <2> QED
    BY <2>1, <2>2 DEF Calm, OneIsBusy, FetchedIsCurrent, HoldsScope, SyncedSoFar, Busy, Writers
<1>2. ASSUME NEW w \in Writers, ListProducts(w) PROVE Calm'
  <2>1. \A u \in Writers : ~Busy(u)
    BY <1>2, BeginIsAlone DEF ListProducts
  <2>2. /\ w \in Orchestrators /\ stage' = [stage EXCEPT ![w] = "listed"]
        /\ plan' = [plan EXCEPT ![w] = BqRows[bq]] /\ bq' = bq
    BY <1>2 DEF ListProducts
  <2>3. \A u \in Writers : Busy(u)' => u = w
    BY <2>1, <2>2 DEF Busy, TypeOK
  <2>4. OneIsBusy'
    BY <2>3 DEF OneIsBusy
  <2>5. FetchedIsCurrent' /\ HoldsScope'
    BY <2>1, <2>2 DEF FetchedIsCurrent, HoldsScope, Busy, TypeOK
  <2>6. SyncedSoFar'
    BY <2>2, <2>3 DEF SyncedSoFar, TypeOK, Writers
  <2> QED
    BY <2>4, <2>5, <2>6 DEF Calm
<1>3. ASSUME NEW w \in Writers, FetchForecasts(w) PROVE Calm'
  <2>1. /\ w \in Orchestrators /\ stage[w] = "listed" /\ Busy(w)
        /\ bq' = bq /\ live' = live /\ todo' = todo /\ mine' = mine
    BY <1>3 DEF FetchForecasts, table, Busy
  <2>2. PICK p \in plan[w] :
          /\ plan' = [plan EXCEPT ![w] = @ \ {p}]
          /\ IF p \in BqRows[bq] THEN Fetched(w, One(p)) ELSE UNCHANGED <<stage, txn>>
    BY <1>3 DEF FetchForecasts
  <2>3. p \in BqRows[bq]
    BY <2>1 DEF Calm, SyncedSoFar
  <2>4. /\ txn' = [txn EXCEPT ![w] = [by |-> w, scope |-> {p}, version |-> bq]]
        /\ stage' = [stage EXCEPT ![w] = "fetched"]
    BY <2>2, <2>3 DEF Fetched, One
  <2>5. /\ stage'[w] = "fetched" /\ txn'[w].scope = {p} /\ txn'[w].version = bq
        /\ plan'[w] = plan[w] \ {p}
    BY <2>1, <2>2, <2>4 DEF TypeOK
  <2>6. \A u \in Writers : Busy(u)' => u = w
    BY <2>1, <2>4 DEF Busy, TypeOK, Calm, OneIsBusy
  <2>7. OneIsBusy'
    BY <2>6 DEF OneIsBusy
  <2>8. FetchedIsCurrent'
    BY <2>1, <2>3, <2>5, <2>6 DEF FetchedIsCurrent, Busy
  <2>9. HoldsScope'
    BY <2>5, <2>6 DEF HoldsScope, Busy
  <2>10. SyncedSoFar'
    <3>1. ASSUME NEW q \in BqRows[bq] \ plan'[w]
          PROVE  VersionsOf(q)' = {bq} \/ txn'[w].scope = {q}
      <4>1. CASE q = p
        BY <2>5, <4>1
      <4>2. CASE q # p
        BY <2>1, <2>5, <3>1, <4>2, VersionsStay DEF Calm, SyncedSoFar
      <4> QED
        BY <4>1, <4>2
    <3>2. plan'[w] \subseteq BqRows[bq]
      BY <2>1, <2>5 DEF Calm, SyncedSoFar
    <3> QED
      BY <2>1, <2>5, <2>6, <3>1, <3>2 DEF SyncedSoFar, Writers
  <2> QED
    BY <2>7, <2>8, <2>9, <2>10 DEF Calm
<1>4. ASSUME NEW w \in Writers, SyncedAll(w) PROVE Calm'
  <2>1. /\ stage' = [stage EXCEPT ![w] = "done"] /\ live' = live /\ todo' = todo /\ mine' = mine
        /\ bq' = bq /\ plan' = plan /\ txn' = txn
    BY <1>4 DEF SyncedAll, table
  <2>2. \A u \in Writers : Busy(u)' => Busy(u) /\ stage'[u] = stage[u]
    BY <2>1 DEF Busy, TypeOK
  <2> QED
    BY <2>1, <2>2, VersionsStay
       DEF Calm, OneIsBusy, FetchedIsCurrent, HoldsScope, SyncedSoFar, Busy, Writers
<1>5. ASSUME NEW w \in Writers, ScriptFetches(w) PROVE Calm'
  <2>1. (\A u \in Writers : ~Busy(u)) /\ w \in Scripts /\ bq' = bq
    BY <1>5, BeginIsAlone DEF ScriptFetches
  <2>2. w \notin Orchestrators
    BY <2>1, WritersAssumption
  <2>3. PICK scope : IF scope \cap BqRows[bq] # {} THEN Fetched(w, scope)
                     ELSE Goes(w, "done") /\ UNCHANGED txn
    BY <1>5 DEF ScriptFetches
  <2>4. \A u \in Writers \ {w} : ~Busy(u)' /\ stage'[u] = stage[u]
    BY <2>1, <2>3 DEF Fetched, Busy, TypeOK
  <2>5. \/ stage'[w] = "done"
        \/ stage'[w] = "fetched" /\ txn'[w].version = bq
    BY <2>3 DEF Fetched, TypeOK
  <2>6. OneIsBusy'
    BY <2>4 DEF OneIsBusy
  <2>7. FetchedIsCurrent'
    BY <2>1, <2>2, <2>4, <2>5 DEF FetchedIsCurrent, Busy
  <2>8. HoldsScope'
    BY <2>4, <2>5 DEF HoldsScope, Busy
  <2>9. SyncedSoFar'
    BY <2>2, <2>4 DEF SyncedSoFar, Writers
  <2> QED
    BY <2>6, <2>7, <2>8, <2>9 DEF Calm
<1>6. ASSUME NEW w \in Writers, DeleteOld(w) PROVE Calm'
  <2>1. /\ stage[w] = "fetched" /\ txn[w] \in Txns /\ Tx!BeginDelete(txn[w])
        /\ stage' = [stage EXCEPT ![w] = "replacing"]
        /\ bq' = bq /\ plan' = plan /\ txn' = txn /\ live' = live /\ mine' = mine
    BY <1>6 DEF DeleteOld, HasTxn, Tx!BeginDelete
  <2>2. todo'[txn[w]] = {b \in live : b.product \in txn[w].scope} /\ mine[txn[w]] = {}
    BY <2>1 DEF Tx!BeginDelete, TypeOK, Tx!TypeOK, IdleHoldsNothing, Scope
  <2>3. \A u \in Writers : Busy(u)' => u = w /\ Busy(w) /\ stage'[w] = "replacing"
    BY <2>1 DEF Busy, TypeOK, Calm, OneIsBusy
  <2>4. OneIsBusy'
    BY <2>3 DEF OneIsBusy
  <2>5. FetchedIsCurrent'
    BY <2>1, <2>3 DEF FetchedIsCurrent, Busy, Calm
  <2>6. HoldsScope'
    BY <2>1, <2>2, <2>3 DEF HoldsScope, Busy
  <2>7. SyncedSoFar'
    BY <2>1, <2>3, VersionsStay DEF SyncedSoFar, Calm, Writers
  <2> QED
    BY <2>4, <2>5, <2>6, <2>7 DEF Calm
<1>7. ASSUME NEW w \in Writers, DeleteOldRow(w) PROVE Calm'
  <2>1. /\ stage[w] = "replacing" /\ Busy(w) /\ txn[w] \in Txns /\ Tx!DeleteRow(txn[w])
        /\ stage' = stage /\ bq' = bq /\ plan' = plan /\ txn' = txn /\ live' = live
    BY <1>7 DEF DeleteOldRow, HasTxn, Tx!DeleteRow, Busy
  <2>2. todo'[txn[w]] \cup mine'[txn[w]] = {b \in live : b.product \in txn[w].scope}
    <3>1. PICK b \in todo[txn[w]] :
            /\ todo' = [todo EXCEPT ![txn[w]] = @ \ {b}]
            /\ mine' = [mine EXCEPT ![txn[w]] = @ \cup ({b} \cap live)]
      BY <2>1 DEF Tx!DeleteRow
    <3>2. /\ todo'[txn[w]] = todo[txn[w]] \ {b}
          /\ mine'[txn[w]] = mine[txn[w]] \cup ({b} \cap live)
      BY <2>1, <3>1 DEF TypeOK, Tx!TypeOK
    <3>3. todo[txn[w]] \cup mine[txn[w]] = {x \in live : x.product \in txn[w].scope}
      BY <2>1 DEF Calm, HoldsScope
    <3> QED
      BY <3>1, <3>2, <3>3
  <2>3. HoldsScope'
    BY <2>1, <2>2 DEF HoldsScope, Busy, Calm, OneIsBusy
  <2> QED
    BY <2>1, <2>3, VersionsStay
       DEF Calm, OneIsBusy, FetchedIsCurrent, SyncedSoFar, Busy
<1>8. ASSUME NEW w \in Writers, InsertNew(w) PROVE Calm'
  <2>1. /\ stage[w] = "replacing" /\ Busy(w) /\ Tx!InsertAndCommit(txn[w])
        /\ stage' = [stage EXCEPT ![w] = IF w \in Orchestrators THEN "listed" ELSE "done"]
        /\ bq' = bq /\ plan' = plan
    BY <1>8 DEF InsertNew, Busy
  <2>2. \A u \in Writers : Busy(u)' => u = w /\ w \in Orchestrators /\ stage'[w] = "listed"
    BY <2>1 DEF Busy, TypeOK, Calm, OneIsBusy
  <2>3. OneIsBusy' /\ FetchedIsCurrent' /\ HoldsScope'
    BY <2>2 DEF OneIsBusy, FetchedIsCurrent, HoldsScope, Busy
  <2>4. ASSUME w \in Orchestrators, NEW q \in BqRows[bq] \ plan[w] PROVE VersionsOf(q)' = {bq}
    <3>1. q \in Products
      BY <2>4, BqRowsAssumption DEF TypeOK
    <3>2. VersionsOf(q) = {bq} \/ txn[w].scope = {q}
      BY <2>1, <2>4 DEF Calm, SyncedSoFar
    <3>3. VersionsOf(q)' = IF q \in txn[w].scope
                           THEN IF q \in BqRows[bq] THEN {bq} ELSE {}
                           ELSE VersionsOf(q)
      BY <2>1, <3>1, CalmCommit
    <3> QED
      BY <2>4, <3>2, <3>3
  <2>5. SyncedSoFar'
    BY <2>1, <2>2, <2>4 DEF SyncedSoFar, Calm, Writers
  <2> QED
    BY <2>3, <2>5 DEF Calm
<1>9. ASSUME NEW w \in Writers, InsertRejected(w) \/ Fault(w) PROVE Calm'
  <2>1. Busy(w) /\ stage' = [stage EXCEPT ![w] = "failed"]
    BY <1>9 DEF InsertRejected, Fault, Busy
  <2>2. \A u \in Writers : ~Busy(u)'
    BY <2>1 DEF Busy, TypeOK, Calm, OneIsBusy
  <2> QED
    BY <2>2 DEF Calm, OneIsBusy, FetchedIsCurrent, HoldsScope, SyncedSoFar, Busy, Writers
<1>10. CASE UNCHANGED vars
  BY <1>10, VersionsStay
     DEF vars, Calm, OneIsBusy, FetchedIsCurrent, HoldsScope, SyncedSoFar, Busy
<1> QED
  BY <1>1, <1>2, <1>3, <1>4, <1>5, <1>6, <1>7, <1>8, <1>9, <1>10 DEF Next

LEMMA Invariance == Spec => []IInv
<1>1. IInv /\ [Next]_vars => IInv'
  BY TypesStep, BehindStep, CalmStep DEF IInv
<1> QED
  BY <1>1, InitIInv, PTL DEF Spec

(* The variables of the syncs and of their table keep their types. *)
THEOREM TypeCorrect == Spec => []TypeOK
<1>1. IInv => TypeOK
  BY DEF IInv
<1> QED
  BY <1>1, Invariance, PTL

(* An orchestrator whose step 5 ends without an overlap leaves, for every  *)
(* product of forecasts_30d, the rows of its present version and no others *)
(* (orchestrator.py:86-110).                                               *)
THEOREM SyncsAreComplete == Spec => EndedSyncIsComplete
<1>1. ASSUME IInv, [Next]_vars, NEW w \in Orchestrators, stage[w] # "done", stage'[w] = "done",
             ~overlap, NEW p \in BqRows[bq]
      PROVE  VersionsOf(p) = {bq}
  <2> USE <1>1 DEF Goes
  <2>1. w \in Writers /\ w \notin Scripts /\ stage \in [Writers -> Stages]
    BY WritersAssumption DEF Writers, IInv, TypeOK
  <2>2. ASSUME NEW u \in Writers, SyncedAll(u) PROVE VersionsOf(p) = {bq}
    <3>1. u = w /\ stage[w] = "listed" /\ plan[w] = {}
      BY <2>1, <2>2 DEF SyncedAll
    <3> QED
      BY <3>1 DEF IInv, Calm, SyncedSoFar, Busy
  <2>3. ASSUME NEW u \in Writers,
               \/ ListProducts(u) \/ FetchForecasts(u) \/ DeleteOld(u) \/ DeleteOldRow(u)
               \/ InsertRejected(u) \/ Fault(u)
        PROVE  FALSE
    BY <2>1, <2>3 DEF ListProducts, FetchForecasts, Fetched, DeleteOld, DeleteOldRow,
                      InsertRejected, Fault
  <2>4. ASSUME NEW u \in Writers, ScriptFetches(u) \/ InsertNew(u) PROVE FALSE
    BY <2>1, <2>4 DEF ScriptFetches, Fetched, InsertNew
  <2>5. CASE Retrain \/ UNCHANGED vars
    BY <2>5 DEF Retrain, vars
  <2> QED
    BY <2>2, <2>3, <2>4, <2>5 DEF Next
<1>2. IInv /\ [Next]_vars =>
        [\A w \in Orchestrators :
           stage[w] # "done" /\ stage'[w] = "done" /\ ~overlap =>
             \A p \in BqRows[bq] : VersionsOf(p) = {bq}]_vars
  BY <1>1
<1> QED
  BY <1>2, Invariance, PTL DEF Spec, EndedSyncIsComplete

(* Without an overlap no forecast in PostgreSQL is replaced by an older    *)
(* one, whichever writers and retrainings follow one another.              *)
THEOREM ForecastsOnlyGetNewer == Spec => ForecastsNeverAge
<1>1. ASSUME IInv, [Next]_vars, ~overlap, NEW p \in Products, NEW v \in VersionsOf(p)'
      PROVE  v \in VersionsOf(p) \/ \A u \in VersionsOf(p) : u <= v
  <2> USE <1>1
  <2>1. CASE live' = live
    BY <2>1, VersionsStay
  <2>2. ASSUME NEW w \in Writers, InsertNew(w)
        PROVE  v \in VersionsOf(p) \/ \A u \in VersionsOf(p) : u <= v
    <3>1. stage[w] = "replacing" /\ Tx!InsertAndCommit(txn[w])
      BY <2>2 DEF InsertNew
    <3>2. v = bq \/ v \in VersionsOf(p)
      BY <3>1, CalmCommit DEF IInv
    <3>3. \A u \in VersionsOf(p) : u <= bq
      BY DEF IInv, Behind, VersionsOf, VersionOf, Tx!BatchesOf
    <3> QED
      BY <3>2, <3>3
  <2>3. ASSUME NEW w \in Writers,
               \/ ListProducts(w) \/ FetchForecasts(w) \/ SyncedAll(w) \/ ScriptFetches(w)
               \/ DeleteOld(w) \/ DeleteOldRow(w) \/ InsertRejected(w) \/ Fault(w)
        PROVE  live' = live
    BY <2>3 DEF ListProducts, FetchForecasts, SyncedAll, ScriptFetches, DeleteOld,
                DeleteOldRow, InsertRejected, Fault, table, Tx!BeginDelete, Tx!DeleteRow,
                Tx!Fail, Tx!Rollback
  <2>4. CASE Retrain \/ UNCHANGED vars
    BY <2>4, <2>1 DEF Retrain, vars, table
  <2> QED
    BY <2>1, <2>2, <2>3, <2>4 DEF Next
<1>2. IInv /\ [Next]_vars =>
        [~overlap => \A p \in Products : \A v \in VersionsOf(p)' :
           v \in VersionsOf(p) \/ \A u \in VersionsOf(p) : u <= v]_vars
  BY <1>1
<1> QED
  BY <1>2, Invariance, PTL DEF Spec, ForecastsNeverAge
=============================================================================
