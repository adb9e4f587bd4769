------------------------------ MODULE ReplaceTx ------------------------------
(***************************************************************************)
(* How this system overwrites a product's rows in PostgreSQL: every writer *)
(* of the tables forecasts and narratives runs                             *)
(*                                                                         *)
(*     DELETE ... WHERE product_id = :p;  INSERT ...;  COMMIT              *)
(*                                                                         *)
(* in one transaction (sync_narratives._save_narrative, the orchestrator's *)
(* steps 5 and 6, sync_forecasts.sync, seed_forecasts_local and the        *)
(* /narrative/{id}/generate route).  Neither table has a unique constraint *)
(* on product_id, no writer takes a lock of its own, and the engines are   *)
(* created with PostgreSQL's default isolation level, READ COMMITTED.      *)
(*                                                                         *)
(* The rows one transaction inserts for one product are one batch: they    *)
(* share their generated_at, and nothing ever separates them.              *)
(***************************************************************************)
CONSTANTS
  Products,    \* product ids
  Txns,        \* transactions, each run at most once
  Seed,        \* stands for whoever wrote the rows present at the start
  NoRows,      \* the generation of a product that has no rows
  Scope,       \* Scope[t]: products whose rows t's DELETE selects
  Fresh,       \* Fresh[t]: products t inserts new rows for
  Serialised   \* TRUE: operations never run two writers at the same time

ASSUME SeedAssumption == Seed \notin Txns /\ NoRows \notin Txns \cup {Seed}
ASSUME ScopeAssumption == Scope \in [Txns -> SUBSET Products]
ASSUME FreshAssumption ==
  /\ Fresh \in [Txns -> SUBSET Products]
  /\ \A t \in Txns : Fresh[t] \subseteq Scope[t]
ASSUME SerialisedAssumption == Serialised \in BOOLEAN

VARIABLES
  live,     \* batches that committed transactions left in the table
  pc,       \* control state of each transaction
  todo,     \* rows in the snapshot of t's DELETE it has not visited yet
  mine,     \* rows t has deleted, and therefore locked, but not committed
  before    \* history: writers already committed when t's DELETE began

vars == <<live, pc, todo, mine, before>>

Writers == Txns \cup {Seed}
Batch == [product : Products, by : Writers]

BatchesOf(p) == {b \in live : b.product = p}
Committed == {Seed} \cup {t \in Txns : pc[t] = "committed"}
Active(t) == pc[t] = "deleting"

Init ==
  /\ live \in SUBSET [product : Products, by : {Seed}]
  /\ pc = [t \in Txns |-> "idle"]
  /\ todo = [t \in Txns |-> {}]
  /\ mine = [t \in Txns |-> {}]
  /\ before = [t \in Txns |-> {}]

-----------------------------------------------------------------------------
(* The DELETE statement takes its snapshot: the rows committed by now. *)
BeginDelete(t) ==
  /\ pc[t] = "idle"
  /\ Serialised => \A u \in Txns : ~Active(u)
  /\ pc' = [pc EXCEPT ![t] = "deleting"]
  /\ todo' = [todo EXCEPT ![t] = {b \in live : b.product \in Scope[t]}]
  /\ before' = [before EXCEPT ![t] = Committed]
  /\ UNCHANGED <<live, mine>>

(* The DELETE visits one row of its snapshot, in the order of its scan.    *)
(* It waits while another transaction holds the row; a row that a          *)
(* transaction has deleted and committed meanwhile is skipped.             *)
DeleteRow(t) ==
  /\ Active(t)
  /\ \E b \in todo[t] :
       /\ \A u \in Txns \ {t} : b \notin mine[u]
       /\ todo' = [todo EXCEPT ![t] = @ \ {b}]
       /\ mine' = [mine EXCEPT ![t] = @ \cup ({b} \cap live)]
  /\ UNCHANGED <<live, pc, before>>

(* Mutant: the rows are added without the DELETE before them. *)
InsertWithoutDelete(t) ==
  /\ Active(t)
  /\ todo[t] = {}
  /\ live' = live \cup [product : Fresh[t], by : {t}]
  /\ pc' = [pc EXCEPT ![t] = "committed"]
  /\ mine' = [mine EXCEPT ![t] = {}]
  /\ UNCHANGED <<todo, before>>

(* Mutant: only the products that have new rows lose their old ones. *)
InsertKeepsVanished(t) ==
  /\ Active(t)
  /\ todo[t] = {}
  /\ live' = (live \ {b \in mine[t] : b.product \in Fresh[t]})
               \cup [product : Fresh[t], by : {t}]
  /\ pc' = [pc EXCEPT ![t] = "committed"]
  /\ mine' = [mine EXCEPT ![t] = {}]
  /\ UNCHANGED <<todo, before>>

(* Mutant: the DELETE is not awaited; rows it has not reached stay. *)
InsertBeforeDeleteEnds(t) ==
  /\ Active(t)
  /\ live' = (live \ mine[t]) \cup [product : Fresh[t], by : {t}]
  /\ pc' = [pc EXCEPT ![t] = "committed"]
  /\ todo' = [todo EXCEPT ![t] = {}]
  /\ mine' = [mine EXCEPT ![t] = {}]
  /\ UNCHANGED before

(* Mutant: the DELETE is committed on its own, before the INSERT. *)
CommitBetween(t) ==
  /\ Active(t)
  /\ todo[t] = {}
  /\ live' = (live \ mine[t]) \cup [product : IF mine[t] = {} THEN Fresh[t] ELSE {}, by : {t}]
  /\ pc' = [pc EXCEPT ![t] = IF mine[t] = {} THEN "committed" ELSE "deleting"]
  /\ mine' = [mine EXCEPT ![t] = {}]
  /\ UNCHANGED <<todo, before>>

(* session.commit() flushes the INSERT and commits: deletions and new rows *)
(* become visible together, and the row locks are released.                *)
InsertAndCommit(t) ==
  /\ Active(t)
  /\ todo[t] = {}
  /\ live' = (live \ mine[t]) \cup [product : Fresh[t], by : {t}]
  /\ pc' = [pc EXCEPT ![t] = "committed"]
  /\ mine' = [mine EXCEPT ![t] = {}]
  /\ UNCHANGED <<todo, before>>

(* Mutant: the session is dropped without a rollback; the server goes on   *)
(* holding the locks of its connection.                                    *)
RollbackKeepsLocks(t) ==
  /\ pc' = [pc EXCEPT ![t] = "aborted"]
  /\ todo' = [todo EXCEPT ![t] = {}]
  /\ UNCHANGED <<live, mine, before>>

Rollback(t) ==
  /\ pc' = [pc EXCEPT ![t] = "aborted"]
  /\ todo' = [todo EXCEPT ![t] = {}]
  /\ mine' = [mine EXCEPT ![t] = {}]
  /\ UNCHANGED <<live, before>>

(* An exception, a cancellation, a lost connection or the death of the     *)
(* process: leaving "async with session" rolls back, as does the server.   *)
Fail(t) == Active(t) /\ Rollback(t)

(* t waits for a row held by a transaction that, directly or not, waits    *)
(* for t: all the rows the members of D still need are held inside D.      *)
Deadlocked(t) ==
  \E D \in SUBSET {u \in Txns : Active(u)} :
    /\ t \in D
    /\ \A u \in D :
         /\ todo[u] # {}
         /\ todo[u] \subseteq UNION {mine[v] : v \in D \ {u}}

(* PostgreSQL's deadlock detector aborts one of them. *)
DeadlockVictim(t) == Active(t) /\ Deadlocked(t) /\ Rollback(t)

Next ==
  \E t \in Txns :
    \/ BeginDelete(t)
    \/ DeleteRow(t)
    \/ InsertAndCommit(t)
    \/ Fail(t)
    \/ DeadlockVictim(t)

Spec == Init /\ [][Next]_vars

(* A statement that can run does run, and the detector does find deadlocks *)
(* (deadlock_timeout).  Nothing makes a writer start, and nothing fails it.*)
FairSpec ==
  /\ Spec
  /\ \A t \in Txns :
       /\ WF_vars(DeleteRow(t))
       /\ WF_vars(InsertAndCommit(t))
       /\ WF_vars(DeadlockVictim(t))

-----------------------------------------------------------------------------
TypeOK ==
  /\ live \subseteq Batch
  /\ pc \in [Txns -> {"idle", "deleting", "committed", "aborted"}]
  /\ todo \in [Txns -> SUBSET Batch]
  /\ mine \in [Txns -> SUBSET Batch]
  /\ before \in [Txns -> SUBSET Writers]

(* Once a replacement has committed, no row that was committed before its  *)
(* DELETE began survives in its scope, however the writers interleaved.    *)
ReplacedForGood ==
  \A t \in Txns : pc[t] = "committed" =>
    \A b \in live : b.product \in Scope[t] => b.by \notin before[t]

(* If a product holds two batches, their writers overlapped in time: each  *)
(* one's DELETE began before the other had committed.  Writers that follow *)
(* one another never leave a duplicate, whoever they are.                  *)
DuplicatesOnlyFromOverlap ==
  \A b, c \in live : b.product = c.product /\ b # c =>
    /\ b.by \in Txns => c.by \notin before[b.by]
    /\ c.by \in Txns => b.by \notin before[c.by]

(* A product has the rows of one writer only: what "replace existing       *)
(* forecasts for this product atomically" (pipeline/orchestrator.py:93)    *)
(* and "stores the latest ... summary for each product" (db/models.py:36)  *)
(* say of the table.                                                       *)
OneGeneration == \A b, c \in live : b.product = c.product => b = c

(* A reader never finds a product without rows while it is being replaced: *)
(* rows of a product go away only in the step that brings its new ones, or *)
(* in the commit of a full replacement whose source no longer has it.      *)
NoGapForReaders ==
  [][\A p \in Products :
       BatchesOf(p) # {} /\ BatchesOf(p)' = {} =>
         \E t \in Txns : /\ pc[t] = "deleting" /\ pc'[t] = "committed"
                         /\ p \in Scope[t] \ Fresh[t]]_vars

(* Every replacement that starts ends, even when row locks form a cycle. *)
EveryReplacementEnds ==
  \A t \in Txns : pc[t] = "deleting" ~> pc[t] \in {"committed", "aborted"}

-----------------------------------------------------------------------------
(* What the writers promise: an indivisible replacement of the scope.  The *)
(* promise is kept when operations run one writer at a time.               *)
WriterOf(batches) ==
  IF batches = {} THEN NoRows ELSE (CHOOSE b \in batches : TRUE).by

Generation == [p \in Products |-> WriterOf(BatchesOf(p))]

Promise == INSTANCE AtomicReplace WITH table <- Generation, done <- Committed \ {Seed}
AtomicReplacement == Promise!Spec

(* However many writers are active, one that commits before any other has  *)
(* committed since its DELETE began keeps the promise, even for a product  *)
(* that was left with two generations before.                              *)
UndisturbedIsAtomic ==
  [][\A t \in Txns :
       pc[t] = "deleting" /\ pc'[t] = "committed" /\ before[t] = Committed
         => Promise!Replace(t)]_vars
=============================================================================
