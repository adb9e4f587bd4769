--------------------------- MODULE ReplaceTx_proofs ---------------------------
(***************************************************************************)
(* Theorems about ReplaceTx, for any products, writers and scopes: what    *)
(* delete-then-insert keeps under READ COMMITTED whatever the interleaving,*)
(* and what it keeps only when operations run one writer at a time.        *)
(***************************************************************************)
EXTENDS ReplaceTx, TLAPS

(* Only a running DELETE has rows to visit or rows locked, in its scope. *)
QuietOutside == \A t \in Txns : ~Active(t) => todo[t] = {} /\ mine[t] = {}

(* A DELETE visits and locks rows of its scope only. *)
LocksInScope == \A t \in Txns : \A b \in todo[t] \cup mine[t] : b.product \in Scope[t]

(* What a DELETE saw as committed is committed, and is not itself. *)
BeforeIsPast == \A t \in Txns : before[t] \subseteq Committed /\ t \notin before[t]

(* A batch in the table was put there by a transaction that committed it. *)
LiveIsCommitted ==
  \A b \in live : /\ b.by \in Committed
                  /\ b.by \in Txns => b.product \in Fresh[b.by]

(* A running DELETE still has, or has locked, every older row in its scope:*)
(* this is what makes ReplacedForGood hold when it commits.                *)
Covered ==
  \A t \in Txns : Active(t) =>
    \A b \in live : b.product \in Scope[t] /\ b.by \in before[t]
                      => b \in todo[t] \cup mine[t]

IInv ==
  /\ TypeOK
  /\ QuietOutside
  /\ LocksInScope
  /\ BeforeIsPast
  /\ LiveIsCommitted
  /\ Covered
  /\ ReplacedForGood

-----------------------------------------------------------------------------
(* The type invariant holds: the variables keep their types in every state *)
(* of every instance.                                                      *)
THEOREM TypeCorrect == Spec => []TypeOK
<1>1. Init => TypeOK
  BY DEF Init, TypeOK, Batch, Writers
<1>2. TypeOK /\ [Next]_vars => TypeOK'
  <2> SUFFICES ASSUME TypeOK, [Next]_vars PROVE TypeOK'
    OBVIOUS
  <2> USE DEF TypeOK
  <2>1. ASSUME NEW t \in Txns, BeginDelete(t) PROVE TypeOK'
    BY <2>1 DEF BeginDelete, Committed, Writers
  <2>2. ASSUME NEW t \in Txns, DeleteRow(t) PROVE TypeOK'
    BY <2>2 DEF DeleteRow
  <2>3. ASSUME NEW t \in Txns, InsertAndCommit(t) PROVE TypeOK'
    <3>1. [product : Fresh[t], by : {t}] \subseteq Batch
      BY ScopeAssumption, FreshAssumption DEF Batch, Writers
    <3> QED
      BY <2>3, <3>1 DEF InsertAndCommit
  <2>4. ASSUME NEW t \in Txns, Rollback(t) PROVE TypeOK'
    BY <2>4 DEF Rollback
  <2>5. CASE UNCHANGED vars
    BY <2>5 DEF vars
  <2> QED
    BY <2>1, <2>2, <2>3, <2>4, <2>5 DEF Next, Fail, DeadlockVictim
<1> QED
  BY <1>1, <1>2, PTL DEF Spec

-----------------------------------------------------------------------------
LEMMA InitIInv == Init => IInv
<1> SUFFICES ASSUME Init PROVE IInv
  OBVIOUS
<1> USE DEF Init
<1>1. TypeOK
  BY DEF TypeOK, Batch, Writers
<1>2. QuietOutside /\ BeforeIsPast /\ Covered /\ ReplacedForGood
  BY DEF QuietOutside, BeforeIsPast, Covered, ReplacedForGood, Active
<1>3. LiveIsCommitted
  BY SeedAssumption DEF LiveIsCommitted, Committed
<1>4. LocksInScope
  BY DEF LocksInScope
<1> QED
  BY <1>1, <1>2, <1>3, <1>4 DEF IInv

LEMMA BeginKeepsIInv ==
  ASSUME IInv, NEW t \in Txns, BeginDelete(t)
  PROVE  IInv'
<1> USE DEF IInv, BeginDelete
<1>1. TypeOK'
  BY DEF TypeOK, Committed, Writers
<1>2. Committed' = Committed
  BY DEF TypeOK, Committed
<1>3. QuietOutside'
  BY DEF TypeOK, QuietOutside, Active
<1>4. BeforeIsPast'
  <2>1. t \notin Committed
    BY SeedAssumption DEF Committed
  <2> QED
    BY <1>2, <2>1 DEF TypeOK, BeforeIsPast
<1>5. LiveIsCommitted'
  BY <1>2 DEF LiveIsCommitted
<1>6. Covered'
  BY DEF TypeOK, Covered, Active
<1>7. ReplacedForGood'
  BY DEF TypeOK, ReplacedForGood
<1>8. LocksInScope'
  BY DEF TypeOK, LocksInScope
<1> QED
  BY <1>1, <1>3, <1>4, <1>5, <1>6, <1>7, <1>8

LEMMA DeleteRowKeepsIInv ==
  ASSUME IInv, NEW t \in Txns, DeleteRow(t)
  PROVE  IInv'
<1> USE DEF IInv
<1> PICK b \in todo[t] :
      /\ \A u \in Txns \ {t} : b \notin mine[u]
      /\ todo' = [todo EXCEPT ![t] = @ \ {b}]
      /\ mine' = [mine EXCEPT ![t] = @ \cup ({b} \cap live)]
  BY DEF DeleteRow
<1>0. Active(t) /\ UNCHANGED <<live, pc, before>>
  BY DEF DeleteRow
<1>1. TypeOK'
  BY <1>0 DEF TypeOK
<1>2. Committed' = Committed
  BY <1>0 DEF Committed
<1>3. QuietOutside'
  BY <1>0 DEF TypeOK, QuietOutside, Active
<1>4. BeforeIsPast'
  BY <1>0, <1>2 DEF BeforeIsPast
<1>5. LiveIsCommitted'
  BY <1>0, <1>2 DEF LiveIsCommitted
<1>6. Covered'
  BY <1>0 DEF TypeOK, Covered, Active
<1>7. ReplacedForGood'
  BY <1>0 DEF ReplacedForGood
<1>8. LocksInScope'
  BY <1>0 DEF TypeOK, LocksInScope
<1> QED
  BY <1>1, <1>3, <1>4, <1>5, <1>6, <1>7, <1>8

LEMMA CommitKeepsIInv ==
  ASSUME IInv, NEW t \in Txns, InsertAndCommit(t)
  PROVE  IInv'
<1> USE DEF IInv, InsertAndCommit
<1> DEFINE new == [product : Fresh[t], by : {t}]
<1>1. new \subseteq Batch /\ \A b \in new : b.by = t /\ b.product \in Fresh[t]
  BY ScopeAssumption, FreshAssumption DEF Batch, Writers
<1>2. live' = (live \ mine[t]) \cup new /\ t \in Committed'
  BY DEF TypeOK, Committed
<1> HIDE DEF new
<1>3. Committed' = Committed \cup {t} /\ t \notin Committed
  BY SeedAssumption DEF TypeOK, Committed, Active
<1>4. TypeOK'
  BY <1>1, <1>2 DEF TypeOK
<1>5. QuietOutside'
  BY DEF TypeOK, QuietOutside, Active
<1>6. BeforeIsPast'
  BY <1>3 DEF BeforeIsPast
<1>7. LiveIsCommitted'
  BY <1>1, <1>2, <1>3 DEF LiveIsCommitted
<1>8. Covered'
  \* the new rows are not older than any running DELETE, and t's deletions
  \* only take rows away
  <2> SUFFICES ASSUME NEW u \in Txns, Active(u)', NEW b \in live',
                      b.product \in Scope[u], b.by \in before[u]
               PROVE  b \in todo'[u] \cup mine'[u]
    BY DEF Covered
  <2>1. u # t /\ Active(u)
    BY DEF TypeOK, Active
  <2>2. b \in live
    BY <1>1, <1>2, <1>3 DEF BeforeIsPast
  <2> QED
    BY <2>1, <2>2 DEF TypeOK, Covered
<1>9. ReplacedForGood'
  <2> SUFFICES ASSUME NEW u \in Txns, pc'[u] = "committed", NEW b \in live',
                      b.product \in Scope[u], b.by \in before[u]
               PROVE  FALSE
    BY DEF ReplacedForGood
  <2>1. b \in live \ mine[t]
    BY <1>1, <1>2, <1>3 DEF BeforeIsPast
  <2>2. CASE u = t
    BY <2>1, <2>2 DEF Covered
  <2>3. CASE u # t
    BY <2>1, <2>3 DEF TypeOK, ReplacedForGood
  <2> QED
    BY <2>2, <2>3
<1>10. LocksInScope'
  BY DEF TypeOK, LocksInScope
<1> QED
  BY <1>4, <1>5, <1>6, <1>7, <1>8, <1>9, <1>10

LEMMA RollbackKeepsIInv ==
  ASSUME IInv, NEW t \in Txns, Active(t), Rollback(t)
  PROVE  IInv'
<1> USE DEF IInv, Rollback
<1>1. TypeOK'
  BY DEF TypeOK
<1>2. Committed' = Committed
  BY DEF TypeOK, Committed, Active
<1>3. QuietOutside'
  BY DEF TypeOK, QuietOutside, Active
<1>4. BeforeIsPast'
  BY <1>2 DEF BeforeIsPast
<1>5. LiveIsCommitted'
  BY <1>2 DEF LiveIsCommitted
<1>6. Covered'
  BY DEF TypeOK, Covered, Active
<1>7. ReplacedForGood'
  BY DEF TypeOK, ReplacedForGood, Active
<1>8. LocksInScope'
  BY DEF TypeOK, LocksInScope
<1> QED
  BY <1>1, <1>3, <1>4, <1>5, <1>6, <1>7, <1>8

(* The inductive invariant holds in every reachable state. *)
THEOREM Invariance == Spec => []IInv
<1>1. IInv /\ [Next]_vars => IInv'
  <2> SUFFICES ASSUME IInv, [Next]_vars PROVE IInv'
    OBVIOUS
  <2>1. ASSUME NEW t \in Txns, Fail(t) \/ DeadlockVictim(t) PROVE IInv'
    BY <2>1, RollbackKeepsIInv DEF Fail, DeadlockVictim
  <2>2. CASE UNCHANGED vars
    BY <2>2 DEF vars, IInv, TypeOK, QuietOutside, LocksInScope, BeforeIsPast,
                LiveIsCommitted, Covered, ReplacedForGood, Committed, Active
  <2> QED
    BY <2>1, <2>2, BeginKeepsIInv, DeleteRowKeepsIInv, CommitKeepsIInv DEF Next
<1> QED
  BY <1>1, InitIInv, PTL DEF Spec

(* A committed replacement has removed every older row of its scope. *)
THEOREM ReplacementIsFinal == Spec => []ReplacedForGood
<1>1. IInv => ReplacedForGood
  BY DEF IInv
<1> QED
  BY <1>1, Invariance, PTL

(* Two writers leave a product with two batches only if they overlapped. *)
THEOREM DuplicatesNeedOverlap == Spec => []DuplicatesOnlyFromOverlap
<1>1. IInv => DuplicatesOnlyFromOverlap
  <2> SUFFICES ASSUME IInv, NEW b \in live, NEW c \in live, b.product = c.product, b.by \in Txns
               PROVE  c.by \notin before[b.by]
    BY DEF DuplicatesOnlyFromOverlap
  <2>1. pc[b.by] = "committed" /\ b.product \in Fresh[b.by]
    BY SeedAssumption DEF IInv, LiveIsCommitted, Committed
  <2>2. b.product \in Scope[b.by]
    BY <2>1, FreshAssumption, ScopeAssumption
  <2> QED
    BY <2>1, <2>2 DEF IInv, ReplacedForGood
<1> QED
  BY <1>1, Invariance, PTL

-----------------------------------------------------------------------------
(* One writer at a time.  The running DELETE then saw every committed row, *)
(* and the table holds one batch of a product.                             *)
OneAtATime ==
  /\ \A t, u \in Txns : Active(t) /\ Active(u) => t = u
  /\ \A t \in Txns : Active(t) => before[t] = Committed

SerialInv == IInv /\ OneAtATime /\ OneGeneration

LEMMA SerialStep == Serialised /\ SerialInv /\ [Next]_vars => (OneAtATime /\ OneGeneration)'
<1> SUFFICES ASSUME Serialised, SerialInv, [Next]_vars PROVE (OneAtATime /\ OneGeneration)'
  OBVIOUS
<1> USE DEF SerialInv
<1>0. TypeOK /\ IInv
  BY DEF IInv
<1>1. ASSUME NEW t \in Txns, BeginDelete(t) PROVE (OneAtATime /\ OneGeneration)'
  <2>1. Committed' = Committed
    BY <1>0, <1>1 DEF BeginDelete, TypeOK, Committed
  <2>2. OneAtATime'
    BY <1>0, <1>1, <2>1 DEF BeginDelete, TypeOK, OneAtATime, Active
  <2> QED
    BY <1>1, <2>2 DEF BeginDelete, OneGeneration
<1>2. ASSUME NEW t \in Txns, DeleteRow(t) PROVE (OneAtATime /\ OneGeneration)'
  BY <1>2 DEF DeleteRow, OneAtATime, OneGeneration, Active, Committed
<1>3. ASSUME NEW t \in Txns, InsertAndCommit(t) PROVE (OneAtATime /\ OneGeneration)'
  <2>1. \A u \in Txns : ~Active(u)'
    BY <1>0, <1>3 DEF InsertAndCommit, TypeOK, OneAtATime, Active
  <2>2. \A b \in live \ mine[t] : b.product \notin Scope[t]
    BY <1>0, <1>3 DEF InsertAndCommit, IInv, Covered, LiveIsCommitted, OneAtATime
  <2>3. \A b \in [product : Fresh[t], by : {t}] :
           b.product \in Scope[t] /\ b.by = t /\ b = [product |-> b.product, by |-> t]
    BY FreshAssumption, ScopeAssumption
  <2>4. OneGeneration'
    BY <1>3, <2>2, <2>3 DEF InsertAndCommit, OneGeneration
  <2> QED
    BY <2>1, <2>4 DEF OneAtATime
<1>4. ASSUME NEW t \in Txns, Active(t), Rollback(t) PROVE (OneAtATime /\ OneGeneration)'
  <2>1. Committed' = Committed
    BY <1>0, <1>4 DEF Rollback, TypeOK, Committed, Active
  <2> QED
    BY <1>0, <1>4, <2>1 DEF Rollback, TypeOK, OneAtATime, OneGeneration, Active
<1>5. CASE UNCHANGED vars
  BY <1>5 DEF vars, OneAtATime, OneGeneration, Active, Committed
<1> QED
  BY <1>1, <1>2, <1>3, <1>4, <1>5 DEF Next, Fail, DeadlockVictim

LEMMA SerialInvariance == Serialised => (Spec => []SerialInv)
<1> SUFFICES ASSUME Serialised PROVE Spec => []SerialInv
  OBVIOUS
<1>1. Init => OneAtATime /\ OneGeneration
  BY DEF Init, OneAtATime, OneGeneration, Active
<1>2. OneAtATime /\ OneGeneration /\ IInv /\ IInv' /\ [Next]_vars => (OneAtATime /\ OneGeneration)'
  BY SerialStep DEF SerialInv
<1>3. Spec => [](OneAtATime /\ OneGeneration)
  BY <1>1, <1>2, Invariance, PTL DEF Spec
<1> QED
  BY <1>3, Invariance, PTL DEF SerialInv

(* With one writer at a time a product never has two generations of rows. *)
THEOREM SerialWritersKeepOneGeneration == Serialised => (Spec => []OneGeneration)
<1>1. SerialInv => OneGeneration
  BY DEF SerialInv
<1> QED
  BY <1>1, SerialInvariance, PTL

-----------------------------------------------------------------------------
(* The writer of a set of batches that holds exactly one. *)
LEMMA WriterOfOne ==
  ASSUME NEW S, NEW b \in S, \A c \in S : c = b
  PROVE  WriterOf(S) = b.by
BY DEF WriterOf

(* A commit with no other since its DELETE began replaces the generation   *)
(* of every product in scope, and of no other.                             *)
LEMMA CommitReplaces ==
  ASSUME IInv, NEW t \in Txns, InsertAndCommit(t), before[t] = Committed
  PROVE  Generation' = [p \in Products |->
           IF p \in Fresh[t] THEN t
           ELSE IF p \in Scope[t] THEN NoRows
           ELSE Generation[p]]
<1>0. TypeOK /\ Active(t) /\ todo[t] = {}
  BY DEF IInv, InsertAndCommit
<1> DEFINE new == [product : Fresh[t], by : {t}]
           After(p) == {b \in live' : b.product = p}
<1>1. live' = (live \ mine[t]) \cup new
  BY DEF InsertAndCommit
<1>2. \A b \in new : b.product \in Fresh[t] /\ b.by = t /\ b = [product |-> b.product, by |-> t]
  OBVIOUS
<1>3. \A p \in Fresh[t] : \E b \in new : b.product = p
  <2> TAKE p \in Fresh[t]
  <2>1. [product |-> p, by |-> t] \in new
    OBVIOUS
  <2> QED
    BY <2>1
<1> HIDE DEF new
<1>4. \A b \in live \ mine[t] : b.product \notin Scope[t]
  BY <1>0 DEF IInv, Covered, LiveIsCommitted
<1>5. Fresh[t] \subseteq Scope[t]
  BY FreshAssumption
<1>6. \A b \in mine[t] : b.product \in Scope[t]
  BY DEF IInv, LocksInScope
<1>7. ASSUME NEW p \in Fresh[t] PROVE WriterOf(After(p)) = t
  <2> PICK b \in new : b.product = p
    BY <1>3
  <2>1. b \in After(p) /\ b.by = t
    BY <1>1, <1>2
  <2>2. \A c \in After(p) : c = b
    BY <1>1, <1>2, <1>4, <1>5
  <2> HIDE DEF After
  <2> QED
    BY <2>1, <2>2, WriterOfOne
<1>8. ASSUME NEW p \in Scope[t] \ Fresh[t] PROVE WriterOf(After(p)) = NoRows
  <2>1. After(p) = {}
    BY <1>1, <1>2, <1>4
  <2> QED
    BY <2>1 DEF WriterOf
<1>9. ASSUME NEW p \in Products \ Scope[t] PROVE After(p) = BatchesOf(p)
  BY <1>1, <1>2, <1>5, <1>6 DEF BatchesOf
<1>10. Generation' = [p \in Products |-> WriterOf(After(p))]
  BY DEF Generation, BatchesOf, WriterOf
<1> HIDE DEF After
<1> QED
  BY <1>5, <1>7, <1>8, <1>9, <1>10 DEF Generation

(* Only InsertAndCommit makes a transaction committed, or changes the table. *)
LEMMA OnlyCommits ==
  ASSUME TypeOK, [Next]_vars
  PROVE  /\ \A t \in Txns : pc[t] = "deleting" /\ pc'[t] = "committed" => InsertAndCommit(t)
         /\ live' # live => \E t \in Txns : InsertAndCommit(t)
<1>1. ASSUME NEW u \in Txns, BeginDelete(u) \/ DeleteRow(u)
      PROVE  live' = live /\ \A t \in Txns : ~(pc[t] = "deleting" /\ pc'[t] = "committed")
  BY <1>1 DEF BeginDelete, DeleteRow, TypeOK
<1>2. ASSUME NEW u \in Txns, Rollback(u)
      PROVE  live' = live /\ \A t \in Txns : ~(pc[t] = "deleting" /\ pc'[t] = "committed")
  BY <1>2 DEF Rollback, TypeOK
<1>3. ASSUME NEW u \in Txns, InsertAndCommit(u), NEW t \in Txns, pc[t] = "deleting",
             pc'[t] = "committed"
      PROVE  t = u
  BY <1>3 DEF InsertAndCommit, TypeOK
<1>4. CASE UNCHANGED vars
  BY <1>4 DEF vars
<1> QED
  BY <1>1, <1>2, <1>3, <1>4 DEF Next, Fail, DeadlockVictim

(* However many writers overlap, one that commits undisturbed replaces its *)
(* scope in one indivisible step.                                          *)
THEOREM UndisturbedCommitIsAtomic == Spec => UndisturbedIsAtomic
<1>1. ASSUME IInv, [Next]_vars, NEW t \in Txns, pc[t] = "deleting", pc'[t] = "committed",
             before[t] = Committed
      PROVE  Promise!Replace(t)
  <2>0. TypeOK
    BY <1>1 DEF IInv
  <2>1. InsertAndCommit(t)
    BY <1>1, <2>0, OnlyCommits
  <2>2. (Committed \ {Seed})' = (Committed \ {Seed}) \cup {t} /\ t \notin Committed
    BY <2>0, <2>1, SeedAssumption DEF InsertAndCommit, TypeOK, Committed, Active
  <2> QED
    BY <1>1, <2>1, <2>2, CommitReplaces DEF Promise!Replace
<1>2. IInv /\ [Next]_vars
        => [\A t \in Txns : pc[t] = "deleting" /\ pc'[t] = "committed" /\ before[t] = Committed
               => Promise!Replace(t)]_vars
  BY <1>1
<1> QED
  BY <1>2, Invariance, PTL DEF Spec, UndisturbedIsAtomic

(* Readers never find a product without rows because it is being replaced. *)
THEOREM ReadersSeeNoGap == Spec => NoGapForReaders
<1>1. ASSUME IInv, [Next]_vars, NEW p \in Products, BatchesOf(p) # {}, BatchesOf(p)' = {}
      PROVE  \E t \in Txns : /\ pc[t] = "deleting" /\ pc'[t] = "committed"
                            /\ p \in Scope[t] \ Fresh[t]
  <2>0. TypeOK
    BY <1>1 DEF IInv
  <2>1. live' # live
    BY <1>1 DEF BatchesOf
  <2> PICK t \in Txns : InsertAndCommit(t)
    BY <1>1, <2>0, <2>1, OnlyCommits
  <2>2. pc[t] = "deleting" /\ pc'[t] = "committed"
    BY <2>0 DEF InsertAndCommit, Active, TypeOK
  <2>3. p \in Scope[t]
    <3> PICK b \in live : b.product = p
      BY <1>1 DEF BatchesOf
    <3>1. b \in mine[t]
      BY <1>1 DEF InsertAndCommit, BatchesOf
    <3> QED
      BY <1>1, <3>1 DEF IInv, LocksInScope
  <2>4. p \notin Fresh[t]
    <3> SUFFICES ASSUME p \in Fresh[t] PROVE FALSE
      OBVIOUS
    <3>1. [product |-> p, by |-> t] \in live'
      BY DEF InsertAndCommit
    <3> QED
      BY <1>1, <3>1 DEF BatchesOf
  <2> QED
    BY <2>2, <2>3, <2>4
<1>2. IInv /\ [Next]_vars
        => [\A p \in Products :
              BatchesOf(p) # {} /\ BatchesOf(p)' = {} =>
                \E t \in Txns : /\ pc[t] = "deleting" /\ pc'[t] = "committed"
                                /\ p \in Scope[t] \ Fresh[t]]_vars
  BY <1>1
<1> QED
  BY <1>2, Invariance, PTL DEF Spec, NoGapForReaders

(* Run one at a time, the writers implement an indivisible replacement: a  *)
(* reader cannot tell the transactions from AtomicReplace.                 *)
THEOREM SerialWritersAreAtomic == Serialised => (Spec => AtomicReplacement)
<1> SUFFICES ASSUME Serialised PROVE Spec => AtomicReplacement
  OBVIOUS
<1>1. Init => Promise!Init
  <2> SUFFICES ASSUME Init PROVE Promise!Init
    OBVIOUS
  <2>1. Committed \ {Seed} = {}
    BY DEF Init, Committed
  <2>2. ASSUME NEW p \in Products PROVE Generation[p] \in {Seed, NoRows}
    <3>1. CASE BatchesOf(p) = {}
      BY <3>1 DEF Generation, WriterOf
    <3>2. CASE BatchesOf(p) # {}
      <4>1. \A b \in BatchesOf(p) : b.by = Seed
        BY DEF BatchesOf, Init
      <4> QED
        BY <3>2, <4>1 DEF Generation, WriterOf
    <3> QED
      BY <3>1, <3>2
  <2>3. Generation \in [Products -> {Seed, NoRows}]
    BY <2>2 DEF Generation
  <2> QED
    BY <2>1, <2>3 DEF Promise!Init
<1>2. SerialInv /\ SerialInv' /\ [Next]_vars
        => [Promise!Next]_<<Generation, Committed \ {Seed}>>
  <2> SUFFICES ASSUME SerialInv, SerialInv', [Next]_vars
               PROVE  [Promise!Next]_<<Generation, Committed \ {Seed}>>
    OBVIOUS
  <2>0. TypeOK
    BY DEF SerialInv, IInv
  <2>1. ASSUME NEW t \in Txns, InsertAndCommit(t) PROVE Promise!Next
    <3>1. (Committed \ {Seed})' = (Committed \ {Seed}) \cup {t} /\ t \notin Committed
      BY <2>0, <2>1, SeedAssumption DEF InsertAndCommit, TypeOK, Committed, Active
    <3>2. IInv /\ before[t] = Committed
      BY <2>1 DEF SerialInv, OneAtATime, InsertAndCommit
    <3> QED
      BY <2>1, <3>1, <3>2, CommitReplaces DEF Promise!Next, Promise!Replace
  <2>2. ASSUME live' = live, Committed' = Committed
        PROVE  UNCHANGED <<Generation, Committed \ {Seed}>>
    BY <2>2 DEF Generation, WriterOf, BatchesOf
  <2>3. ASSUME NEW t \in Txns, BeginDelete(t) \/ DeleteRow(t)
        PROVE  live' = live /\ Committed' = Committed
    BY <2>0, <2>3 DEF BeginDelete, DeleteRow, TypeOK, Committed
  <2>4. ASSUME NEW t \in Txns, Fail(t) \/ DeadlockVictim(t)
        PROVE  live' = live /\ Committed' = Committed
    BY <2>0, <2>4 DEF Fail, DeadlockVictim, Rollback, TypeOK, Committed, Active
  <2>5. CASE UNCHANGED vars
    BY <2>2, <2>5 DEF vars, Committed
  <2> QED
    BY <2>1, <2>2, <2>3, <2>4, <2>5 DEF Next
<1> QED
  BY <1>1, <1>2, SerialInvariance, PTL DEF Spec, Promise!Spec, AtomicReplacement

-----------------------------------------------------------------------------
(* What EveryReplacementEnds rests on. *)

(* A replacement has a row to visit that nobody else holds, or can commit. *)
GoesOn(t) ==
  /\ Active(t)
  /\ todo[t] = {} \/ \E b \in todo[t] : \A u \in Txns \ {t} : b \notin mine[u]

(* The writers never all wait for one another outside a deadlock that the  *)
(* detector can find: some replacement can go on, or each of them is a     *)
(* victim.  Locks of a transaction that has ended would break this.        *)
NoStandstill ==
  \/ \E t \in Txns : GoesOn(t)
  \/ \A t \in Txns : Active(t) => Deadlocked(t)

(* Writers of forecasts and narratives never block one another for good:   *)
(* from QuietOutside, only an active replacement holds rows, so those that *)
(* are all waiting wait inside their own set.                              *)
THEOREM SomebodyGoesOn == Spec => []NoStandstill
<1>1. IInv => NoStandstill
  <2> SUFFICES ASSUME IInv, \A t \in Txns : ~GoesOn(t), NEW t \in Txns, Active(t)
               PROVE  Deadlocked(t)
    BY DEF NoStandstill
  <2> DEFINE D == {u \in Txns : Active(u)}
  <2>1. ASSUME NEW u \in D
        PROVE  todo[u] # {} /\ todo[u] \subseteq UNION {mine[v] : v \in D \ {u}}
    <3>1. todo[u] # {}
      BY DEF GoesOn
    <3>2. ASSUME NEW b \in todo[u] PROVE \E v \in D \ {u} : b \in mine[v]
      <4>1. PICK v \in Txns \ {u} : b \in mine[v]
        BY DEF GoesOn
      <4>2. Active(v)
        BY <4>1 DEF IInv, QuietOutside
      <4> QED
        BY <4>1, <4>2
    <3> QED
      BY <3>1, <3>2
  <2>2. D \in SUBSET {u \in Txns : Active(u)} /\ t \in D
    OBVIOUS
  <2> HIDE DEF D
  <2> QED
    BY <2>1, <2>2 DEF Deadlocked
<1> QED
  BY <1>1, Invariance, PTL

(* What goes on comes to an end: a step of a replacement ends it or leaves *)
(* it fewer rows to visit, a step of another one takes nothing back, and   *)
(* what has ended never begins again.                                      *)
WorkShrinks ==
  [][\A t \in Txns :
       /\ Active(t) => \/ ~Active(t)'
                       \/ todo'[t] \subseteq todo[t] /\ todo'[t] # todo[t]
                       \/ todo'[t] = todo[t] /\ mine'[t] = mine[t]
       /\ pc[t] \in {"committed", "aborted"} => pc'[t] = pc[t]]_vars

(* DELETE, INSERT and COMMIT of one writer only ever bring it to its end.  *)
THEOREM ReplacementsOnlyGetShorter == Spec => WorkShrinks
<1> DEFINE
      Shorter(t) ==
        /\ Active(t) => \/ ~(pc'[t] = "deleting")
                        \/ todo'[t] \subseteq todo[t] /\ todo'[t] # todo[t]
                        \/ todo'[t] = todo[t] /\ mine'[t] = mine[t]
        /\ pc[t] \in {"committed", "aborted"} => pc'[t] = pc[t]
      Same(t) == pc'[t] = pc[t] /\ todo'[t] = todo[t] /\ mine'[t] = mine[t]
<1>1. ASSUME TypeOK, [Next]_vars, NEW t \in Txns
      PROVE  Shorter(t)
  <2>0. ASSUME NEW u \in Txns,
               \/ BeginDelete(u)
               \/ DeleteRow(u)
               \/ InsertAndCommit(u)
               \/ Fail(u)
               \/ DeadlockVictim(u)
        PROVE  Shorter(t)
    <3>1. CASE u # t
      <4>1. Same(t)
        <5>1. CASE BeginDelete(u)
          BY <5>1, <1>1, <3>1 DEF BeginDelete, TypeOK
        <5>2. CASE DeleteRow(u)
          BY <5>2, <1>1, <3>1 DEF DeleteRow, TypeOK
        <5>3. CASE InsertAndCommit(u)
          BY <5>3, <1>1, <3>1 DEF InsertAndCommit, TypeOK
        <5>4. CASE Rollback(u)
          BY <5>4, <1>1, <3>1 DEF Rollback, TypeOK
        <5> QED
          BY <2>0, <5>1, <5>2, <5>3, <5>4 DEF Fail, DeadlockVictim
      <4> QED
        BY <4>1
    <3>2. CASE u = t
      <4>1. CASE BeginDelete(t)
        BY <4>1 DEF BeginDelete, Active
      <4>2. CASE DeleteRow(t)
        <5>1. PICK b \in todo[t] : todo' = [todo EXCEPT ![t] = @ \ {b}]
          BY <4>2 DEF DeleteRow
        <5>2. todo'[t] = todo[t] \ {b}
          BY <5>1, <1>1 DEF TypeOK
        <5>3. pc'[t] = pc[t] /\ Active(t)
          BY <4>2 DEF DeleteRow
        <5> QED
          BY <5>2, <5>3 DEF Active
      <4>3. CASE InsertAndCommit(t)
        <5>1. pc'[t] = "committed" /\ Active(t)
          BY <4>3, <1>1 DEF InsertAndCommit, TypeOK
        <5> QED
          BY <5>1 DEF Active
      <4>4. CASE Active(t) /\ Rollback(t)
        <5>1. pc'[t] = "aborted"
          BY <4>4, <1>1 DEF Rollback, TypeOK
        <5> QED
          BY <5>1, <4>4 DEF Active
      <4> QED
        BY <2>0, <3>2, <4>1, <4>2, <4>3, <4>4 DEF Fail, DeadlockVictim
    <3> QED
      BY <3>1, <3>2
  <2>1. CASE UNCHANGED vars
    BY <2>1 DEF vars
  <2> QED
    BY <1>1, <2>0, <2>1 DEF Next
<1>2. ASSUME TypeOK, [Next]_vars
      PROVE  [\A t \in Txns :
                /\ Active(t) => \/ ~Active(t)'
                                \/ todo'[t] \subseteq todo[t] /\ todo'[t] # todo[t]
                                \/ todo'[t] = todo[t] /\ mine'[t] = mine[t]
                /\ pc[t] \in {"committed", "aborted"} => pc'[t] = pc[t]]_vars
  BY <1>1, <1>2 DEF Active
<1> QED
  BY <1>2, TypeCorrect, PTL DEF Spec, WorkShrinks
=============================================================================
