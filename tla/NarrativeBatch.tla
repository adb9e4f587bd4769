---------------------------- MODULE NarrativeBatch ----------------------------
(***************************************************************************)
(* scripts/sync_narratives.py: the operator's batch that writes the AI     *)
(* summaries of a limited number of stores.  The main thread chooses the   *)
(* stores, loads their forecast rows, hands one job per store to a thread  *)
(* pool, pausing between two hand-overs, and only then collects the        *)
(* results in the order of their completion and saves each in a            *)
(* transaction of its own.  The operator runs it again and again.          *)
(***************************************************************************)
EXTENDS Naturals, FiniteSets

CONSTANTS
  NumProducts,    \* stores are 1 .. NumProducts, ordered as their ids
  Limit,          \* --limit
  Workers,        \* --workers
  SkipExisting,   \* --skip-existing
  Bad,            \* stores whose generation fails in every run
  MaxFaults       \* bound: interruptions, accidents and failing saves

Products == 1 .. NumProducts

ASSUME SizesAssumption ==
  /\ NumProducts \in Nat /\ MaxFaults \in Nat
  /\ Limit \in Nat \ {0} /\ Workers \in Nat \ {0}
ASSUME FlagsAssumption == SkipExisting \in BOOLEAN /\ Bad \subseteq Products

VARIABLES
  forecasts,   \* stores with rows in the table forecasts
  narratives,  \* stores with a row in the table narratives
  phase,       \* of the script
  chosen,      \* the stores this run processes
  toLoad,      \* chosen stores whose rows are still to be read
  toSubmit,    \* loaded stores that are not in the thread pool yet
  work,        \* state of each store's job
  faults

batch_vars == <<forecasts, narratives, phase, chosen, toLoad, toSubmit, work, faults>>

Over == {"idle", "ended", "aborted"}
With(state) == {p \in Products : work[p] = state}
Lowest(S) == {p \in S : \A q \in S : p <= q}
FirstOf(S, n) == {p \in S : Cardinality({q \in S : q < p}) < n}

BatchInit ==
  /\ forecasts \in {S \in SUBSET Products : Cardinality(S) >= NumProducts - 1}
  /\ narratives = {}
  /\ phase = "idle"
  /\ chosen = {}
  /\ toLoad = {}
  /\ toSubmit = {}
  /\ work = [p \in Products |-> "none"]
  /\ faults = 0

-----------------------------------------------------------------------------
(* A run starts with the stores it will process; none: it returns at once. *)
Start(ids) ==
  /\ phase \in Over
  /\ ids # {}
  /\ phase' = "loading"
  /\ chosen' = ids
  /\ toLoad' = ids
  /\ toSubmit' = {}
  /\ work' = [p \in Products |-> "none"]
  /\ UNCHANGED <<forecasts, narratives, faults>>

(* Mutant: --skip-existing has no effect. *)
AllCandidates == forecasts

(* SELECT DISTINCT product_id ... ORDER BY product_id LIMIT :limit *)
Candidates == IF SkipExisting THEN forecasts \ narratives ELSE forecasts

FetchProductIds == Start(FirstOf(Candidates, Limit))

(* --product takes the store as given, whether or not it has rows. *)
SingleStore(p) == Start({p})

(* Rows are read store by store; a store that has none is skipped. *)
LoadRows ==
  /\ phase = "loading"
  /\ \E p \in Lowest(toLoad) :
       /\ toLoad' = toLoad \ {p}
       /\ toSubmit' = toSubmit \cup ({p} \cap forecasts)
  /\ UNCHANGED <<forecasts, narratives, phase, chosen, work, faults>>

RowsLoaded ==
  /\ phase = "loading"
  /\ toLoad = {}
  /\ phase' = IF toSubmit = {} THEN "ended" ELSE "launching"
  /\ UNCHANGED <<forecasts, narratives, chosen, toLoad, toSubmit, work, faults>>

(* time.sleep(delay); pool.submit(...) *)
Submit ==
  /\ phase = "launching"
  /\ \E p \in Lowest(toSubmit) :
       /\ toSubmit' = toSubmit \ {p}
       /\ work' = [work EXCEPT ![p] = "queued"]
  /\ phase' = IF toSubmit' = {} THEN "collecting" ELSE "launching"
  /\ UNCHANGED <<forecasts, narratives, chosen, toLoad, faults>>

WorkerTakes ==
  /\ phase \in {"launching", "collecting"}
  /\ Cardinality(With("running")) < Workers
  /\ \E p \in Lowest(With("queued")) : work' = [work EXCEPT ![p] = "running"]
  /\ UNCHANGED <<forecasts, narratives, phase, chosen, toLoad, toSubmit, faults>>

(* _generate_one returns the summary, or the exception, as its result; a   *)
(* generation may also fail by accident, after its three attempts.         *)
Returns(p, state) ==
  /\ phase \in {"launching", "collecting"}
  /\ work[p] = "running"
  /\ work' = [work EXCEPT ![p] = state]
  /\ UNCHANGED <<forecasts, narratives, phase, chosen, toLoad, toSubmit>>

WorkerReturns(p) ==
  /\ Returns(p, IF p \in Bad THEN "failed" ELSE "done")
  /\ UNCHANGED faults

WorkerFails(p) ==
  /\ Returns(p, "failed")
  /\ faults < MaxFaults
  /\ faults' = faults + 1

SaveNarrative(p) ==
  /\ phase = "collecting"
  /\ work[p] = "done"
  /\ narratives' = narratives \cup {p}
  /\ work' = [work EXCEPT ![p] = "saved"]
  /\ UNCHANGED <<forecasts, phase, chosen, toLoad, toSubmit, faults>>

(* Mutant: the first failure ends the loop. *)
LogFailureAndStop(p) ==
  /\ phase = "collecting"
  /\ work[p] = "failed"
  /\ work' = [work EXCEPT ![p] = "reported"]
  /\ phase' = "ended"
  /\ UNCHANGED <<forecasts, narratives, chosen, toLoad, toSubmit, faults>>

LogFailure(p) ==
  /\ phase = "collecting"
  /\ work[p] = "failed"
  /\ work' = [work EXCEPT ![p] = "reported"]
  /\ UNCHANGED <<forecasts, narratives, phase, chosen, toLoad, toSubmit, faults>>

(* Nothing catches an exception of the save: the loop is left, the other   *)
(* results are dropped.                                                    *)
SaveRaises(p) ==
  /\ phase = "collecting"
  /\ work[p] = "done"
  /\ faults < MaxFaults
  /\ faults' = faults + 1
  /\ phase' = "aborted"
  /\ UNCHANGED <<forecasts, narratives, chosen, toLoad, toSubmit, work>>

AllCollected ==
  /\ phase = "collecting"
  /\ \A p \in Products : work[p] \in {"none", "saved", "reported"}
  /\ phase' = "ended"
  /\ UNCHANGED <<forecasts, narratives, chosen, toLoad, toSubmit, work, faults>>

(* Ctrl-C, a closed laptop, a killed process.  The collecting loop only    *)
(* begins after the last Submit: what has finished before is lost.         *)
Interrupt ==
  /\ phase \notin Over
  /\ faults < MaxFaults
  /\ faults' = faults + 1
  /\ phase' = "aborted"
  /\ UNCHANGED <<forecasts, narratives, chosen, toLoad, toSubmit, work>>

ScriptStep ==
  \/ LoadRows \/ RowsLoaded \/ Submit \/ WorkerTakes \/ AllCollected
  \/ \E p \in Products : WorkerReturns(p) \/ SaveNarrative(p) \/ LogFailure(p)

BatchNext ==
  \/ FetchProductIds
  \/ \E p \in Products : SingleStore(p) \/ WorkerFails(p) \/ SaveRaises(p)
  \/ ScriptStep
  \/ Interrupt

BatchSpec == BatchInit /\ [][BatchNext]_batch_vars

(* The script runs, the LLM calls end (request timeout, three attempts),   *)
(* and the operator comes back to the batch mode again and again.          *)
BatchFairSpec == BatchSpec /\ WF_batch_vars(ScriptStep) /\ SF_batch_vars(FetchProductIds)

-----------------------------------------------------------------------------
Jobs == {"none", "queued", "running", "done", "failed", "saved", "reported"}

BatchTypeOK ==
  /\ forecasts \subseteq Products
  /\ narratives \subseteq Products
  /\ phase \in Over \cup {"loading", "launching", "collecting"}
  /\ chosen \subseteq Products
  /\ toLoad \subseteq chosen
  /\ toSubmit \subseteq chosen \cap forecasts
  /\ work \in [Products -> Jobs]
  /\ faults \in 0 .. MaxFaults

(* One store's failure costs no other store its summary: when a run ends,  *)
(* each chosen store that had rows has been saved or has itself failed.    *)
FailuresAreIsolated ==
  phase = "ended" =>
    \A p \in chosen \cap forecasts : work[p] = "reported" \/ p \in narratives

(* A summary is only ever written for a store that had forecast rows.      *)
NoSummaryWithoutForecasts == narratives \subseteq forecasts

(* With --skip-existing, every store that has rows and can be summarised   *)
(* gets its summary in the end, whatever fails on the way.                 *)
EveryStoreIsSummarised ==
  \A p \in Products : p \in forecasts \ Bad ~> p \in narratives
=============================================================================
