-------------------------- MODULE StorePanel_proofs --------------------------
(***************************************************************************)
(* The panel shows the selected store or nothing, and a user who is not    *)
(* hasty keeps the forecast and never sees an older summary: for any       *)
(* stores and any number of selections and clicks.                         *)
(***************************************************************************)
EXTENDS StorePanel, TLAPS

(* An answer is about the store it carries as its key. *)
AboutItsKey(x) ==
  /\ x.forecast \in {x.key, Nothing}
  /\ x.narrative # Nothing => x.narrative.store = x.key

IInv ==
  /\ TypeOK
  /\ AboutItsKey(result)
  /\ load # Nothing => AboutItsKey(load)
  /\ generation # Nothing =>
       /\ generation.forecast \in {generation.key, Nothing}
       /\ generation.fresh # Nothing => generation.fresh.store = generation.key

-----------------------------------------------------------------------------
LEMMA InitIInv == Init => IInv
<1> SUFFICES ASSUME Init PROVE IInv
  OBVIOUS
<1>1. hasty \in BOOLEAN
  BY DEF Init
<1> QED
  BY <1>1, NothingAssumption, BoundsAssumption
     DEF Init, IInv, TypeOK, Load, Generation, Content, AboutItsKey, Asked

LEMMA SavedIsItsStores ==
  ASSUME TypeOK, NEW s \in Stores
  PROVE  /\ SavedSummary(s) \in Summary \cup {Nothing}
         /\ SavedSummary(s) # Nothing => SavedSummary(s).store = s
BY DEF TypeOK, SavedSummary, Summary

LEMMA InductiveStep == IInv /\ [Next]_vars => IInv'
<1> SUFFICES ASSUME IInv, [Next]_vars PROVE IInv'
  OBVIOUS
<1>0. hasty' \in BOOLEAN
  BY DEF IInv, TypeOK, Next, Answers, Generates, SelectStore, HandleGenerate, ApiAnswersLoad,
         LoadArrives, ApiGenerates, GenerateArrives, GenerateFails, vars
<1> USE BoundsAssumption DEF IInv, TypeOK, Load, Generation
<1>1. ASSUME NEW s \in Stores, SelectStore(s) PROVE IInv'
  BY <1>0, <1>1 DEF SelectStore, Asked, AboutItsKey
<1>2. CASE HandleGenerate
  BY <1>0, <1>2, NothingAssumption DEF HandleGenerate, Forecast, Loading, Content, AboutItsKey
<1>3. CASE ApiAnswersLoad
  <2> PICK f \in {load.key, Nothing}, n \in {SavedSummary(load.key), Nothing} :
         load' = [load EXCEPT !.answered = TRUE, !.forecast = f, !.narrative = n]
    BY <1>3 DEF ApiAnswersLoad
  <2>1. load # Nothing /\ UNCHANGED <<storeId, result, generation, saved, selections, clicks>>
    BY <1>3 DEF ApiAnswersLoad
  <2>2. n \in Summary \cup {Nothing} /\ (n # Nothing => n.store = load.key)
    BY <2>1, SavedIsItsStores
  <2> QED
    BY <1>0, <2>1, <2>2 DEF AboutItsKey
<1>4. CASE LoadArrives
  BY <1>0, <1>4 DEF LoadArrives, Content, AboutItsKey
<1>5. CASE ApiGenerates
  BY <1>0, <1>5 DEF ApiGenerates, Summary, AboutItsKey
<1>6. CASE GenerateArrives
  BY <1>0, <1>6 DEF GenerateArrives, Content, AboutItsKey
<1>7. CASE GenerateFails
  BY <1>0, <1>7 DEF GenerateFails
<1>8. CASE UNCHANGED vars
  BY <1>0, <1>8 DEF vars
<1> QED
  BY <1>1, <1>2, <1>3, <1>4, <1>5, <1>6, <1>7, <1>8 DEF Next, Answers, Generates

(* The panel's state and the closures of store-forecast-section.tsx keep   *)
(* their types: what an answer carries is a forecast, a summary or null.   *)
THEOREM TypeCorrect == Spec => []TypeOK
<1>1. IInv => TypeOK
  BY DEF IInv
<1> QED
  BY <1>1, InitIInv, InductiveStep, PTL DEF Spec

(* Whatever arrives in whatever order, the panel never shows the forecast  *)
(* or the summary of another store than the selected one.                  *)
THEOREM PanelShowsSelectedStore == Spec => []ShowsSelectedStoreOnly
<1>1. IInv => ShowsSelectedStoreOnly
  BY DEF IInv, AboutItsKey, ShowsSelectedStoreOnly, Forecast, Narrative, Loading
<1> QED
  BY <1>1, InitIInv, InductiveStep, PTL DEF Spec

-----------------------------------------------------------------------------
(* While the user has not been hasty, a load and a generation are never in *)
(* flight together, and both are about the selected store; what a closure  *)
(* or an answer carries is what the panel and the API hold.                *)
LoadIsCurrent ==
  load # Nothing =>
    /\ load.key = storeId
    /\ generation = Nothing
    /\ load.answered /\ load.narrative # Nothing => load.narrative.version = saved[load.key]

GenerationIsCurrent ==
  generation # Nothing =>
    /\ generation.key = storeId
    /\ generation.forecast = result.forecast
    /\ generation.fresh # Nothing => generation.fresh.version = saved[generation.key]

ResultIsCurrent ==
  /\ load = Nothing => result.key = storeId
  /\ result.narrative # Nothing => result.narrative.version <= saved[result.key]

Calm == ~hasty => LoadIsCurrent /\ GenerationIsCurrent /\ ResultIsCurrent

LEMMA CalmInit == Init => Calm
<1> SUFFICES ASSUME Init PROVE LoadIsCurrent /\ GenerationIsCurrent /\ ResultIsCurrent
  BY DEF Calm
<1>1. Asked(storeId) \in Load
  BY DEF Init, Asked, Load
<1> QED
  BY <1>1, NothingAssumption
     DEF Init, LoadIsCurrent, GenerationIsCurrent, ResultIsCurrent, Asked

LEMMA CalmStep == IInv /\ IInv' /\ Calm /\ [Next]_vars => Calm'
<1> SUFFICES ASSUME IInv, IInv', Calm, [Next]_vars, ~hasty'
             PROVE  (LoadIsCurrent /\ GenerationIsCurrent /\ ResultIsCurrent)'
  BY DEF Calm
<1> USE DEF LoadIsCurrent, GenerationIsCurrent, ResultIsCurrent
<1>1. ASSUME NEW s \in Stores, SelectStore(s)
      PROVE  (LoadIsCurrent /\ GenerationIsCurrent /\ ResultIsCurrent)'
  <2>1. ~hasty /\ generation = Nothing
    BY <1>1 DEF SelectStore
  <2>2. Asked(s) \in Load
    BY <1>1 DEF Asked, Load
  <2> QED
    BY <1>1, <2>1, <2>2, NothingAssumption DEF SelectStore, Asked, Calm
<1>2. CASE HandleGenerate
  <2>1. ~hasty /\ load = Nothing
    BY <1>2 DEF HandleGenerate
  <2>2. result.key = storeId /\ ~Loading
    BY <2>1 DEF Calm, Loading
  <2> QED
    BY <1>2, <2>1, <2>2 DEF HandleGenerate, Calm, Forecast
<1>3. CASE ApiAnswersLoad
  <2>1. PICK f \in {load.key, Nothing}, n \in {SavedSummary(load.key), Nothing} :
          load' = [load EXCEPT !.answered = TRUE, !.forecast = f, !.narrative = n]
    BY <1>3 DEF ApiAnswersLoad
  <2>2. /\ ~hasty /\ load \in Load
        /\ UNCHANGED <<storeId, result, generation, saved>>
    BY <1>3 DEF ApiAnswersLoad, IInv, TypeOK
  <2>3. load'.narrative = n /\ load'.key = load.key
    BY <2>1, <2>2 DEF Load
  <2>4. n # Nothing => n.version = saved[load.key]
    BY DEF SavedSummary
  <2>5. n \in Summary \cup {Nothing}
    BY <2>2, SavedIsItsStores DEF IInv, Load
  <2>6. load' \in Load
    BY <2>1, <2>2, <2>5 DEF Load
  <2>7. load # Nothing /\ load' # Nothing
    BY <1>3, <2>6, NothingAssumption DEF ApiAnswersLoad
  <2> QED
    BY <2>2, <2>3, <2>4, <2>7 DEF Calm
<1>4. CASE LoadArrives
  <2>1. /\ ~hasty /\ load \in Load /\ load # Nothing /\ load.answered
        /\ load' = Nothing /\ result'.key = load.key /\ result'.narrative = load.narrative
        /\ UNCHANGED <<storeId, generation, saved>>
    BY <1>4 DEF LoadArrives, IInv, TypeOK
  <2>2. load.narrative # Nothing => load.narrative.version \in Nat
    BY <2>1 DEF Load, Summary
  <2> QED
    BY <2>1, <2>2 DEF Calm
<1>5. CASE ApiGenerates
  <2>1. /\ ~hasty /\ generation \in Generation /\ generation # Nothing
        /\ UNCHANGED <<storeId, result, load>>
    BY <1>5 DEF ApiGenerates, IInv, TypeOK
  <2>2. /\ generation'.key = generation.key /\ generation'.forecast = generation.forecast
        /\ generation'.fresh.version = saved'[generation.key]
        /\ saved[storeId] <= saved'[storeId]
    BY <1>5, <2>1 DEF ApiGenerates, IInv, TypeOK, Generation, Calm
  <2>3. load = Nothing /\ generation.key = storeId /\ result.key = storeId
    BY <2>1 DEF Calm
  <2>4. result.narrative # Nothing => result.narrative.version \in Nat
    BY DEF IInv, TypeOK, Content, Summary
  <2>5. result.narrative # Nothing => result.narrative.version <= saved'[result.key]
    BY <2>1, <2>2, <2>3, <2>4 DEF Calm, IInv, TypeOK
  <2> QED
    BY <2>1, <2>2, <2>3, <2>5 DEF Calm
<1>6. CASE GenerateArrives
  <2>1. /\ ~hasty /\ generation \in Generation /\ generation # Nothing
        /\ generation.fresh # Nothing /\ generation' = Nothing
        /\ result'.key = generation.key /\ result'.narrative = generation.fresh
        /\ UNCHANGED <<storeId, load, saved>>
    BY <1>6 DEF GenerateArrives, IInv, TypeOK
  <2>2. generation.fresh.version \in Nat
    BY <2>1 DEF Generation, Summary
  <2> QED
    BY <2>1, <2>2 DEF Calm
<1>7. CASE GenerateFails
  BY <1>7 DEF GenerateFails, Calm
<1>8. CASE UNCHANGED vars
  BY <1>8 DEF vars, Calm
<1> QED
  BY <1>1, <1>2, <1>3, <1>4, <1>5, <1>6, <1>7, <1>8 DEF Next, Answers, Generates

LEMMA CalmInvariance == Spec => [](IInv /\ Calm)
<1>1. IInv /\ Calm /\ [Next]_vars => (IInv /\ Calm)'
  BY InductiveStep, CalmStep
<1> QED
  BY <1>1, InitIInv, CalmInit, PTL DEF Spec

(* A user who is not hasty keeps the forecast that is on screen: the       *)
(* closure that is written back carries the one that was rendered.         *)
THEOREM ForecastIsKept == Spec => ForecastStays
<1>1. IInv /\ Calm /\ [Next]_vars =>
        [storeId' = storeId /\ load' = load /\ Forecast # Nothing /\ ~hasty
           => Forecast' # Nothing]_vars
  <2> SUFFICES ASSUME IInv, Calm, [Next]_vars,
                      storeId' = storeId, load' = load, Forecast # Nothing, ~hasty
               PROVE  Forecast' # Nothing
    OBVIOUS
  <2>1. CASE GenerateArrives
    <3>1. result'.key = storeId /\ result'.forecast = result.forecast
      BY <2>1 DEF GenerateArrives, Calm, GenerationIsCurrent
    <3> QED
      BY <3>1 DEF Forecast, Loading
  <2>2. CASE LoadArrives
    BY <2>2 DEF LoadArrives
  <2>3. CASE UNCHANGED result
    BY <2>3 DEF Forecast, Loading
  <2> QED
    BY <2>1, <2>2, <2>3
       DEF Next, Answers, Generates, SelectStore, HandleGenerate, ApiAnswersLoad,
           ApiGenerates, GenerateFails, vars
<1> QED
  BY <1>1, CalmInvariance, PTL DEF Spec, ForecastStays

(* Nor does such a user ever see an older summary replace a newer one.     *)
THEOREM SummariesOnlyGetNewer == Spec => SummaryNeverAges
<1>1. IInv /\ Calm /\ [Next]_vars =>
        [storeId' = storeId /\ Narrative # Nothing /\ Narrative' # Nothing /\ ~hasty
           => Narrative'.version >= Narrative.version]_vars
  <2> SUFFICES ASSUME IInv, Calm, [Next]_vars, ~hasty,
                      storeId' = storeId, Narrative # Nothing, Narrative' # Nothing
               PROVE  Narrative'.version >= Narrative.version
    OBVIOUS
  <2>0. /\ result.key = storeId /\ Narrative = result.narrative
        /\ result'.key = storeId /\ Narrative' = result'.narrative
        /\ Narrative.version \in Nat /\ Narrative.version <= saved[storeId]
    BY DEF Narrative, Loading, Calm, ResultIsCurrent, IInv, TypeOK, Content, Summary
  <2>1. CASE GenerateArrives
    BY <2>0, <2>1 DEF GenerateArrives, Calm, GenerationIsCurrent
  <2>2. CASE LoadArrives
    BY <2>0, <2>2 DEF LoadArrives, Calm, LoadIsCurrent
  <2>3. CASE UNCHANGED result
    BY <2>0, <2>3
  <2> QED
    BY <2>1, <2>2, <2>3
       DEF Next, Answers, Generates, SelectStore, HandleGenerate, ApiAnswersLoad,
           ApiGenerates, GenerateFails, vars
<1> QED
  BY <1>1, CalmInvariance, PTL DEF Spec, SummaryNeverAges
=============================================================================
