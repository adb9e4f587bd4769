------------------------------ MODULE StorePanel ------------------------------
(***************************************************************************)
(* The "Store Forecast" panel of the dashboard                             *)
(* (components/dashboard/store-forecast-section.tsx): a store selector, an *)
(* effect that loads the selected store's forecast and saved summary, and  *)
(* a button that asks the API for a fresh summary.  Two kinds of answers   *)
(* write the same React state: the effect cancels its own late answers,    *)
(* the button's handler does not.  (narrative-section.tsx is the same      *)
(* component without the forecast.)                                        *)
(***************************************************************************)
EXTENDS Naturals

CONSTANTS
  Stores,
  Nothing,        \* JavaScript's null
  MaxSelections,  \* bound: how often the user changes the store
  MaxClicks       \* bound: how often the user presses the button

(* A summary is known by its store and version, a forecast by its store. *)
Summary == [store : Stores, version : Nat]
Load == [key : Stores, answered : BOOLEAN, forecast : Stores \cup {Nothing},
         narrative : Summary \cup {Nothing}]
Generation == [key : Stores, forecast : Stores \cup {Nothing}, fresh : Summary \cup {Nothing}]

(* null is no object. *)
ASSUME NothingAssumption == Nothing \notin Stores \cup Summary \cup Load \cup Generation
ASSUME BoundsAssumption == MaxSelections \in Nat /\ MaxClicks \in Nat

VARIABLES
  storeId,      \* the selected store
  result,       \* {key, forecast, narrative}, the last answer put in the state
  load,         \* the load that has not been cancelled, if it is in flight
  generation,   \* the closure of handleGenerate, while "generating"
  saved,        \* the API's side: version of each store's saved narrative
  selections, clicks,
  hasty         \* history: the user changed the store while a summary was being
                \* generated, or asked for one while a load was in flight

vars == <<storeId, result, load, generation, saved, selections, clicks, hasty>>

SavedSummary(s) == IF saved[s] = 0 THEN Nothing ELSE [store |-> s, version |-> saved[s]]

(* What is rendered: "loading" until the state's key is the selection. *)
Loading == result.key # storeId
Forecast == IF Loading THEN Nothing ELSE result.forecast
Narrative == IF Loading THEN Nothing ELSE result.narrative

Asked(s) == [key |-> s, answered |-> FALSE, forecast |-> Nothing, narrative |-> Nothing]

Init ==
  /\ storeId \in Stores
  /\ result = [key |-> Nothing, forecast |-> Nothing, narrative |-> Nothing]
  /\ load = Asked(storeId)
  /\ generation = Nothing
  /\ saved \in [Stores -> {0, 1}]
  /\ selections = 0
  /\ clicks = 0
  /\ hasty = FALSE

-----------------------------------------------------------------------------
(* Mutant: the effect does not depend on storeId: it runs only once. *)
SelectStoreWithoutLoad(s) ==
  /\ s # storeId
  /\ selections < MaxSelections
  /\ storeId' = s
  /\ selections' = selections + 1
  /\ hasty' = (hasty \/ generation # Nothing)
  /\ UNCHANGED <<result, load, generation, saved, clicks>>

(* The effect's cleanup cancels the load in flight; the effect of the new  *)
(* selection starts another one.  A generation in flight goes on.          *)
SelectStore(s) ==
  /\ s # storeId
  /\ selections < MaxSelections
  /\ storeId' = s
  /\ load' = Asked(s)
  /\ selections' = selections + 1
  /\ hasty' = (hasty \/ generation # Nothing)
  /\ UNCHANGED <<result, generation, saved, clicks>>

(* The API answers the load's two requests; a request that fails is null. *)
ApiAnswersLoad ==
  /\ load # Nothing
  /\ ~load.answered
  /\ \E f \in {load.key, Nothing}, n \in {SavedSummary(load.key), Nothing} :
       load' = [load EXCEPT !.answered = TRUE, !.forecast = f, !.narrative = n]
  /\ UNCHANGED <<storeId, result, generation, saved, selections, clicks, hasty>>

LoadArrives ==
  /\ load # Nothing
  /\ load.answered
  /\ result' = [key |-> load.key, forecast |-> load.forecast, narrative |-> load.narrative]
  /\ load' = Nothing
  /\ UNCHANGED <<storeId, generation, saved, selections, clicks, hasty>>

(* Mutant: the handler does not carry the forecast over. *)
HandleGenerateDropsForecast ==
  /\ generation = Nothing
  /\ clicks < MaxClicks
  /\ generation' = [key |-> storeId, forecast |-> Nothing, fresh |-> Nothing]
  /\ clicks' = clicks + 1
  /\ hasty' = (hasty \/ load # Nothing)
  /\ UNCHANGED <<storeId, result, load, saved, selections>>

(* The handler's closure keeps the selection and the forecast as rendered. *)
HandleGenerate ==
  /\ generation = Nothing
  /\ clicks < MaxClicks
  /\ generation' = [key |-> storeId, forecast |-> Forecast, fresh |-> Nothing]
  /\ clicks' = clicks + 1
  /\ hasty' = (hasty \/ load # Nothing)
  /\ UNCHANGED <<storeId, result, load, saved, selections>>

(* Mutant: the API answers with the store's oldest summary. *)
ApiAnswersOldest ==
  /\ generation # Nothing
  /\ generation.fresh = Nothing
  /\ LET s == generation.key IN
       /\ saved' = [saved EXCEPT ![s] = @ + 1]
       /\ generation' = [generation EXCEPT !.fresh = [store |-> s, version |-> 1]]
  /\ UNCHANGED <<storeId, result, load, selections, clicks, hasty>>

(* POST /narrative/{id}/generate replaces the saved narrative. *)
ApiGenerates ==
  /\ generation # Nothing
  /\ generation.fresh = Nothing
  /\ LET s == generation.key IN
       /\ saved' = [saved EXCEPT ![s] = @ + 1]
       /\ generation' = [generation EXCEPT !.fresh = [store |-> s, version |-> saved[s] + 1]]
  /\ UNCHANGED <<storeId, result, load, selections, clicks, hasty>>

(* Mutant: the answer is filed under the selection of the moment. *)
GenerateArrivesUnderSelection ==
  /\ generation # Nothing
  /\ generation.fresh # Nothing
  /\ result' = [key |-> storeId, forecast |-> generation.forecast,
                narrative |-> generation.fresh]
  /\ generation' = Nothing
  /\ UNCHANGED <<storeId, load, saved, selections, clicks, hasty>>

GenerateArrives ==
  /\ generation # Nothing
  /\ generation.fresh # Nothing
  /\ result' = [key |-> generation.key, forecast |-> generation.forecast,
                narrative |-> generation.fresh]
  /\ generation' = Nothing
  /\ UNCHANGED <<storeId, load, saved, selections, clicks, hasty>>

(* The request fails, before or after the API saved: the state is kept. *)
GenerateFails ==
  /\ generation # Nothing
  /\ generation' = Nothing
  /\ UNCHANGED <<storeId, result, load, saved, selections, clicks, hasty>>

Answers == ApiAnswersLoad \/ LoadArrives
Generates == ApiGenerates \/ GenerateArrives

Next ==
  \/ \E s \in Stores : SelectStore(s)
  \/ HandleGenerate
  \/ Answers
  \/ Generates
  \/ GenerateFails

Spec == Init /\ [][Next]_vars

(* Requests are answered or fail, and the browser delivers what arrives.   *)
FairSpec == Spec /\ WF_vars(Answers) /\ WF_vars(Generates)

-----------------------------------------------------------------------------
Content == [key : Stores \cup {Nothing}, forecast : Stores \cup {Nothing},
            narrative : Summary \cup {Nothing}]

TypeOK ==
  /\ storeId \in Stores
  /\ result \in Content
  /\ load \in Load \cup {Nothing}
  /\ generation \in Generation \cup {Nothing}
  /\ saved \in [Stores -> Nat]
  /\ selections \in 0 .. MaxSelections
  /\ clicks \in 0 .. MaxClicks
  /\ hasty \in BOOLEAN

(* Whatever arrives in whatever order, the panel shows a forecast and a    *)
(* summary of the selected store or none: never another store's.           *)
ShowsSelectedStoreOnly ==
  /\ Forecast \in {storeId, Nothing}
  /\ Narrative # Nothing => Narrative.store = storeId

(* "Any store's full 30-day forecast ... plus its AI executive summary"    *)
(* (README.md:106): a panel that says "Loading..." comes to show the store.*)
LoadingEnds == Loading ~> ~Loading

(* It does so for a user who lets each summary arrive before leaving its   *)
(* store, however fast the stores are changed otherwise.                   *)
LoadingEndsUnlessHasty == Loading ~> ~Loading \/ hasty

(* A forecast on screen stays while its store is selected: an answer about *)
(* the summary does not turn it into "No forecast found", unless the       *)
(* summary was asked for before the forecast was there.  (A reload of a    *)
(* store that was left and chosen again may fail and does.)                *)
ForecastStays ==
  [][storeId' = storeId /\ load' = load /\ Forecast # Nothing /\ ~hasty
       => Forecast' # Nothing]_vars

(* A summary on screen is never replaced by an older one of its store,     *)
(* whatever the order of the answers.                                      *)
SummaryNeverAges ==
  [][storeId' = storeId /\ Narrative # Nothing /\ Narrative' # Nothing /\ ~hasty
       => Narrative'.version >= Narrative.version]_vars
=============================================================================
