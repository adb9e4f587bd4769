------------------------- MODULE StreamlitApp_proofs --------------------------
(***************************************************************************)
(* Theorems about StreamlitApp, for any choice of calls, lives of entries, *)
(* bound on the time of a query and number of changes: how old what a page *)
(* shows can be, whatever the other sessions do.                           *)
(***************************************************************************)
EXTENDS StreamlitApp, TLAPS

(* A query carries the world it was asked in, which ended no longer ago    *)
(* than the query is old, and no query is older than Lag ...               *)
FlightsAreYoung ==
  \A c \in Calls : \A f \in flights[c] :
    /\ f.world <= world /\ f.age <= Lag
    /\ f.world # world => ended[f.world] <= f.age

(* ... so an entry is older than the end of its world, but for Lag. *)
EntriesAreYoung ==
  \A c \in Calls : \A e \in cache[c] :
    /\ e.world <= world /\ e.age < Ttl[c]
    /\ e.world # world => ended[e.world] <= e.age + Lag

(* The viewer's run waits for one query at most, that of its next call. *)
WaitsForItsCall ==
  \A c \in Calls : \A f \in flights[c] : f.mine =>
    \E s \in Slots : Due(s) /\ CallOf(s) = c
MineIsOne ==
  \A c, d \in Calls : \A f \in flights[c], g \in flights[d] :
    f.mine /\ g.mine => c = d /\ f = g

(* Nobody takes the lock of the forecasts away, so there is no query of    *)
(* them beside another one or beside an entry.                             *)
ForecastsAreAskedOnce ==
  /\ \A f, g \in flights["forecasts"] : f = g
  /\ \A f \in flights["forecasts"] : f.locked
  /\ flights["forecasts"] # {} => cache["forecasts"] = {}

EntryIsOne == \A e, x \in cache["forecasts"] : e = x

(* What the cache has or gets is not older than what the page draws. *)
NotBehindPage ==
  \A v \in page["forecasts"] :
    /\ v <= world
    /\ \A x \in cache["forecasts"] \cup flights["forecasts"] : v <= x.world
NotBehindRefresh ==
  /\ owed <= world
  /\ \A x \in cache["narrative"] \cup flights["narrative"] : owed <= x.world

(* The preview is the last step of a run. *)
PreviewIsLast == page["preview"] # {} => at > Len(Script)

IInv ==
  /\ TypeOK
  /\ FlightsAreYoung
  /\ EntriesAreYoung
  /\ WaitsForItsCall
  /\ MineIsOne
  /\ ForecastsAreAskedOnce
  /\ EntryIsOne
  /\ NotBehindPage
  /\ NotBehindRefresh
  /\ PreviewIsLast
  /\ RefreshShowsLatest
  /\ PreviewIsNotOlder

-----------------------------------------------------------------------------
LEMMA CallsAreCalls ==
  /\ Script \in Seq(Calls)
  /\ "preview" \notin Calls
  /\ "forecasts" \in Calls /\ "narrative" \in Calls
  /\ \A s \in Slots : CallOf(s) \in Calls
<1>1. Script \in Seq(Calls)
  BY ScriptAssumption DEF Calls
<1>2. \A k \in 1..9 : AppCalls[k] # "preview"
  BY DEF AppCalls
<1>3. "preview" \notin Calls
  BY <1>2, ScriptAssumption DEF Calls
<1> QED
  BY <1>1, <1>3, ScriptAssumption DEF Slots, CallOf

(* Where the steps of a run are. *)
LEMMA StepsInOrder ==
  ASSUME at \in Nat \ {0}
  PROVE  /\ Due("forecasts") => at <= Len(Script)
         /\ Due("preview") => at = Len(Script) + 1
         /\ \A s, t \in Slots : Due(s) /\ Due(t) => s = t
<1>1. Script \in Seq(Calls) /\ "preview" \notin Calls
  BY CallsAreCalls
<1>2. CASE click = "generate"
  <2>1. Run = Append(Script, "preview")
    BY <1>2 DEF Run
  <2>2. \A i \in DOMAIN Run : i \in 1..Len(Script) + 1
    BY <1>1, <2>1
  <2>3. Run[Len(Script) + 1] = "preview"
    BY <1>1, <2>1
  <2>4. \A i \in 1..Len(Script) : Run[i] = Script[i] /\ Script[i] \in Calls
    BY <1>1, <2>1
  <2> QED
    BY <1>1, <2>2, <2>3, <2>4 DEF Due
<1>3. CASE click # "generate"
  BY <1>1, <1>3 DEF Run, Due
<1> QED
  BY <1>2, <1>3

LEMMA InitIInv == Init => IInv
<1> SUFFICES ASSUME Init PROVE IInv
  OBVIOUS
<1> USE DEF Init
<1>1. TypeOK
  BY TimeAssumption DEF TypeOK, Worlds, Blank, Buttons
<1>2. \A c \in Calls : flights[c] = {} /\ cache[c] = {}
  OBVIOUS
<1>3. "forecasts" \in Calls /\ "narrative" \in Calls /\ \A s \in Slots : page[s] = {}
  BY CallsAreCalls DEF Blank
<1>4. {"forecasts", "narrative", "preview"} \subseteq Slots
  BY <1>3 DEF Slots
<1> QED
  BY <1>1, <1>2, <1>3, <1>4
     DEF IInv, FlightsAreYoung, EntriesAreYoung, WaitsForItsCall, MineIsOne,
         ForecastsAreAskedOnce, EntryIsOne, NotBehindPage, NotBehindRefresh, PreviewIsLast,
         RefreshShowsLatest, PreviewIsNotOlder

LEMMA ChangeKeepsIInv == ASSUME IInv, Change PROVE IInv'
<1> USE DEF IInv, Change, store_vars, view_vars
<1>0. world \in Nat /\ MaxChanges \in Nat /\ world + 1 \in Worlds
  BY TimeAssumption DEF TypeOK, Worlds
<1>1. TypeOK'
  BY <1>0 DEF TypeOK
<1>2. \A c \in Calls : cache[c] \subseteq Entry /\ flights[c] \subseteq Flight
  BY DEF TypeOK
<1>3. FlightsAreYoung'
  BY <1>0, <1>2 DEF FlightsAreYoung, TypeOK, Worlds, Flight
<1>4. EntriesAreYoung'
  BY <1>0, <1>2, TimeAssumption DEF EntriesAreYoung, TypeOK, Worlds, Entry
<1>5. (WaitsForItsCall /\ MineIsOne /\ ForecastsAreAskedOnce /\ EntryIsOne)'
  BY DEF WaitsForItsCall, MineIsOne, ForecastsAreAskedOnce, EntryIsOne, Due, Run, Waiting
<1>6. NotBehindPage'
  <2>1. page["forecasts"] \subseteq Nat
    BY CallsAreCalls DEF TypeOK, Slots, Worlds
  <2> QED
    BY <1>0, <2>1 DEF NotBehindPage
<1>7. (NotBehindRefresh /\ PreviewIsLast /\ RefreshShowsLatest /\ PreviewIsNotOlder)'
  BY <1>0 DEF NotBehindRefresh, PreviewIsLast, RefreshShowsLatest, PreviewIsNotOlder, TypeOK, Worlds
<1> QED
  BY <1>1, <1>3, <1>4, <1>5, <1>6, <1>7

LEMMA TickKeepsIInv == ASSUME IInv, Tick PROVE IInv'
<1> USE DEF IInv
<1>0. /\ \A c \in Calls : \A f \in flights[c] : f.age < Lag
      /\ flights' = [c \in Calls |-> {[f EXCEPT !.age = @ + 1] : f \in flights[c]}]
      /\ cache' = [c \in Calls |->
           {[e EXCEPT !.age = @ + 1] : e \in {x \in cache[c] : x.age + 1 < Ttl[c]}}]
      /\ ended' = [w \in Worlds |-> IF w < world THEN Older(ended[w]) ELSE 0]
      /\ world' = world /\ at' = at /\ click' = click /\ page' = page /\ owed' = owed
  BY DEF Tick, view_vars
<1>1. \A n \in Nat : Older(n) \in Nat /\ Older(n) <= n + 1
  BY DEF Older
<1>2. \A c \in Calls : cache[c] \subseteq Entry /\ flights[c] \subseteq Flight
  BY DEF TypeOK
<1>3. ASSUME NEW c \in Calls, NEW g \in flights'[c]
      PROVE  \E f \in flights[c] : /\ g = [f EXCEPT !.age = @ + 1] /\ g \in Flight
                                   /\ g.world = f.world /\ g.age = f.age + 1 /\ f.age < Lag
                                   /\ g.locked = f.locked /\ g.mine = f.mine
  <2> PICK f \in flights[c] : g = [f EXCEPT !.age = @ + 1]
    BY <1>0, <1>3
  <2>1. f \in Flight
    BY <1>2
  <2>2. g = [world |-> f.world, age |-> f.age + 1, locked |-> f.locked, mine |-> f.mine]
    BY <2>1 DEF Flight
  <2>3. f.world \in Worlds /\ f.age + 1 \in Nat /\ f.locked \in BOOLEAN /\ f.mine \in BOOLEAN
    BY <2>1 DEF Flight
  <2>4. g \in Flight
    BY <2>2, <2>3 DEF Flight
  <2>5. g.world = f.world /\ g.age = f.age + 1 /\ g.locked = f.locked /\ g.mine = f.mine
    BY <2>2
  <2>6. f.age < Lag
    BY <1>0
  <2> QED
    BY <2>4, <2>5, <2>6
<1>4. ASSUME NEW c \in Calls, NEW d \in cache'[c]
      PROVE  \E e \in cache[c] : /\ d \in Entry /\ d.world = e.world /\ d.age = e.age + 1
                                 /\ d.age < Ttl[c]
  <2> PICK e \in cache[c] : d = [e EXCEPT !.age = @ + 1] /\ e.age + 1 < Ttl[c]
    BY <1>0, <1>4
  <2>1. e \in Entry
    BY <1>2
  <2>2. d = [world |-> e.world, age |-> e.age + 1]
    BY <2>1 DEF Entry
  <2> QED
    BY <2>1, <2>2 DEF Entry
<1>5. TypeOK'
  <2>1. ended' \in [Worlds -> Nat]
    BY <1>0, <1>1 DEF TypeOK
  <2>2. cache' \in [Calls -> SUBSET Entry]
    BY <1>0, <1>4
  <2>3. flights' \in [Calls -> SUBSET Flight]
    BY <1>0, <1>3
  <2> QED
    BY <1>0, <2>1, <2>2, <2>3 DEF TypeOK
<1>6. \A w \in Worlds : w < world => ended'[w] <= ended[w] + 1
  BY <1>0, <1>1 DEF TypeOK
<1>7. FlightsAreYoung'
  <2> SUFFICES ASSUME NEW c \in Calls, NEW g \in flights'[c]
               PROVE  /\ g.world <= world /\ g.age <= Lag
                      /\ g.world # world => ended'[g.world] <= g.age
    BY <1>0 DEF FlightsAreYoung
  <2> PICK f \in flights[c] : /\ g.world = f.world /\ g.age = f.age + 1 /\ f.age < Lag
    BY <1>3
  <2>1. f \in Flight /\ f.world <= world /\ (f.world # world => ended[f.world] <= f.age)
    BY <1>2 DEF FlightsAreYoung
  <2>2. f.world \in Worlds /\ f.age \in Nat /\ Lag \in Nat
    BY <2>1, TimeAssumption DEF Flight
  <2>3. f.world # world => f.world < world
    BY <2>1, <2>2 DEF TypeOK, Worlds
  <2>4. ended[f.world] \in Nat /\ ended'[f.world] \in Nat
    BY <1>5, <2>2 DEF TypeOK
  <2>5. f.world # world => ended'[f.world] <= f.age + 1
    BY <1>6, <2>1, <2>2, <2>3, <2>4
  <2> QED
    BY <2>1, <2>2, <2>5
<1>8. EntriesAreYoung'
  <2> SUFFICES ASSUME NEW c \in Calls, NEW d \in cache'[c]
               PROVE  /\ d.world <= world /\ d.age < Ttl[c]
                      /\ d.world # world => ended'[d.world] <= d.age + Lag
    BY <1>0 DEF EntriesAreYoung
  <2> PICK e \in cache[c] : d.world = e.world /\ d.age = e.age + 1 /\ d.age < Ttl[c]
    BY <1>4
  <2>1. e \in Entry /\ e.world <= world /\ (e.world # world => ended[e.world] <= e.age + Lag)
    BY <1>2 DEF EntriesAreYoung
  <2>2. e.world \in Worlds /\ e.age \in Nat /\ Lag \in Nat
    BY <2>1, TimeAssumption DEF Entry
  <2>3. e.world # world => e.world < world
    BY <2>1, <2>2 DEF TypeOK, Worlds
  <2>4. ended[e.world] \in Nat /\ ended'[e.world] \in Nat
    BY <1>5, <2>2 DEF TypeOK
  <2>5. e.world # world => ended'[e.world] <= e.age + 1 + Lag
    BY <1>6, <2>1, <2>2, <2>3, <2>4
  <2> QED
    BY <2>1, <2>5
<1>9. WaitsForItsCall'
  BY <1>0, <1>3 DEF WaitsForItsCall, Due, Run
<1>10. MineIsOne'
  <2> SUFFICES ASSUME NEW c \in Calls, NEW d \in Calls, NEW g \in flights'[c],
                      NEW h \in flights'[d], g.mine, h.mine
               PROVE  c = d /\ g = h
    BY DEF MineIsOne
  <2> PICK f \in flights[c] : g = [f EXCEPT !.age = @ + 1] /\ f.mine
    BY <1>3
  <2> PICK k \in flights[d] : h = [k EXCEPT !.age = @ + 1] /\ k.mine
    BY <1>3
  <2> QED
    BY DEF MineIsOne
<1>11. ForecastsAreAskedOnce'
  <2>1. ASSUME NEW g \in flights'["forecasts"], NEW h \in flights'["forecasts"] PROVE g = h
    <3> PICK f \in flights["forecasts"] : g = [f EXCEPT !.age = @ + 1]
      BY <1>3, CallsAreCalls
    <3> PICK k \in flights["forecasts"] : h = [k EXCEPT !.age = @ + 1]
      BY <1>3, CallsAreCalls
    <3> QED
      BY DEF ForecastsAreAskedOnce
  <2>2. \A g \in flights'["forecasts"] : g.locked
    BY <1>3, CallsAreCalls DEF ForecastsAreAskedOnce
  <2>3. flights'["forecasts"] # {} => cache'["forecasts"] = {}
    BY <1>3, <1>4, CallsAreCalls DEF ForecastsAreAskedOnce
  <2> QED
    BY <2>1, <2>2, <2>3 DEF ForecastsAreAskedOnce
<1>12. NotBehindPage'
  BY <1>0, <1>3, <1>4, CallsAreCalls DEF NotBehindPage
<1>13. NotBehindRefresh' /\ EntryIsOne'
  <2>1. ASSUME NEW d \in cache'["forecasts"], NEW x \in cache'["forecasts"] PROVE d = x
    <3> PICK e \in cache["forecasts"] : d = [e EXCEPT !.age = @ + 1]
      BY <1>0, CallsAreCalls
    <3> PICK y \in cache["forecasts"] : x = [y EXCEPT !.age = @ + 1]
      BY <1>0, CallsAreCalls
    <3> QED
      BY DEF EntryIsOne
  <2> QED
    BY <1>0, <1>3, <1>4, <2>1, CallsAreCalls DEF NotBehindRefresh, EntryIsOne
<1>14. (PreviewIsLast /\ RefreshShowsLatest /\ PreviewIsNotOlder)'
  BY <1>0 DEF PreviewIsLast, RefreshShowsLatest, PreviewIsNotOlder
<1> QED
  BY <1>5, <1>7, <1>8, <1>9, <1>10, <1>11, <1>12, <1>13, <1>14

(* A new query, the viewer's if mine. *)
LEMMA QueryKeepsIInv ==
  ASSUME IInv, NEW c \in Calls, NEW mine \in BOOLEAN, Query(c, mine),
         mine => ~Waiting /\ \E s \in Slots : Due(s) /\ CallOf(s) = c
  PROVE  IInv'
<1> DEFINE new == [world |-> world, age |-> 0, locked |-> TRUE, mine |-> mine]
<1> USE DEF IInv
<1>0. /\ cache[c] = {}
      /\ \A f \in flights[c] : ~f.locked
      /\ flights' = [flights EXCEPT ![c] = flights[c] \cup {new}]
      /\ cache' = cache /\ world' = world /\ ended' = ended
      /\ at' = at /\ click' = click /\ page' = page /\ owed' = owed
  BY DEF Query, world_vars, view_vars
<1>1. new \in Flight /\ new.world = world /\ new.age = 0 /\ new.mine = mine /\ new.locked
  BY DEF Flight, TypeOK
<1> HIDE DEF new
<1>2. TypeOK'
  BY <1>0, <1>1 DEF TypeOK
<1>3. \A d \in Calls : flights'[d] = flights[d] \cup IF d = c THEN {new} ELSE {}
  BY <1>0 DEF TypeOK
<1>4. FlightsAreYoung'
  BY <1>0, <1>1, <1>3, TimeAssumption DEF FlightsAreYoung, TypeOK, Worlds
<1>5. EntriesAreYoung'
  BY <1>0 DEF EntriesAreYoung
<1>6. WaitsForItsCall'
  BY <1>0, <1>1, <1>3 DEF WaitsForItsCall, Due, Run
<1>7. MineIsOne'
  BY <1>0, <1>1, <1>3 DEF MineIsOne, Waiting
<1>8. ForecastsAreAskedOnce' /\ EntryIsOne'
  BY <1>0, <1>1, <1>3, CallsAreCalls DEF ForecastsAreAskedOnce, EntryIsOne
<1>9. NotBehindPage'
  BY <1>0, <1>1, <1>3, CallsAreCalls DEF NotBehindPage
<1>10. NotBehindRefresh'
  BY <1>0, <1>1, <1>3, CallsAreCalls DEF NotBehindRefresh
<1>11. (PreviewIsLast /\ RefreshShowsLatest /\ PreviewIsNotOlder)'
  BY <1>0 DEF PreviewIsLast, RefreshShowsLatest, PreviewIsNotOlder
<1> QED
  BY <1>2, <1>4, <1>5, <1>6, <1>7, <1>8, <1>9, <1>10, <1>11

(* The viewer's run gets w for the step it is due at. *)
LEMMA ShowKeepsPage ==
  ASSUME IInv, NEW s \in Slots, NEW w \in Worlds, Due(s), Show(s, w), world' = world,
         s = "preview" => \A v \in page["forecasts"] : v <= w,
         s = "narrative" => owed <= w
  PROVE  /\ at' \in Nat \ {0} /\ page' \in [Slots -> SUBSET Worlds]
         /\ click' = click /\ owed' = owed
         /\ page'["forecasts"] = IF s = "forecasts" THEN {w} ELSE page["forecasts"]
         /\ PreviewIsLast' /\ RefreshShowsLatest' /\ PreviewIsNotOlder'
<1> USE DEF IInv
<1>0. {"forecasts", "narrative", "preview"} \subseteq Slots
  BY CallsAreCalls DEF Slots
<1>1. /\ at' = at + 1 /\ at' \in Nat \ {0} /\ at \in Nat \ {0}
      /\ page' = [page EXCEPT ![s] = {w}]
      /\ click' = click /\ owed' = owed
  BY DEF Show, TypeOK
<1>2. \A t \in Slots : page'[t] = IF t = s THEN {w} ELSE page[t]
  BY <1>1 DEF TypeOK
<1>3. page' \in [Slots -> SUBSET Worlds]
  BY <1>1 DEF TypeOK
<1>4. Len(Script) \in Nat
  BY CallsAreCalls
<1>5. s = "forecasts" => page["preview"] = {}
  BY <1>1, <1>4, StepsInOrder DEF PreviewIsLast
<1>6. PreviewIsLast'
  BY <1>0, <1>1, <1>2, <1>4, StepsInOrder DEF PreviewIsLast
<1>7. RefreshShowsLatest'
  BY <1>0, <1>1, <1>2 DEF RefreshShowsLatest
<1>8. PreviewIsNotOlder'
  BY <1>0, <1>2, <1>5 DEF PreviewIsNotOlder
<1> QED
  BY <1>0, <1>1, <1>2, <1>3, <1>6, <1>7, <1>8

LEMMA ReadKeepsIInv == ASSUME IInv, NEW s \in Slots, Read(s) PROVE IInv'
<1> USE DEF IInv
<1> DEFINE c == CallOf(s)
<1>0. c \in Calls
  BY CallsAreCalls
<1> PICK e \in cache[c] : Show(s, e.world)
  BY DEF Read
<1>1. /\ Due(s) /\ ~Waiting
      /\ world' = world /\ ended' = ended /\ cache' = cache /\ flights' = flights
  BY DEF Read, world_vars, store_vars
<1>2. e \in Entry /\ e.world \in Worlds /\ e.world <= world
  BY <1>0 DEF TypeOK, EntriesAreYoung, Entry
<1>3. s = "preview" => \A v \in page["forecasts"] : v <= e.world
  BY DEF NotBehindPage, CallOf
<1>4. s = "narrative" => owed <= e.world
  BY DEF NotBehindRefresh, CallOf
<1>5. /\ at' \in Nat \ {0} /\ page' \in [Slots -> SUBSET Worlds]
      /\ click' = click /\ owed' = owed
      /\ page'["forecasts"] = IF s = "forecasts" THEN {e.world} ELSE page["forecasts"]
      /\ PreviewIsLast' /\ RefreshShowsLatest' /\ PreviewIsNotOlder'
  BY <1>1, <1>2, <1>3, <1>4, ShowKeepsPage
<1>6. (TypeOK /\ FlightsAreYoung /\ EntriesAreYoung /\ MineIsOne /\ ForecastsAreAskedOnce
        /\ EntryIsOne /\ NotBehindRefresh)'
  BY <1>1, <1>5
     DEF TypeOK, FlightsAreYoung, EntriesAreYoung, MineIsOne, ForecastsAreAskedOnce, EntryIsOne,
         NotBehindRefresh
<1>7. WaitsForItsCall'
  BY <1>1 DEF WaitsForItsCall, Waiting
<1>8. NotBehindPage'
  <2>1. CASE s = "forecasts"
    <3>1. c = "forecasts" /\ flights["forecasts"] = {} /\ cache["forecasts"] \subseteq Entry
      BY <1>0, <2>1 DEF CallOf, ForecastsAreAskedOnce, TypeOK
    <3>2. \A x \in cache["forecasts"] : x = e
      BY <3>1 DEF EntryIsOne
    <3>3. e.world <= e.world
      BY <1>2 DEF Worlds
    <3> QED
      BY <1>1, <1>2, <1>5, <2>1, <3>1, <3>2, <3>3 DEF NotBehindPage
  <2>2. CASE s # "forecasts"
    BY <1>1, <1>5, <2>2 DEF NotBehindPage
  <2> QED
    BY <2>1, <2>2
<1> QED
  BY <1>5, <1>6, <1>7, <1>8

LEMMA AnswerKeepsIInv ==
  ASSUME IInv, NEW c \in Calls, NEW f \in flights[c], Answer(c, f) PROVE IInv'
<1> USE DEF IInv
<1> DEFINE new == [world |-> f.world, age |-> 0]
<1>0. /\ flights' = [flights EXCEPT ![c] = flights[c] \ {f}]
      /\ cache' = [cache EXCEPT ![c] = {new}]
      /\ world' = world /\ ended' = ended
      /\ f.mine => Show(Run[at], f.world)
      /\ ~f.mine => at' = at /\ click' = click /\ page' = page /\ owed' = owed
  BY DEF Answer, world_vars, view_vars
<1>1. /\ f \in Flight /\ f.world \in Worlds /\ f.mine \in BOOLEAN
      /\ f.world <= world /\ f.age <= Lag /\ f.age \in Nat
      /\ f.world # world => ended[f.world] <= f.age
  BY DEF TypeOK, Flight, FlightsAreYoung
<1>2. new \in Entry /\ new.world = f.world /\ new.age = 0
  BY <1>1 DEF Entry
<1> HIDE DEF new
<1>3. /\ \A d \in Calls : flights'[d] = IF d = c THEN flights[d] \ {f} ELSE flights[d]
      /\ \A d \in Calls : cache'[d] = IF d = c THEN {new} ELSE cache[d]
  BY <1>0 DEF TypeOK
<1>4. "forecasts" \in Calls /\ "narrative" \in Calls
  BY CallsAreCalls
<1>5. f.mine => \E s \in Slots : Due(s) /\ CallOf(s) = c /\ Run[at] = s
  BY DEF WaitsForItsCall, Due
<1>6. /\ at' \in Nat \ {0} /\ page' \in [Slots -> SUBSET Worlds]
      /\ click' = click /\ owed' = owed
      /\ \/ page'["forecasts"] = page["forecasts"]
         \/ page'["forecasts"] = {f.world} /\ c = "forecasts"
      /\ PreviewIsLast' /\ RefreshShowsLatest' /\ PreviewIsNotOlder'
  <2>1. CASE f.mine
    <3> PICK s \in Slots : Due(s) /\ CallOf(s) = c /\ Run[at] = s
      BY <1>5, <2>1
    <3>1. s = "preview" => \A v \in page["forecasts"] : v <= f.world
      BY DEF NotBehindPage, CallOf
    <3>2. s = "narrative" => owed <= f.world
      BY DEF NotBehindRefresh, CallOf
    <3>3. Show(s, f.world)
      BY <1>0, <2>1
    <3>4. s = "forecasts" => c = "forecasts"
      BY DEF CallOf
    <3> QED
      BY <1>0, <1>1, <3>1, <3>2, <3>3, <3>4, ShowKeepsPage
  <2>2. CASE ~f.mine
    BY <1>0, <2>2 DEF TypeOK, PreviewIsLast, RefreshShowsLatest, PreviewIsNotOlder
  <2> QED
    BY <1>1, <2>1, <2>2
<1>7. TypeOK'
  BY <1>0, <1>2, <1>6 DEF TypeOK
<1>8. FlightsAreYoung'
  BY <1>0, <1>3 DEF FlightsAreYoung
<1>9. EntriesAreYoung'
  <2>1. Ttl[c] \in Nat \ {0} /\ Lag \in Nat
    BY TimeAssumption
  <2>2. f.world # world => ended[f.world] \in Nat
    BY <1>1 DEF TypeOK
  <2>3. new.age < Ttl[c] /\ (new.world # world => ended[new.world] <= new.age + Lag)
    BY <1>1, <1>2, <2>1, <2>2
  <2> QED
    BY <1>0, <1>1, <1>2, <1>3, <2>3 DEF EntriesAreYoung
<1>10. WaitsForItsCall' /\ MineIsOne'
  <2>1. CASE f.mine
    <3>1. \A d \in Calls : \A g \in flights'[d] : ~g.mine
      <4>1. MineIsOne
        OBVIOUS
      <4> HIDE DEF IInv
      <4>2. SUFFICES ASSUME NEW d \in Calls, NEW g \in flights'[d], g.mine PROVE FALSE
        OBVIOUS
      <4>3. g \in flights[d] /\ (d = c => g # f)
        BY <1>3
      <4>4. c = d /\ f = g
        BY <2>1, <4>1, <4>2, <4>3 DEF MineIsOne
      <4> QED
        BY <4>3, <4>4
    <3> QED
      BY <3>1 DEF WaitsForItsCall, MineIsOne
  <2>2. CASE ~f.mine
    BY <1>0, <1>3, <2>2 DEF WaitsForItsCall, MineIsOne, Due, Run
  <2> QED
    BY <1>1, <2>1, <2>2
<1>11. ForecastsAreAskedOnce' /\ EntryIsOne'
  BY <1>3, <1>4 DEF ForecastsAreAskedOnce, EntryIsOne
<1>12. NotBehindPage'
  <2>1. page["forecasts"] \subseteq Nat /\ f.world \in Nat
    BY <1>1, <1>4 DEF TypeOK, Slots, Worlds
  <2>2. CASE page'["forecasts"] = page["forecasts"]
    BY <1>0, <1>2, <1>3, <1>4, <2>2 DEF NotBehindPage
  <2>3. CASE page'["forecasts"] = {f.world} /\ c = "forecasts"
    <3>1. flights'["forecasts"] = {} /\ cache'["forecasts"] = {new}
      BY <1>3, <1>4, <2>3 DEF ForecastsAreAskedOnce
    <3> QED
      BY <1>0, <1>1, <1>2, <2>1, <2>3, <3>1 DEF NotBehindPage
  <2> QED
    BY <1>6, <2>2, <2>3
<1>13. NotBehindRefresh'
  BY <1>0, <1>2, <1>3, <1>4, <1>6 DEF NotBehindRefresh
<1> QED
  BY <1>6, <1>7, <1>8, <1>9, <1>10, <1>11, <1>12, <1>13

(* What is left of the queries when the summaries are forgotten. *)
LEMMA ForgetKeepsRest ==
  ASSUME IInv, Forget, UNCHANGED world_vars
  PROVE  /\ cache' \in [Calls -> SUBSET Entry] /\ flights' \in [Calls -> SUBSET Flight]
         /\ FlightsAreYoung' /\ EntriesAreYoung' /\ MineIsOne'
         /\ ForecastsAreAskedOnce' /\ EntryIsOne'
         /\ cache'["forecasts"] = cache["forecasts"]
         /\ flights'["forecasts"] = flights["forecasts"]
         /\ cache'["narrative"] = {}
         /\ flights["narrative"] = {} => flights'["narrative"] = {}
         /\ \A g \in flights'["narrative"] : owed <= g.world
         /\ \A c \in Calls : \A g \in flights'[c] : g.mine => \E f \in flights[c] : f.mine
<1> USE DEF IInv
<1>0. /\ cache' = [cache EXCEPT !["narrative"] = {}]
      /\ flights' = [flights EXCEPT !["narrative"] =
           {[f EXCEPT !.locked = FALSE] : f \in flights["narrative"]}]
      /\ world' = world /\ ended' = ended
  BY DEF Forget, world_vars
<1>1. "forecasts" \in Calls /\ "narrative" \in Calls
  BY CallsAreCalls
<1>2. \A c \in Calls : cache[c] \subseteq Entry /\ flights[c] \subseteq Flight
  BY DEF TypeOK
<1>3. /\ \A c \in Calls : c # "narrative" => flights'[c] = flights[c] /\ cache'[c] = cache[c]
      /\ flights'["narrative"] = {[f EXCEPT !.locked = FALSE] : f \in flights["narrative"]}
      /\ cache'["narrative"] = {}
  BY <1>0, <1>1 DEF TypeOK
<1>4. ASSUME NEW g \in flights'["narrative"]
      PROVE  \E f \in flights["narrative"] :
                /\ g = [f EXCEPT !.locked = FALSE] /\ g \in Flight
                /\ g.world = f.world /\ g.age = f.age /\ g.mine = f.mine
  <2> PICK f \in flights["narrative"] : g = [f EXCEPT !.locked = FALSE]
    BY <1>3
  <2>1. f \in Flight
    BY <1>1, <1>2
  <2>2. g = [world |-> f.world, age |-> f.age, locked |-> FALSE, mine |-> f.mine]
    BY <2>1 DEF Flight
  <2> QED
    BY <2>1, <2>2 DEF Flight
<1>5. cache' \in [Calls -> SUBSET Entry] /\ flights' \in [Calls -> SUBSET Flight]
  <2>1. flights'["narrative"] \subseteq Flight
    BY <1>4
  <2> QED
    BY <1>0, <1>3, <2>1 DEF TypeOK
<1>6. FlightsAreYoung'
  <2> SUFFICES ASSUME NEW c \in Calls, NEW g \in flights'[c]
               PROVE  /\ g.world <= world /\ g.age <= Lag
                      /\ g.world # world => ended[g.world] <= g.age
    BY <1>0 DEF FlightsAreYoung
  <2>1. \E f \in flights[c] : g.world = f.world /\ g.age = f.age
    BY <1>3, <1>4
  <2> QED
    BY <2>1 DEF FlightsAreYoung
<1>7. EntriesAreYoung'
  BY <1>0, <1>3 DEF EntriesAreYoung
<1>8. ASSUME NEW c \in Calls, NEW g \in flights'[c], g.mine PROVE \E f \in flights[c] : f.mine
  BY <1>3, <1>4, <1>8
<1>9. MineIsOne'
  <2> SUFFICES ASSUME NEW c \in Calls, NEW d \in Calls, NEW g \in flights'[c],
                      NEW h \in flights'[d], g.mine, h.mine
               PROVE  c = d /\ g = h
    BY DEF MineIsOne
  <2>1. c = d
    BY <1>8 DEF MineIsOne
  <2>2. CASE c = "narrative"
    <3> PICK f \in flights["narrative"] : g = [f EXCEPT !.locked = FALSE] /\ f.mine
      BY <1>4, <2>2
    <3> PICK k \in flights["narrative"] : h = [k EXCEPT !.locked = FALSE] /\ k.mine
      BY <1>4, <2>1, <2>2
    <3> QED
      BY <1>1, <2>1 DEF MineIsOne
  <2>3. CASE c # "narrative"
    BY <1>3, <2>1, <2>3 DEF MineIsOne
  <2> QED
    BY <2>2, <2>3
<1>10. ForecastsAreAskedOnce' /\ EntryIsOne'
  BY <1>1, <1>3 DEF ForecastsAreAskedOnce, EntryIsOne
<1>11. \A g \in flights'["narrative"] : owed <= g.world
  BY <1>4 DEF NotBehindRefresh
<1> QED
  BY <1>1, <1>3, <1>5, <1>6, <1>7, <1>8, <1>9, <1>10, <1>11

LEMMA OthersRefreshKeepsIInv == ASSUME IInv, OthersRefresh PROVE IInv'
<1> USE DEF IInv
<1>0. /\ Forget /\ UNCHANGED world_vars /\ world' = world /\ ended' = ended
      /\ at' = at /\ click' = click /\ page' = page /\ owed' = owed
  BY DEF OthersRefresh, world_vars, view_vars
<1>1. /\ cache' \in [Calls -> SUBSET Entry] /\ flights' \in [Calls -> SUBSET Flight]
      /\ FlightsAreYoung' /\ EntriesAreYoung' /\ MineIsOne'
      /\ ForecastsAreAskedOnce' /\ EntryIsOne'
      /\ cache'["forecasts"] = cache["forecasts"]
      /\ flights'["forecasts"] = flights["forecasts"]
      /\ cache'["narrative"] = {}
      /\ \A g \in flights'["narrative"] : owed <= g.world
      /\ \A c \in Calls : \A g \in flights'[c] : g.mine => \E f \in flights[c] : f.mine
  BY <1>0, ForgetKeepsRest
<1>2. TypeOK'
  BY <1>0, <1>1 DEF TypeOK
<1>3. WaitsForItsCall'
  BY <1>0, <1>1 DEF WaitsForItsCall, Due, Run
<1>4. NotBehindPage' /\ NotBehindRefresh'
  BY <1>0, <1>1 DEF NotBehindPage, NotBehindRefresh
<1>5. (PreviewIsLast /\ RefreshShowsLatest /\ PreviewIsNotOlder)'
  BY <1>0 DEF PreviewIsLast, RefreshShowsLatest, PreviewIsNotOlder
<1> QED
  BY <1>1, <1>2, <1>3, <1>4, <1>5

(* A run that begins has read nothing. *)
LEMMA RestartClearsPage ==
  ASSUME IInv, NEW b \in Buttons, Restart(b)
  PROVE  /\ at' \in Nat \ {0} /\ click' \in Buttons /\ page' \in [Slots -> SUBSET Worlds]
         /\ (NotBehindPage /\ PreviewIsLast /\ RefreshShowsLatest /\ PreviewIsNotOlder)'
<1>1. at' = 1 /\ click' = b /\ page' = Blank
  BY DEF Restart
<1>2. {"forecasts", "narrative", "preview"} \subseteq Slots
  BY CallsAreCalls DEF Slots
<1>3. page'["forecasts"] = {} /\ page'["narrative"] = {} /\ page'["preview"] = {}
  BY <1>1, <1>2 DEF Blank
<1>4. page' \in [Slots -> SUBSET Worlds]
  BY <1>1 DEF Blank
<1> QED
  BY <1>1, <1>3, <1>4 DEF NotBehindPage, PreviewIsLast, RefreshShowsLatest, PreviewIsNotOlder

LEMMA InteractKeepsIInv == ASSUME IInv, NEW b \in Buttons, Interact(b) PROVE IInv'
<1> USE DEF IInv
<1>0. /\ ~Waiting /\ Restart(b)
      /\ world' = world /\ ended' = ended /\ cache' = cache /\ flights' = flights /\ owed' = owed
  BY DEF Interact, world_vars, store_vars
<1>1. /\ at' \in Nat \ {0} /\ click' \in Buttons /\ page' \in [Slots -> SUBSET Worlds]
      /\ (NotBehindPage /\ PreviewIsLast /\ RefreshShowsLatest /\ PreviewIsNotOlder)'
  BY <1>0, RestartClearsPage
<1>2. TypeOK'
  BY <1>0, <1>1 DEF TypeOK
<1>3. (FlightsAreYoung /\ EntriesAreYoung /\ MineIsOne /\ ForecastsAreAskedOnce
        /\ EntryIsOne /\ NotBehindRefresh)'
  BY <1>0 DEF FlightsAreYoung, EntriesAreYoung, MineIsOne, ForecastsAreAskedOnce, EntryIsOne,
              NotBehindRefresh
<1>4. WaitsForItsCall'
  BY <1>0 DEF WaitsForItsCall, Waiting
<1> QED
  BY <1>1, <1>2, <1>3, <1>4

LEMMA RefreshKeepsIInv == ASSUME IInv, Refresh PROVE IInv'
<1> USE DEF IInv
<1>0. /\ Forget /\ Restart("none") /\ UNCHANGED world_vars /\ world' = world /\ ended' = ended
      /\ owed' = IF flights["narrative"] = {} THEN world ELSE owed
  BY DEF Refresh, world_vars
<1>1. /\ cache' \in [Calls -> SUBSET Entry] /\ flights' \in [Calls -> SUBSET Flight]
      /\ FlightsAreYoung' /\ EntriesAreYoung' /\ MineIsOne'
      /\ ForecastsAreAskedOnce' /\ EntryIsOne'
      /\ cache'["narrative"] = {}
      /\ flights["narrative"] = {} => flights'["narrative"] = {}
      /\ \A g \in flights'["narrative"] : owed <= g.world
      /\ \A c \in Calls : \A g \in flights'[c] : g.mine => \E f \in flights[c] : f.mine
  BY <1>0, ForgetKeepsRest
<1>2. "none" \in Buttons
  BY DEF Buttons
<1>3. /\ at' \in Nat \ {0} /\ click' \in Buttons /\ page' \in [Slots -> SUBSET Worlds]
      /\ (NotBehindPage /\ PreviewIsLast /\ RefreshShowsLatest /\ PreviewIsNotOlder)'
  BY <1>0, <1>2, RestartClearsPage
<1>4. world \in Nat /\ owed' \in Worlds /\ owed' <= world
  BY <1>0 DEF TypeOK, Worlds, NotBehindRefresh
<1>5. TypeOK'
  BY <1>0, <1>1, <1>3, <1>4 DEF TypeOK
<1>6. \A s \in Slots : ~Due(s)
  BY DEF Refresh, Due
<1>7. \A c \in Calls : \A f \in flights[c] : ~f.mine
  BY <1>6 DEF WaitsForItsCall
<1>8. WaitsForItsCall'
  BY <1>1, <1>7 DEF WaitsForItsCall
<1>9. NotBehindRefresh'
  BY <1>0, <1>1, <1>4 DEF NotBehindRefresh
<1> QED
  BY <1>1, <1>3, <1>5, <1>8, <1>9

LEMMA NextKeepsIInv == IInv /\ [Next]_vars => IInv'
<1> SUFFICES ASSUME IInv, [Next]_vars PROVE IInv'
  OBVIOUS
<1>1. CASE Change
  BY <1>1, ChangeKeepsIInv
<1>2. CASE Tick
  BY <1>2, TickKeepsIInv
<1>3. ASSUME NEW c \in Calls, OthersQuery(c) PROVE IInv'
  <2>1. FALSE \in BOOLEAN /\ Query(c, FALSE)
    BY <1>3 DEF OthersQuery
  <2> QED
    BY <2>1, QueryKeepsIInv
<1>4. ASSUME NEW c \in Calls, NEW f \in flights[c], Answer(c, f) PROVE IInv'
  BY <1>4, AnswerKeepsIInv
<1>5. CASE OthersRefresh
  BY <1>5, OthersRefreshKeepsIInv
<1>6. ASSUME NEW s \in Slots, Read(s) PROVE IInv'
  BY <1>6, ReadKeepsIInv
<1>7. ASSUME NEW s \in Slots, Ask(s) PROVE IInv'
  <2>1. Due(s) /\ ~Waiting /\ Query(CallOf(s), TRUE) /\ CallOf(s) \in Calls
    BY <1>7, CallsAreCalls DEF Ask
  <2>2. TRUE => ~Waiting /\ \E t \in Slots : Due(t) /\ CallOf(t) = CallOf(s)
    BY <2>1
  <2>3. TRUE \in BOOLEAN
    OBVIOUS
  <2> QED
    BY <2>1, <2>2, <2>3, QueryKeepsIInv
<1>8. ASSUME NEW b \in Buttons, Interact(b) PROVE IInv'
  BY <1>8, InteractKeepsIInv
<1>9. CASE Refresh
  BY <1>9, RefreshKeepsIInv
<1>10. CASE UNCHANGED vars
  BY <1>10 DEF vars, IInv, TypeOK, FlightsAreYoung, EntriesAreYoung, WaitsForItsCall, MineIsOne,
     ForecastsAreAskedOnce, EntryIsOne, NotBehindPage, NotBehindRefresh, PreviewIsLast,
     RefreshShowsLatest, PreviewIsNotOlder, Due, Run
<1> QED
  BY <1>1, <1>2, <1>3, <1>4, <1>5, <1>6, <1>7, <1>8, <1>9, <1>10 DEF Next

LEMMA Invariance == Spec => []IInv
<1> QED
  BY InitIInv, NextKeepsIInv, PTL DEF Spec

-----------------------------------------------------------------------------
(* The variables keep their types, whatever the sessions and the services  *)
(* do to the cache of streamlit_app.py.                                    *)
THEOREM TypeCorrect == Spec => []TypeOK
<1>1. IInv => TypeOK
  BY DEF IInv
<1> QED
  BY <1>1, Invariance, PTL

(* After Refresh (streamlit_app.py:1397) the viewer's pages never show a   *)
(* summary from before the click, unless a query that was under way then   *)
(* puts one back: for any number of sessions and any lives of entries.     *)
THEOREM RefreshIsLatest == Spec => []RefreshShowsLatest
<1>1. IInv => RefreshShowsLatest
  BY DEF IInv
<1> QED
  BY <1>1, Invariance, PTL

(* "Generate live" (streamlit_app.py:1424) never describes older forecasts *)
(* than those the page draws.                                              *)
THEOREM PreviewKeepsUp == Spec => []PreviewIsNotOlder
<1>1. IInv => PreviewIsNotOlder
  BY DEF IInv
<1> QED
  BY <1>1, Invariance, PTL

LEMMA ShownIsYoung ==
  ASSUME IInv, NEW slot \in Slots, NEW w \in Worlds, Show(slot, w),
         w # world => ended[w] < Ttl[CallOf(slot)] + Lag
  PROVE  \A s \in Slots : \A v \in page'[s] \ page[s] :
           v # world => ended[v] < Ttl[CallOf(s)] + Lag
<1>1. \A s \in Slots : page'[s] = IF s = slot THEN {w} ELSE page[s]
  BY DEF Show, IInv, TypeOK
<1> QED
  BY <1>1

(* What a run reads was so less than Ttl + Lag ago (st.cache_data,         *)
(* streamlit_app.py:213-303): a read does not give an entry a new life,    *)
(* and an answer that comes late has only its own delay.                   *)
THEOREM StalenessIsAlwaysBounded == Spec => StalenessIsBounded
<1> DEFINE Young == \A s \in Slots : \A w \in page'[s] \ page[s] :
                      w # world => ended[w] < Ttl[CallOf(s)] + Lag
<1>1. ASSUME IInv, [Next]_vars PROVE [Young]_vars
  <2>1. ASSUME page' = page PROVE Young
    BY <2>1
  <2>2. ASSUME NEW s \in Slots, Read(s) PROVE Young
    <3> DEFINE c == CallOf(s)
    <3>1. c \in Calls
      BY CallsAreCalls
    <3> PICK e \in cache[c] : Show(s, e.world)
      BY <2>2 DEF Read
    <3>2. /\ e \in Entry /\ e.world \in Worlds /\ e.age \in Nat /\ e.age < Ttl[c]
          /\ e.world # world => ended[e.world] <= e.age + Lag
      BY <1>1, <3>1 DEF IInv, TypeOK, EntriesAreYoung, Entry
    <3>3. ended[e.world] \in Nat /\ Ttl[c] \in Nat /\ Lag \in Nat
      BY <1>1, <3>1, <3>2, TimeAssumption DEF IInv, TypeOK
    <3>4. e.world # world => ended[e.world] < Ttl[c] + Lag
      BY <3>2, <3>3
    <3> QED
      BY <1>1, <3>2, <3>4, ShownIsYoung
  <2>3. ASSUME NEW c \in Calls, NEW f \in flights[c], Answer(c, f) PROVE Young
    <3>1. CASE ~f.mine
      BY <2>1, <2>3, <3>1 DEF Answer, view_vars
    <3>2. CASE f.mine
      <4> PICK s \in Slots : Due(s) /\ CallOf(s) = c
        BY <1>1, <3>2 DEF IInv, WaitsForItsCall
      <4>1. Show(s, f.world)
        BY <2>3, <3>2 DEF Answer, Due
      <4>2. /\ f.world \in Worlds /\ f.age \in Nat /\ f.age <= Lag
            /\ f.world # world => ended[f.world] <= f.age
        BY <1>1 DEF IInv, TypeOK, FlightsAreYoung, Flight
      <4>3. ended[f.world] \in Nat /\ Ttl[c] \in Nat \ {0} /\ Lag \in Nat
        BY <1>1, <4>2, TimeAssumption DEF IInv, TypeOK
      <4>4. f.world # world => ended[f.world] < Ttl[c] + Lag
        BY <4>2, <4>3
      <4> QED
        BY <1>1, <4>1, <4>2, <4>4, ShownIsYoung
    <3>3. f.mine \in BOOLEAN
      BY <1>1 DEF IInv, TypeOK, Flight
    <3> QED
      BY <3>1, <3>2, <3>3
  <2>4. ASSUME NEW b \in Buttons, Restart(b) PROVE Young
    <3>1. \A s \in Slots : page'[s] = {}
      BY <2>4 DEF Restart, Blank
    <3> QED
      BY <3>1
  <2>5. CASE Change \/ Tick \/ OthersRefresh
    BY <2>1, <2>5 DEF Change, Tick, OthersRefresh, view_vars
  <2>6. ASSUME NEW c \in Calls, OthersQuery(c) PROVE Young
    BY <2>1, <2>6 DEF OthersQuery, Query, view_vars
  <2>7. ASSUME NEW s \in Slots, Ask(s) PROVE Young
    BY <2>1, <2>7 DEF Ask, Query, view_vars
  <2>8. ASSUME NEW b \in Buttons, Interact(b) PROVE Young
    BY <2>4, <2>8 DEF Interact
  <2>9. CASE Refresh
    BY <2>4, <2>9 DEF Refresh, Buttons
  <2> HIDE DEF Young
  <2> QED
    BY <1>1, <2>2, <2>3, <2>5, <2>6, <2>7, <2>8, <2>9 DEF Next
<1> QED
  BY <1>1, Invariance, PTL DEF Spec, StalenessIsBounded
=============================================================================
