----------------------------- MODULE StreamlitApp -----------------------------
(***************************************************************************)
(* The Streamlit dashboard: a script that runs from top to bottom whenever *)
(* its user touches a widget, and reads everything through st.cache_data.  *)
(* One cache serves all browser sessions.  This module follows one session *)
(* (the viewer's) and lets all others start queries and press Refresh at   *)
(* any time.                                                               *)
(*                                                                         *)
(* What a query returns is known by the world it was asked in: worlds are  *)
(* numbered, and the next one begins when rows are replaced, a summary is  *)
(* saved, the report is written, or PostgreSQL or the API goes down or     *)
(* comes back.  A failed query is no exception for the script: _pg_query   *)
(* turns it into an empty frame and the fetch functions into None, and     *)
(* st.cache_data keeps that like any other result.                         *)
(*                                                                         *)
(* Time is counted in units of which a query takes at most Lag.            *)
(***************************************************************************)
EXTENDS Naturals, Sequences

CONSTANTS
  Script,      \* the cached calls an instance looks at, in their order
  Ttl,         \* Ttl[c]: how long an entry of c lives
  Lag,         \* the longest time a query takes
  Old,         \* bound: ages are not counted beyond it
  MaxChanges   \* bound on the number of worlds

(* The calls of one run in the order of the script: the frames of the      *)
(* network tab and the sidebar, the API's health, the chosen store, the    *)
(* report of the benchmark tab, the store's summary.                       *)
AppCalls == <<"fleet", "dow", "trend", "weekly", "coverage",
              "health", "forecasts", "baseline", "narrative">>
Calls == {Script[i] : i \in DOMAIN Script}

ASSUME ScriptAssumption ==
  /\ Script \in Seq({AppCalls[k] : k \in 1..9})
  /\ \A i, j \in DOMAIN Script : i < j =>
       \E k, l \in 1..9 : k < l /\ Script[i] = AppCalls[k] /\ Script[j] = AppCalls[l]
  /\ {"forecasts", "narrative"} \subseteq Calls
ASSUME TimeAssumption ==
  /\ Lag \in Nat /\ Old \in Nat /\ MaxChanges \in Nat
  /\ Ttl \in [Calls -> Nat \ {0}]
  /\ \A c \in Calls : Ttl[c] + Lag < Old

Worlds == 0..MaxChanges
Slots == Calls \cup {"preview"}
Buttons == {"none", "refresh", "generate"}

VARIABLES
  world,     \* the number of the present world
  ended,     \* history: for each earlier world, how long ago it ended
  cache,     \* cache[c]: the living entry of c, a set of at most one
  flights,   \* flights[c]: the queries of c on their way; "mine" is the
             \* viewer's, and a locked one makes all others wait for it
  at,        \* the step of the viewer's run, beyond the last one: finished
  click,     \* the button that started the viewer's run
  page,      \* page[s]: the world the viewer's run has read s from, if it has
  owed       \* history: the first world that Refresh owes the viewer

world_vars == <<world, ended>>
store_vars == <<cache, flights>>
view_vars == <<at, click, page, owed>>
vars == <<world, ended, cache, flights, at, click, page, owed>>

Blank == [s \in Slots |-> {}]

Init ==
  /\ world = 0
  /\ ended = [w \in Worlds |-> 0]
  /\ cache = [c \in Calls |-> {}]
  /\ flights = [c \in Calls |-> {}]
  /\ at = 1
  /\ click = "none"
  /\ page = Blank
  /\ owed = 0

(* The steps of the viewer's run.  "Generate live" reads the forecasts a   *)
(* second time, for the prompt of a summary that is shown and not kept.    *)
Run == IF click = "generate" THEN Append(Script, "preview") ELSE Script
CallOf(slot) == IF slot = "preview" THEN "forecasts" ELSE slot
Due(slot) ==
  /\ at \in DOMAIN Run
  /\ Run[at] = slot
  /\ ~(slot = "narrative" /\ click = "refresh")

-----------------------------------------------------------------------------
(* Somebody replaces rows, or a service goes down or comes back. *)
Change ==
  /\ world < MaxChanges
  /\ world' = world + 1
  /\ ended' = [ended EXCEPT ![world] = 0]
  /\ UNCHANGED <<store_vars, view_vars>>

Older(n) == IF n < Old THEN n + 1 ELSE n

(* Time passes: entries die at the end of their life, however often they   *)
(* have been read, and no query takes longer than Lag.                     *)
Tick ==
  /\ \A c \in Calls : \A f \in flights[c] : f.age < Lag
  /\ flights' = [c \in Calls |-> {[f EXCEPT !.age = @ + 1] : f \in flights[c]}]
  /\ cache' = [c \in Calls |->
       {[e EXCEPT !.age = @ + 1] : e \in {x \in cache[c] : x.age + 1 < Ttl[c]}}]
  /\ ended' = [w \in Worlds |-> IF w < world THEN Older(ended[w]) ELSE 0]
  /\ UNCHANGED <<world, view_vars>>

(* A session that finds no entry queries, unless another one holds the     *)
(* lock of the call: then it waits for that one's entry.                   *)
Query(c, mine) ==
  /\ cache[c] = {}
  /\ \A f \in flights[c] : ~f.locked
  /\ flights' = [flights EXCEPT ![c] =
       @ \cup {[world |-> world, age |-> 0, locked |-> TRUE, mine |-> mine]}]
  /\ UNCHANGED <<cache, world_vars, view_vars>>

OthersQuery(c) == Query(c, FALSE)

(* The viewer's run goes on with the result of its call. *)
Show(slot, w) ==
  /\ page' = [page EXCEPT ![slot] = {w}]
  /\ at' = at + 1
  /\ UNCHANGED <<click, owed>>

(* The answer, data or not, becomes the entry and lives from now on. *)
Answer(c, f) ==
  /\ flights' = [flights EXCEPT ![c] = @ \ {f}]
  /\ cache' = [cache EXCEPT ![c] = {[world |-> f.world, age |-> 0]}]
  /\ IF f.mine THEN Show(Run[at], f.world) ELSE UNCHANGED view_vars
  /\ UNCHANGED world_vars

(* Mutant: st.cache_data.clear() instead of fetch_narrative.clear(). *)
ForgetEverything ==
  /\ cache' = [c \in Calls |-> {}]
  /\ flights' = [c \in Calls |-> {[f EXCEPT !.locked = FALSE] : f \in flights[c]}]

(* fetch_narrative.clear(): the entry and the locks go; queries on their   *)
(* way will be stored all the same.                                        *)
Forget ==
  /\ cache' = [cache EXCEPT !["narrative"] = {}]
  /\ flights' = [flights EXCEPT !["narrative"] = {[f EXCEPT !.locked = FALSE] : f \in @}]

OthersRefresh == Forget /\ UNCHANGED <<world_vars, view_vars>>

-----------------------------------------------------------------------------
Waiting == \E c \in Calls : \E f \in flights[c] : f.mine

(* Mutant: an entry that is read begins a new life. *)
ReadRenews(slot) ==
  /\ Due(slot) /\ ~Waiting
  /\ \E e \in cache[CallOf(slot)] :
       /\ Show(slot, e.world)
       /\ cache' = [cache EXCEPT ![CallOf(slot)] = {[e EXCEPT !.age = 0]}]
  /\ UNCHANGED <<world_vars, flights>>

(* The viewer's run makes its next call and finds an entry ... *)
Read(slot) ==
  /\ Due(slot) /\ ~Waiting
  /\ \E e \in cache[CallOf(slot)] : Show(slot, e.world)
  /\ UNCHANGED <<world_vars, store_vars>>

(* ... or has to ask. *)
Ask(slot) == Due(slot) /\ ~Waiting /\ Query(CallOf(slot), TRUE)

Restart(button) == at' = 1 /\ click' = button /\ page' = Blank

(* The user touches a widget or presses a button: a run is given up        *)
(* between two calls, with the button that had started it, and a new run   *)
(* begins.                                                                 *)
Interact(button) ==
  /\ ~Waiting
  /\ Restart(button)
  /\ UNCHANGED <<world_vars, store_vars, owed>>

(* Mutant: Refresh only starts the script again. *)
RefreshOnlyReruns ==
  /\ at \in DOMAIN Run /\ Run[at] = "narrative" /\ click = "refresh"
  /\ Restart("none")
  /\ owed' = IF flights["narrative"] = {} THEN world ELSE owed
  /\ UNCHANGED <<world_vars, store_vars>>

(* A run started by Refresh comes to its button: the summaries are         *)
(* forgotten and the script starts again.  A query on its way now may      *)
(* still bring an older summary.                                           *)
Refresh ==
  /\ at \in DOMAIN Run /\ Run[at] = "narrative" /\ click = "refresh"
  /\ Forget
  /\ Restart("none")
  /\ owed' = IF flights["narrative"] = {} THEN world ELSE owed
  /\ UNCHANGED world_vars

Next ==
  \/ Change
  \/ Tick
  \/ \E c \in Calls : OthersQuery(c) \/ \E f \in flights[c] : Answer(c, f)
  \/ OthersRefresh
  \/ \E s \in Slots : Read(s) \/ Ask(s)
  \/ \E b \in Buttons : Interact(b)
  \/ Refresh

Spec == Init /\ [][Next]_vars

-----------------------------------------------------------------------------
Entry == [world : Worlds, age : Nat]
Flight == [world : Worlds, age : Nat, locked : BOOLEAN, mine : BOOLEAN]

TypeOK ==
  /\ world \in Worlds
  /\ ended \in [Worlds -> Nat]
  /\ cache \in [Calls -> SUBSET Entry]
  /\ flights \in [Calls -> SUBSET Flight]
  /\ at \in Nat \ {0}
  /\ click \in Buttons
  /\ page \in [Slots -> SUBSET Worlds]
  /\ owed \in Worlds

(* Whatever a run reads was so less than Ttl + Lag ago: data that has been *)
(* replaced, an outage that is over and a summary that was missing are     *)
(* gone from every new page after that time, whoever else uses the app and *)
(* keeps the entries in use.                                               *)
StalenessIsBounded ==
  [][\A s \in Slots : \A w \in page'[s] \ page[s] :
       w # world => ended[w] < Ttl[CallOf(s)] + Lag]_vars

(* After Refresh the viewer never sees a summary from before the click,    *)
(* unless a query under way at that moment puts one back.                  *)
RefreshShowsLatest == \A w \in page["narrative"] : w >= owed

(* The summary that is generated live is made from the forecasts the page  *)
(* draws or from newer ones, although the script reads them twice.         *)
PreviewIsNotOlder ==
  \A w \in page["preview"], v \in page["forecasts"] : w >= v
=============================================================================
