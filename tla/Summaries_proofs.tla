--------------------------- MODULE Summaries_proofs ---------------------------
(***************************************************************************)
(* Summaries that are made outside the pipeline: by the API under load     *)
(* (ApiService), for any requests, pool, time-out, threads and outages,    *)
(* and by the operator's batch (NarrativeBatch), for any number of stores, *)
(* any limit, number of workers, set of stores that always fail and number *)
(* of accidents.                                                           *)
(***************************************************************************)
EXTENDS ApiService, NarrativeBatch, FiniteSetTheorems, TLAPS

(* Work that keeps its connection over a wait for the LLM or BigQuery. *)
Long == {"generate", "trigger"}

(* What the control state of a request says of its connections and of the  *)
(* chain it has asked: the request's own session has one from the first    *)
(* statement on, and, where the commit comes last, until its task is over; *)
(* the task's session has one for a statement at a time.                   *)
Holds(r) ==
  /\ stage[r] # 0 => kind[r] = "trigger"
  /\ <<r, "request">> \in held =>
       pc[r] \notin {"new", "done"} /\ (pc[r] = "use" \/ kind[r] \in Long)
  /\ <<r, "task">> \in held => pc[r] = "use" /\ kind[r] = "trigger"
  /\ stage[r] = 0 /\ pc[r] \in {"use", "queue", "retrieve", "think", "save"} =>
       <<r, "request">> \in held
  /\ stage[r] # 0 /\ CommitsLast /\ pc[r] # "done" => <<r, "request">> \in held
  /\ pc[r] \in {"think", "save"} => last[r] = {r}

(* In every reachable state of the process. *)
ServiceInv == Types /\ Limits /\ IsFiniteSet(held) /\ \A r \in Requests : Holds(r)

(* A step of r changes nothing that Holds says of the others. *)
Elsewhere(r) ==
  /\ kind' = kind
  /\ \A q \in Requests \ {r} :
       /\ pc'[q] = pc[q] /\ stage'[q] = stage[q] /\ last'[q] = last[q]
       /\ \A s \in {"request", "task"} : <<q, s>> \in held' <=> <<q, s>> \in held

(* The assumptions on the constants, one by one. *)
LEMMA ConstantTypes ==
  /\ PoolSize \in Nat /\ PoolSize > 0 /\ Threads \in Nat /\ Threads > 0
  /\ Attempts \in Nat /\ Attempts > 0 /\ Rounds \in Nat /\ Rounds > 0
  /\ PoolTimeout \in Nat /\ MaxOutages \in Nat
BY LoadAssumption

(* An exception takes no connection and leaves every thread. *)
LEMMA RaisesStep ==
  ASSUME ServiceInv, NEW r \in Requests, Raises(r), pc[r] \notin {"new", "done"},
         UNCHANGED <<kind, last>>
  PROVE  /\ Elsewhere(r) /\ Holds(r)'
         /\ held' \subseteq held
         /\ pc' \in [Requests -> Steps] /\ stage' \in [Requests -> 0..Failure]
         /\ answer' \in [Requests -> Statuses]
         /\ pc'[r] \in {"queue", "connect", "done"}
         /\ answer' = [answer EXCEPT ![r] = answer'[r]]
         /\ answer'[r] \in {answer[r], "500", "degraded"}
<1> USE ConstantTypes DEF ServiceInv, Types, Holds, Elsewhere, Sessions, Own, Keep, Go, Says, Steps, Statuses,
        Success, Failure, Long
<1>1. ASSUME NEW s \in {"500", "degraded"}, Leave(r, s)
      PROVE  /\ Elsewhere(r) /\ Holds(r)'
             /\ held' \subseteq held
             /\ pc' \in [Requests -> Steps] /\ stage' \in [Requests -> 0..Failure]
             /\ answer' \in [Requests -> Statuses]
             /\ pc'[r] = "done" /\ answer'[r] = s
             /\ answer' = [answer EXCEPT ![r] = answer'[r]]
  <2>1. /\ pc' = [pc EXCEPT ![r] = "done"] /\ held' = held \ Sessions(r)
        /\ answer' = [answer EXCEPT ![r] = s] /\ stage' = stage
    BY <1>1 DEF Leave
  <2>2. Elsewhere(r)
    BY <2>1
  <2>3. Holds(r)'
    BY <2>1
  <2> QED
    BY <2>1, <2>2, <2>3
<1>2. CASE stage[r] \in 1..(Rounds - 1) /\ TaskGoes(r, "queue", stage[r] + 1, Own(r))
  BY <1>2 DEF TaskGoes
<1>3. CASE /\ stage[r] \in 1..Rounds \/ (stage[r] = Success /\ pc[r] = "connect")
           /\ TaskGoes(r, "connect", Failure, Own(r))
  BY <1>3 DEF TaskGoes
<1>4. CASE /\ (stage[r] = Success /\ pc[r] # "connect") \/ stage[r] = Failure
           /\ TaskGoes(r, "done", stage[r], {})
  BY <1>4 DEF TaskGoes
<1> QED
  BY <1>1, <1>2, <1>3, <1>4 DEF Raises

(* The state of one request decides what may be held for it. *)
LEMMA OneHolds ==
  ASSUME ServiceInv, NEW r \in Requests, Elsewhere(r), Holds(r)'
  PROVE  (\A q \in Requests : Holds(q))'
BY DEF ServiceInv, Elsewhere, Holds

(* The limits: fewer connections and threads, one connection more, or one  *)
(* thread more.                                                            *)
LEMMA InThreadFinite ==
  IsFiniteSet(InThread) /\ IsFiniteSet(InThread)'
<1>1. InThread \in SUBSET Requests /\ InThread' \in SUBSET Requests
  BY DEF InThread
<1> QED
  BY <1>1, LoadAssumption, FS_Subset

LEMMA FewerLimits ==
  ASSUME ServiceInv, held' \subseteq held, InThread' \subseteq InThread
  PROVE  Limits' /\ IsFiniteSet(held)'
<1>1. IsFiniteSet(held') /\ Cardinality(held') <= Cardinality(held)
  BY FS_Subset DEF ServiceInv
<1>2. Cardinality(InThread') <= Cardinality(InThread)
  BY InThreadFinite, FS_Subset
<1>3. /\ Cardinality(held) \in Nat /\ Cardinality(held') \in Nat
      /\ Cardinality(InThread) \in Nat /\ Cardinality(InThread') \in Nat
  BY <1>1, InThreadFinite, FS_CardinalityType DEF ServiceInv
<1> QED
  BY <1>1, <1>2, <1>3, ConstantTypes DEF ServiceInv, Limits, InUse

LEMMA OneConnectionMore ==
  ASSUME ServiceInv, NEW s, held' = held \cup {s}, InUse < PoolSize, InThread' \subseteq InThread
  PROVE  Limits' /\ IsFiniteSet(held)'
<1>0. IsFiniteSet(held) /\ Cardinality(held) \in Nat
  BY FS_CardinalityType DEF ServiceInv
<1>1. IsFiniteSet(held') /\ Cardinality(held') <= Cardinality(held) + 1
  BY <1>0, FS_AddElement
<1>2. Cardinality(InThread') <= Cardinality(InThread)
  BY InThreadFinite, FS_Subset
<1>3. /\ Cardinality(held) \in Nat /\ Cardinality(held') \in Nat
      /\ Cardinality(InThread) \in Nat /\ Cardinality(InThread') \in Nat
  BY <1>1, InThreadFinite, FS_CardinalityType DEF ServiceInv
<1> QED
  BY <1>1, <1>2, <1>3, ConstantTypes DEF ServiceInv, Limits, InUse

LEMMA OneThreadMore ==
  ASSUME ServiceInv, NEW r \in Requests, held' = held, ThreadIsFree, InThread' = InThread \cup {r}
  PROVE  Limits' /\ IsFiniteSet(held)'
<1>1. Cardinality(InThread') <= Cardinality(InThread) + 1
  BY InThreadFinite, FS_AddElement, FS_CardinalityType
<1>2. /\ Cardinality(InThread) \in Nat /\ Cardinality(InThread') \in Nat
  BY InThreadFinite, FS_CardinalityType
<1> QED
  BY <1>1, <1>2, ConstantTypes DEF ServiceInv, Limits, InUse, ThreadIsFree

-----------------------------------------------------------------------------
-----------------------------------------------------------------------------
(* One lemma per action: an answer that ends a request comes first. *)
LEMMA LeaveStep ==
  ASSUME ServiceInv, NEW r \in Requests, NEW s \in Statuses, Leave(r, s),
         UNCHANGED <<waited, tries, last, kind, db, outages>>
  PROVE  ServiceInv'
<1> USE DEF Leave, Go, Keep, Says, Steps, Sessions
<1>1. Types'
  BY DEF ServiceInv, Types
<1>2. Elsewhere(r)
  BY DEF ServiceInv, Types, Elsewhere
<1>3. Holds(r)'
  BY DEF ServiceInv, Types, Holds
<1>4. held' \subseteq held /\ InThread' \subseteq InThread
  BY DEF ServiceInv, Types, InThread
<1> QED
  BY <1>1, <1>2, <1>3, <1>4, OneHolds, FewerLimits DEF ServiceInv

LEMMA ArriveStep == ASSUME ServiceInv, NEW r \in Requests, Arrive(r) PROVE ServiceInv'
<1>1. CASE kind[r] = "report"
  BY <1>1, LeaveStep DEF Arrive, Statuses, rest_vars
<1>2. CASE kind[r] # "report"
  <2>1. /\ pc[r] = "new" /\ pc' = [pc EXCEPT ![r] = "connect"]
        /\ UNCHANGED <<stage, held, answer, waited, tries, last, kind, db, outages>>
    BY <1>2 DEF Arrive, Go, rest_vars
  <2>2. Types'
    BY <2>1 DEF ServiceInv, Types, Steps
  <2>3. Elsewhere(r)
    BY <2>1 DEF ServiceInv, Types, Elsewhere
  <2>4. Holds(r)'
    BY <2>1 DEF ServiceInv, Types, Holds
  <2>5. held' \subseteq held /\ InThread' \subseteq InThread
    BY <2>1 DEF ServiceInv, Types, InThread
  <2> QED
    BY <2>2, <2>3, <2>4, <2>5, OneHolds, FewerLimits DEF ServiceInv
<1> QED
  BY <1>1, <1>2

(* An exception that ends a statement or a wait. *)
LEMMA RaisingStep ==
  ASSUME ServiceInv, NEW r \in Requests, Raises(r), pc[r] \notin {"new", "done"},
         UNCHANGED <<kind, last, tries, db, outages>>,
         waited' \in [Requests -> 0..PoolTimeout]
  PROVE  ServiceInv'
<1>1. Types'
  BY RaisesStep DEF ServiceInv, Types
<1>2. held' \subseteq held /\ InThread' \subseteq InThread
  BY RaisesStep DEF ServiceInv, Types, InThread, Elsewhere
<1> QED
  BY <1>1, <1>2, RaisesStep, OneHolds, FewerLimits DEF ServiceInv

LEMMA ConnectStep == ASSUME ServiceInv, NEW r \in Requests, Connect(r) PROVE ServiceInv'
<1>0. waited' \in [Requests -> 0..PoolTimeout]
  BY ConstantTypes DEF ServiceInv, Types, Connect
<1>1. CASE db # "up"
  BY <1>0, <1>1, RaisingStep DEF Connect, rest_vars
<1>2. CASE db = "up"
  <2>1. /\ pc[r] = "connect" /\ InUse < PoolSize
        /\ pc' = [pc EXCEPT ![r] = "use"] /\ held' = held \cup {Session(r)}
        /\ UNCHANGED <<stage, answer, tries, last, kind, db, outages>>
    BY <1>2 DEF Connect, Go, rest_vars
  <2>2. Session(r) \in Sessions(r)
    BY DEF Session, Sessions
  <2>3. Types'
    BY <1>0, <2>1, <2>2 DEF ServiceInv, Types, Steps
  <2>4. Elsewhere(r)
    BY <2>1 DEF ServiceInv, Types, Elsewhere, Session
  <2>5. Holds(r)'
    BY <2>1 DEF ServiceInv, Types, Holds, Session
  <2>6. InThread' \subseteq InThread
    BY <2>1 DEF ServiceInv, Types, InThread
  <2> QED
    BY <2>1, <2>3, <2>4, <2>5, <2>6, OneHolds, OneConnectionMore DEF ServiceInv
<1> QED
  BY <1>1, <1>2

LEMMA TimesOutStep == ASSUME ServiceInv, NEW r \in Requests, TimesOut(r) PROVE ServiceInv'
BY RaisingStep, ConstantTypes DEF TimesOut, rest_vars, ServiceInv, Types

LEMMA UseStep == ASSUME ServiceInv, NEW r \in Requests, Use(r) PROVE ServiceInv'
<1>0. pc[r] = "use" /\ UNCHANGED <<waited, tries, last, kind, db, outages>>
  BY DEF Use, rest_vars
<1>1. CASE Raises(r)
  BY <1>0, <1>1, RaisingStep DEF ServiceInv, Types
<1> USE ConstantTypes DEF Go, Keep, Says, Own, Sessions, Steps, Statuses, Success, Failure
<1>2. CASE kind[r] \in {"read", "health", "generate"} /\ \E s \in {"200", "404"} : Leave(r, s)
  <2> PICK s \in {"200", "404"} : Leave(r, s)
    BY <1>2
  <2>1. /\ pc' = [pc EXCEPT ![r] = "done"] /\ held' = held \ Sessions(r)
        /\ answer' = [answer EXCEPT ![r] = s] /\ stage' = stage
    BY DEF Leave
  <2>2. Types'
    BY <1>0, <2>1 DEF ServiceInv, Types
  <2>3. Elsewhere(r)
    BY <1>0, <2>1 DEF ServiceInv, Types, Elsewhere
  <2>4. Holds(r)'
    BY <1>0, <2>1 DEF ServiceInv, Types, Holds
  <2>5. held' \subseteq held /\ InThread' \subseteq InThread
    BY <2>1 DEF ServiceInv, Types, InThread
  <2> QED
    BY <2>2, <2>3, <2>4, <2>5, OneHolds, FewerLimits DEF ServiceInv
<1>3. CASE kind[r] = "generate" /\ Go(r, "queue") /\ UNCHANGED <<stage, held, answer>>
  <2>1. Types'
    BY <1>0, <1>3 DEF ServiceInv, Types
  <2>2. Elsewhere(r)
    BY <1>0, <1>3 DEF ServiceInv, Types, Elsewhere
  <2>3. Holds(r)'
    BY <1>0, <1>3 DEF ServiceInv, Types, Holds, Long
  <2>4. held' \subseteq held /\ InThread' \subseteq InThread
    BY <1>3 DEF ServiceInv, Types, InThread
  <2> QED
    BY <2>1, <2>2, <2>3, <2>4, OneHolds, FewerLimits DEF ServiceInv
<1>4. ASSUME kind[r] = "trigger", NEW step \in {"queue", "connect", "done"}, NEW s \in 1..Failure,
             pc' = [pc EXCEPT ![r] = step], stage' = [stage EXCEPT ![r] = s],
             held' = IF step # "done" /\ CommitsLast
                     THEN (held \ Sessions(r)) \cup {<<r, "request">>} ELSE held \ Sessions(r),
             answer' \in [Requests -> Statuses]
      PROVE  ServiceInv'
  <2>1. CommitsLast => <<r, "request">> \in held
    BY <1>0 DEF ServiceInv, Types, Holds
  <2>2. Types'
    BY <1>0, <1>4 DEF ServiceInv, Types
  <2>3. Elsewhere(r)
    BY <1>0, <1>4 DEF ServiceInv, Types, Elsewhere
  <2>4. Holds(r)'
    BY <1>0, <1>4 DEF ServiceInv, Types, Holds, Long
  <2>5. held' \subseteq held /\ InThread' \subseteq InThread
    BY <1>4, <2>1 DEF ServiceInv, Types, InThread
  <2> QED
    BY <2>2, <2>3, <2>4, <2>5, OneHolds, FewerLimits DEF ServiceInv
<1>5. CASE kind[r] = "trigger" /\ stage[r] = 0 /\ Go(r, "queue")
             /\ stage' = [stage EXCEPT ![r] = 1] /\ Keep(r, Own(r)) /\ Says(r, "202")
  <2>1. answer' \in [Requests -> Statuses] /\ 1 \in 1..Failure
    BY <1>5 DEF ServiceInv, Types
  <2> QED
    BY <1>4, <1>5, <2>1
<1>6. ASSUME kind[r] = "trigger", NEW step \in {"queue", "connect", "done"}, NEW s \in 1..Failure,
             TaskGoes(r, step, s, IF step = "done" THEN {} ELSE Own(r))
      PROVE  ServiceInv'
  <2>1. answer' \in [Requests -> Statuses]
    BY <1>6 DEF TaskGoes, ServiceInv, Types
  <2> QED
    BY <1>4, <1>6, <2>1 DEF TaskGoes
<1>7. CASE /\ kind[r] = "trigger"
           /\ \/ stage[r] \in 1..(Rounds - 1) /\ TaskGoes(r, "queue", stage[r] + 1, Own(r))
              \/ stage[r] = Rounds /\ TaskGoes(r, "connect", Success, Own(r))
              \/ stage[r] \in {Success, Failure} /\ TaskGoes(r, "done", stage[r], {})
  <2>1. ASSUME stage[r] \in 1..(Rounds - 1), TaskGoes(r, "queue", stage[r] + 1, Own(r))
        PROVE  ServiceInv'
    <3>1. stage[r] + 1 \in 1..Failure
      BY <2>1
    <3> HIDE DEF Own, Success, Failure
    <3> QED
      BY <1>6, <1>7, <2>1, <3>1
  <2>2. {Success, Failure} \subseteq 1..Failure
    OBVIOUS
  <2> HIDE DEF Own, Success, Failure
  <2> QED
    BY <1>6, <1>7, <2>1, <2>2
<1> QED
  BY <1>1, <1>2, <1>3, <1>5, <1>7 DEF Use

-----------------------------------------------------------------------------
LEMMA TakeThreadStep == ASSUME ServiceInv, NEW r \in Requests, TakeThread(r) PROVE ServiceInv'
<1> USE ConstantTypes DEF TakeThread, Go, rest_vars, Steps
<1>1. Types'
  BY DEF ServiceInv, Types
<1>2. Elsewhere(r)
  BY DEF ServiceInv, Types, Elsewhere
<1>3. Holds(r)'
  BY DEF ServiceInv, Types, Holds
<1>4. held' = held /\ ThreadIsFree /\ InThread' = InThread \cup {r}
  BY DEF ServiceInv, Types, InThread
<1> QED
  BY <1>1, <1>2, <1>3, <1>4, OneHolds, OneThreadMore DEF ServiceInv

(* What r does in its thread, and how it leaves it. *)
LEMMA ThreadStep ==
  ASSUME ServiceInv, NEW r \in Requests, Retrieve(r) \/ TriesAgain(r) \/ Thinks(r)
  PROVE  ServiceInv'
<1>1. /\ pc[r] \in {"retrieve", "think"}
      /\ UNCHANGED <<kind, stage, held, waited, answer, db, outages>>
  BY DEF Retrieve, TriesAgain, Thinks, InThread, rest_vars
<1>2. PICK step \in {"retrieve", "think", "save", "connect"} :
        /\ pc' = [pc EXCEPT ![r] = step]
        /\ step = "think" => last' = [last EXCEPT ![r] = {r}]
        /\ step # "think" => last' = last
        /\ step = "save" => pc[r] = "think"
  BY DEF Retrieve, TriesAgain, Thinks, Go, ChainOf
<1>3. tries' \in [Requests -> 0..Attempts]
  <2>1. CASE TriesAgain(r)
    <3>1. tries[r] + 1 \in 0..Attempts
      BY <2>1, ConstantTypes DEF ServiceInv, Types, TriesAgain
    <3> QED
      BY <2>1, <3>1 DEF ServiceInv, Types, TriesAgain
  <2> QED
    BY <2>1 DEF ServiceInv, Types, Retrieve, Thinks
<1>4. Types'
  <2>1. pc' \in [Requests -> Steps]
    BY <1>2 DEF ServiceInv, Types, Steps
  <2>2. last' \in [Requests -> SUBSET Requests]
    BY <1>2 DEF ServiceInv, Types
  <2> QED
    BY <1>1, <1>3, <2>1, <2>2 DEF ServiceInv, Types
<1>5. Elsewhere(r)
  BY <1>1, <1>2 DEF ServiceInv, Types, Elsewhere
<1>6. Holds(r)'
  BY <1>1, <1>2 DEF ServiceInv, Types, Holds
<1>7. held' \subseteq held /\ InThread' \subseteq InThread
  BY <1>1, <1>2 DEF ServiceInv, Types, InThread
<1> QED
  BY <1>4, <1>5, <1>6, <1>7, OneHolds, FewerLimits DEF ServiceInv

LEMMA GivesUpStep == ASSUME ServiceInv, NEW r \in Requests, GivesUp(r) PROVE ServiceInv'
<1>1. CASE Leave(r, "502")
  BY <1>1, LeaveStep DEF GivesUp, rest_vars, Statuses
<1>2. CASE Raises(r)
  <2>1. pc[r] \notin {"new", "done"} /\ UNCHANGED <<waited, tries, last, kind, db, outages>>
    BY DEF GivesUp, rest_vars, InThread
  <2> QED
    BY <1>2, <2>1, RaisingStep DEF ServiceInv, Types
<1> QED
  BY <1>1, <1>2 DEF GivesUp

LEMMA SaveStep == ASSUME ServiceInv, NEW r \in Requests, Save(r) PROVE ServiceInv'
BY LeaveStep DEF Save, rest_vars, Statuses

(* Steps that touch no request but its clock. *)
LEMMA ClockStep ==
  ASSUME ServiceInv, Tick \/ DbGoesDown \/ DbComesBack \/ UNCHANGED vars PROVE ServiceInv'
<1>1. UNCHANGED <<kind, pc, stage, held, tries, last, answer>>
  BY DEF Tick, DbGoesDown, DbComesBack, vars, rest_vars, job_vars
<1>2. waited' \in [Requests -> 0..PoolTimeout]
  BY ConstantTypes DEF Tick, DbGoesDown, DbComesBack, vars, job_vars, Waiting, ServiceInv, Types
<1>3. db' \in {"up", "down"} /\ outages' \in 0..MaxOutages
  BY ConstantTypes DEF Tick, DbGoesDown, DbComesBack, vars, rest_vars, ServiceInv, Types
<1>4. Types'
  BY <1>1, <1>2, <1>3 DEF ServiceInv, Types
<1>5. (\A r \in Requests : Holds(r))'
  BY <1>1 DEF ServiceInv, Holds
<1>6. held' \subseteq held /\ InThread' \subseteq InThread
  BY <1>1 DEF InThread
<1> QED
  BY <1>4, <1>5, <1>6, FewerLimits DEF ServiceInv

LEMMA InitService == Init => ServiceInv
<1> SUFFICES ASSUME Init PROVE ServiceInv
  OBVIOUS
<1>1. Types
  BY LoadAssumption, ConstantTypes DEF Init, Types, Steps, Statuses, Success, Failure
<1>2. \A r \in Requests : Holds(r)
  BY DEF Init, Holds
<1>3. InUse = 0 /\ IsFiniteSet(held)
  BY FS_EmptySet DEF Init, InUse
<1>4. Cardinality(InThread) = 0
  <2>1. InThread = {}
    BY DEF Init, InThread
  <2> QED
    BY <2>1, FS_EmptySet
<1> QED
  BY <1>1, <1>2, <1>3, <1>4, ConstantTypes DEF ServiceInv, Limits

LEMMA ServiceStep == ServiceInv /\ [Next]_vars => ServiceInv'
<1> SUFFICES ASSUME ServiceInv, [Next]_vars PROVE ServiceInv'
  OBVIOUS
<1> QED
  BY ArriveStep, ConnectStep, TimesOutStep, UseStep, TakeThreadStep, ThreadStep, GivesUpStep,
     SaveStep, ClockStep DEF Next, Step

(* The inductive invariant holds in every reachable state. *)
THEOREM ServiceInvariant == Spec => []ServiceInv
BY InitService, ServiceStep, PTL DEF Spec

(* The pool never lends more connections than it has (db/session.py) and   *)
(* the executor never runs more threads, whichever requests come, however  *)
(* they end, and wherever the framework commits.                           *)
THEOREM LimitsHold == Spec => []TypeOK
<1>1. ServiceInv => TypeOK
  BY DEF ServiceInv, Types, Limits, TypeOK
<1> QED
  BY <1>1, ServiceInvariant, PTL

-----------------------------------------------------------------------------
(* Of those who are done, and of readers between two statements, nothing   *)
(* is left in the pool.                                                    *)
NothingIsLeft ==
  \A r \in Requests :
    Sessions(r) \cap held # {} => pc[r] = "use" \/ r \in LongWork

(* Every connection is given back, after an answer, an exception, a        *)
(* time-out or an outage: it belongs to a statement or to work that is     *)
(* still under way.                                                        *)
THEOREM ConnectionsAreGivenBack == Spec => []NothingIsLeft
<1>1. ServiceInv => NothingIsLeft
  BY DEF ServiceInv, Holds, NothingIsLeft, Sessions, LongWork, Of, Long
<1> QED
  BY <1>1, ServiceInvariant, PTL

(* Waiting grows longer in one action only. *)
LEMMA TicksOnly ==
  ASSUME ServiceInv, [Next]_vars, NEW r \in Requests, waited'[r] > waited[r]
  PROVE  Tick
<1>0. waited[r] \in Nat /\ waited \in [Requests -> 0..PoolTimeout] /\ ~(waited[r] > waited[r])
  BY ConstantTypes DEF ServiceInv, Types
<1>1. ASSUME NEW q \in Requests, Connect(q) \/ TimesOut(q) PROVE FALSE
  <2>1. waited' = [waited EXCEPT ![q] = 0]
    BY <1>1 DEF Connect, TimesOut
  <2> QED
    BY <1>0, <2>1
<1>2. ASSUME waited' = waited PROVE FALSE
  BY <1>0, <1>2
<1> QED
  BY <1>1, <1>2 DEF Next, Step, Arrive, Use, TakeThread, Retrieve, TriesAgain, GivesUp, Thinks,
     Save, DbGoesDown, DbComesBack, vars, job_vars

(* Time passes for a request that waits for a connection only while all    *)
(* of the pool is with generations and pipelines under way.                *)
THEOREM WaitingIsForLongWork == Spec => OnlyLongWorkKeepsWaiting
<1>1. ServiceInv /\ [Next]_vars =>
        [(\E r \in Requests : waited'[r] > waited[r])
           => PoolSize = Cardinality({s \in held : s[1] \in LongWork})]_vars
  <2> SUFFICES ASSUME ServiceInv, [Next]_vars, NEW r \in Requests, waited'[r] > waited[r]
               PROVE  PoolSize = Cardinality({s \in held : s[1] \in LongWork})
    OBVIOUS
  <2>1. Tick
    BY TicksOnly
  <2>2. InUse >= PoolSize
    BY <2>1 DEF Tick, Waiting
  <2>3. InUse = PoolSize
    BY <2>2, ConstantTypes, FS_CardinalityType DEF ServiceInv, Limits, InUse
  <2>4. ASSUME NEW s \in held PROVE s[1] \in LongWork
    <3> PICK q \in Requests : s \in Sessions(q)
      BY DEF ServiceInv, Types
    <3>1. s[1] = q
      BY DEF Sessions
    <3>2. pc[q] # "use"
      BY <2>1 DEF Tick
    <3> QED
      BY <3>1, <3>2 DEF ServiceInv, Holds, Sessions, LongWork, Of, Long
  <2>5. {s \in held : s[1] \in LongWork} = held
    BY <2>4
  <2> QED
    BY <2>3, <2>5 DEF InUse
<1> QED
  BY <1>1, ServiceInvariant, PTL DEF Spec, OnlyLongWorkKeepsWaiting

(* The last_sources a generation answers with (api/routes/narratives.py)   *)
(* are of its own retrieval, whatever other generations and pipelines do   *)
(* in other threads.                                                       *)
THEOREM SourcesAreTheSummarys == Spec => SourcesBelongToSummary
<1>1. ServiceInv /\ [Next]_vars =>
        [\A r \in Of("generate") :
           answer'[r] = "200" /\ answer[r] = "none" => last[ChainOf(r)] = {r}]_vars
  <2> SUFFICES ASSUME ServiceInv, [Next]_vars, NEW r \in Requests, kind[r] = "generate",
                      answer'[r] = "200", answer[r] = "none"
               PROVE  last[r] = {r}
    BY DEF Of, ChainOf
  <2> USE DEF ServiceInv, Types
  <2>1. ASSUME NEW q \in Requests, Save(q) PROVE last[r] = {r}
    <3>1. q = r /\ pc[r] = "save"
      BY <2>1 DEF Save, Leave, Says
    <3> QED
      BY <3>1 DEF Holds
  <2>2. ASSUME NEW q \in Requests, Raises(q), pc[q] \notin {"new", "done"}, UNCHANGED <<kind, last>>
        PROVE  FALSE
    BY <2>2, RaisesStep
  <2>3. ASSUME NEW q \in Requests, Arrive(q) PROVE FALSE
    BY <2>3 DEF Arrive, Leave, Says
  <2>4. ASSUME NEW q \in Requests, Connect(q) \/ TimesOut(q) PROVE FALSE
    BY <2>2, <2>4 DEF Connect, TimesOut, rest_vars
  <2>5. ASSUME NEW q \in Requests, Use(q), ~Raises(q) PROVE FALSE
    BY <2>5 DEF Use, Leave, Says, TaskGoes
  <2>6. ASSUME NEW q \in Requests, Use(q), Raises(q) PROVE FALSE
    BY <2>2, <2>6 DEF Use, rest_vars
  <2>7. ASSUME NEW q \in Requests, GivesUp(q) PROVE FALSE
    BY <2>2, <2>7 DEF GivesUp, InThread, Leave, Says, rest_vars
  <2>8. CASE answer' = answer
    BY <2>8
  <2> QED
    BY <2>1, <2>3, <2>4, <2>5, <2>6, <2>7, <2>8
       DEF Next, Step, TakeThread, Retrieve, TriesAgain, Thinks, Tick, DbGoesDown, DbComesBack, vars
<1> QED
  BY <1>1, ServiceInvariant, PTL DEF Spec, SourcesBelongToSummary

-----------------------------------------------------------------------------
(* Where a chosen store that has rows is while the run goes on: still to   *)
(* be read, still to be handed over, with the pool, or done with.          *)
Pooled == {"queued", "running", "done", "failed"}
NoStoreIsLost ==
  /\ phase = "loading" =>
       \A p \in chosen \cap forecasts : p \in toLoad \cup toSubmit
  /\ phase = "launching" =>
       \A p \in chosen \cap forecasts :
         \/ p \in toSubmit \/ work[p] \in Pooled \/ work[p] = "reported" \/ p \in narratives
  /\ phase = "collecting" =>
       /\ toSubmit = {}
       /\ \A p \in chosen \cap forecasts :
            work[p] \in Pooled \/ work[p] = "reported" \/ p \in narratives
  /\ phase = "ended" =>
       \A p \in chosen \cap forecasts : work[p] = "reported" \/ p \in narratives

(* Only stores with rows get a job, and so a summary. *)
JobsHaveRows == \A p \in Products : work[p] # "none" => p \in forecasts

BatchInv == BatchTypeOK /\ NoStoreIsLost /\ JobsHaveRows /\ NoSummaryWithoutForecasts

-----------------------------------------------------------------------------
LEMMA InitBatch == BatchInit => BatchInv
<1> SUFFICES ASSUME BatchInit PROVE BatchInv
  OBVIOUS
<1>1. faults \in 0 .. MaxFaults
  BY SizesAssumption DEF BatchInit
<1> QED
  BY <1>1 DEF BatchInit, BatchInv, BatchTypeOK, NoStoreIsLost, JobsHaveRows, NoSummaryWithoutForecasts, Over, Jobs

(* One action after the other keeps it. *)
LEMMA StartStep ==
  ASSUME BatchInv, NEW ids \in SUBSET Products, Start(ids) PROVE BatchInv'
BY DEF BatchInv, BatchTypeOK, NoStoreIsLost, JobsHaveRows, NoSummaryWithoutForecasts, Start, Over, Jobs

LEMMA BatchStep == BatchInv /\ [BatchNext]_batch_vars => BatchInv'
<1> SUFFICES ASSUME BatchInv, [BatchNext]_batch_vars PROVE BatchInv'
  OBVIOUS
<1> USE DEF BatchInv, BatchTypeOK, NoSummaryWithoutForecasts, JobsHaveRows, NoStoreIsLost, Over, Jobs, Pooled
<1>1. CASE FetchProductIds
  <2>1. FirstOf(Candidates, Limit) \in SUBSET Products
    BY DEF FirstOf, Candidates
  <2> QED
    BY <1>1, <2>1, StartStep DEF FetchProductIds
<1>2. ASSUME NEW p \in Products, SingleStore(p) PROVE BatchInv'
  BY <1>2, StartStep DEF SingleStore
<1>3. CASE LoadRows
  <2> PICK p \in Lowest(toLoad) : /\ toLoad' = toLoad \ {p}
                                  /\ toSubmit' = toSubmit \cup ({p} \cap forecasts)
    BY <1>3 DEF LoadRows
  <2>1. /\ phase = "loading" /\ p \in toLoad
        /\ UNCHANGED <<forecasts, narratives, phase, chosen, work, faults>>
    BY <1>3 DEF LoadRows, Lowest
  <2> QED
    BY <2>1
<1>4. CASE RowsLoaded
  BY <1>4 DEF RowsLoaded
<1>5. CASE Submit
  <2> PICK p \in Lowest(toSubmit) : /\ toSubmit' = toSubmit \ {p}
                                    /\ work' = [work EXCEPT ![p] = "queued"]
    BY <1>5 DEF Submit
  <2>1. /\ phase = "launching" /\ p \in toSubmit
        /\ phase' = IF toSubmit' = {} THEN "collecting" ELSE "launching"
        /\ UNCHANGED <<forecasts, narratives, chosen, toLoad, faults>>
    BY <1>5 DEF Submit, Lowest
  <2>2. \A q \in Products : work'[q] = IF q = p THEN "queued" ELSE work[q]
    OBVIOUS
  <2> QED
    BY <2>1, <2>2
<1>6. CASE WorkerTakes
  <2> PICK p \in Lowest(With("queued")) : work' = [work EXCEPT ![p] = "running"]
    BY <1>6 DEF WorkerTakes
  <2>1. /\ p \in Products /\ work[p] = "queued"
        /\ UNCHANGED <<forecasts, narratives, phase, chosen, toLoad, toSubmit, faults>>
    BY <1>6 DEF WorkerTakes, Lowest, With
  <2>2. \A q \in Products : work'[q] = IF q = p THEN "running" ELSE work[q]
    OBVIOUS
  <2>3. phase \in {"launching", "collecting"}
    BY <1>6 DEF WorkerTakes
  <2> QED
    BY <2>1, <2>2, <2>3
<1>7. ASSUME NEW p \in Products, NEW state \in {"failed", "done"}, Returns(p, state),
             faults' \in 0 .. MaxFaults
      PROVE  BatchInv'
  <2>1. \A q \in Products : work'[q] = IF q = p THEN state ELSE work[q]
    BY <1>7 DEF Returns
  <2>2. work[p] = "running" /\ work' \in [Products -> Jobs]
    BY <1>7 DEF Returns
  <2>3. /\ phase \in {"launching", "collecting"}
        /\ UNCHANGED <<forecasts, narratives, phase, chosen, toLoad, toSubmit>>
    BY <1>7 DEF Returns
  <2> QED
    BY <1>7, <2>1, <2>2, <2>3
<1>8. ASSUME NEW p \in Products, WorkerReturns(p) PROVE BatchInv'
  BY <1>7, <1>8 DEF WorkerReturns
<1>9. ASSUME NEW p \in Products, WorkerFails(p) PROVE BatchInv'
  BY <1>7, <1>9, SizesAssumption DEF WorkerFails
<1>10. ASSUME NEW p \in Products, SaveNarrative(p) PROVE BatchInv'
  BY <1>10 DEF SaveNarrative
<1>11. ASSUME NEW p \in Products, LogFailure(p) PROVE BatchInv'
  BY <1>11 DEF LogFailure
<1>12. ASSUME NEW p \in Products, SaveRaises(p) PROVE BatchInv'
  BY <1>12, SizesAssumption DEF SaveRaises
<1>13. CASE AllCollected
  BY <1>13 DEF AllCollected
<1>14. CASE Interrupt
  BY <1>14, SizesAssumption DEF Interrupt
<1>15. CASE UNCHANGED batch_vars
  BY <1>15 DEF batch_vars
<1> QED
  BY <1>1, <1>2, <1>3, <1>4, <1>5, <1>6, <1>8, <1>9, <1>10, <1>11, <1>12, <1>13, <1>14, <1>15
     DEF BatchNext, ScriptStep

LEMMA BatchInvariant == BatchSpec => []BatchInv
<1> QED
  BY InitBatch, BatchStep, PTL DEF BatchSpec

(* The variables keep their types, and only chosen stores with rows are    *)
(* ever handed to the pool (sync_narratives.py:166-192).                   *)
THEOREM BatchTypeCorrect == BatchSpec => []BatchTypeOK
<1>1. BatchInv => BatchTypeOK
  BY DEF BatchInv
<1> QED
  BY <1>1, BatchInvariant, PTL

(* When a run of sync_narratives.py ends, every store it chose and that    *)
(* had rows has its summary or has been reported as failed, whatever       *)
(* happened to the others and however many workers shared the work.        *)
THEOREM FailuresStayIsolated == BatchSpec => []FailuresAreIsolated
<1>1. BatchInv => FailuresAreIsolated
  BY DEF BatchInv, NoStoreIsLost, FailuresAreIsolated
<1> QED
  BY <1>1, BatchInvariant, PTL

(* No store without forecast rows ever gets a summary from the batch, even *)
(* one that was named with --product.                                      *)
THEOREM SummariesHaveForecasts == BatchSpec => []NoSummaryWithoutForecasts
<1>1. BatchInv => NoSummaryWithoutForecasts
  BY DEF BatchInv
<1> QED
  BY <1>1, BatchInvariant, PTL
===============================================================================
