------------------------------ MODULE ApiService ------------------------------
(***************************************************************************)
(* One API process under load: its requests share a pool of database       *)
(* connections and the threads of asyncio.to_thread.                       *)
(*                                                                         *)
(*   read      GET forecasts, narratives, runs, the dashboard's panels     *)
(*   report    GET baseline-metrics: a file, no database                   *)
(*   health    GET /health                                                 *)
(*   generate  POST generate: keeps its connection from its first SELECT   *)
(*             to its commit, and the LLM answers in between               *)
(*   trigger   POST run: where the framework leaves a request's            *)
(*             dependencies after its background task (CommitsLast), its   *)
(*             connection stays with it while the pipeline runs and takes  *)
(*             further connections and threads                             *)
(*                                                                         *)
(* A request waits for a connection PoolTimeout at most, for a thread as   *)
(* long as it takes.  A statement takes no time that counts beside the     *)
(* pool's timeout: time passes when nothing but long work is left to do.   *)
(***************************************************************************)
EXTENDS Naturals, FiniteSets

CONSTANTS
  Requests,     \* the requests of an instance
  Loads,        \* the kinds the requests may have, as functions on them
  CommitsLast,  \* whether dependencies are left after the background task
  PoolSize,     \* db_pool_size + db_max_overflow
  PoolTimeout,  \* db_pool_timeout, in ticks
  Threads,      \* size of the event loop's executor
  Attempts,     \* of NarrativeChain.generate
  Rounds,       \* bound: thread work and statements of a pipeline, in turns
  MaxOutages    \* bound: how often the database goes down

Kinds == {"read", "report", "health", "generate", "trigger"}
ASSUME LoadAssumption ==
  /\ IsFiniteSet(Requests)
  /\ Loads \subseteq [Requests -> Kinds]
  /\ CommitsLast \in BOOLEAN
  /\ {PoolSize, Threads, Attempts, Rounds} \subseteq Nat \ {0}
  /\ {PoolTimeout, MaxOutages} \subseteq Nat

VARIABLES
  kind,     \* kind[r]: one of Kinds, for good
  pc,       \* pc[r]: what r does next
  stage,    \* 0: the request itself; then the rounds of its background
            \* task; then its report, Success or Failure
  held,     \* the sessions that keep a connection from others, see Sessions
  waited,   \* waited[r]: how long r has waited for a connection
  tries,    \* tries[r]: attempts of r at a summary
  last,     \* last[c]: the request whose retrieval last_sources of chain c shows
  answer,   \* answer[r]: the status the client gets
  db,       \* whether PostgreSQL is up
  outages

job_vars == <<pc, stage, held, waited>>
rest_vars == <<kind, db, outages>>
vars == <<kind, pc, stage, held, waited, tries, last, answer, db, outages>>

Success == Rounds + 1
Failure == Rounds + 2
Of(k) == {r \in Requests : kind[r] = k}
(* Mutant: one chain for the whole process, to load the index once. *)
SharedChain(r) == CHOOSE q \in Requests : TRUE

ChainOf(r) == r    \* every request and every pipeline makes its own chain

(* The session get_db made for r, and the one its background task opens. *)
Sessions(r) == {<<r, "request">>, <<r, "task">>}
InUse == Cardinality(held)
InThread == {r \in Requests : pc[r] \in {"retrieve", "think"}}
ThreadIsFree == Cardinality(InThread) < Threads

Init ==
  /\ kind \in Loads
  /\ pc = [r \in Requests |-> "new"]
  /\ stage = [r \in Requests |-> 0]
  /\ held = {}
  /\ waited = [r \in Requests |-> 0]
  /\ tries = [r \in Requests |-> 0]
  /\ last = [c \in Requests |-> {}]
  /\ answer = [r \in Requests |-> "none"]
  /\ db = "up"
  /\ outages = 0

-----------------------------------------------------------------------------
Go(r, step) == pc' = [pc EXCEPT ![r] = step]
Keep(r, sessions) == held' = (held \ Sessions(r)) \cup sessions
Says(r, status) == answer' = [answer EXCEPT ![r] = status]

(* r leaves its endpoint with an answer, and get_db gives back what it has. *)
Leave(r, status) ==
  /\ Go(r, "done")
  /\ Keep(r, {})
  /\ Says(r, status)
  /\ UNCHANGED stage

(* A background task has the answer of its request behind it. *)
TaskGoes(r, step, s, sessions) ==
  /\ Go(r, step)
  /\ stage' = [stage EXCEPT ![r] = s]
  /\ Keep(r, sessions)
  /\ UNCHANGED answer

Own(r) == IF CommitsLast THEN {<<r, "request">>} ELSE {}
Session(r) == <<r, IF stage[r] = 0 THEN "request" ELSE "task">>

(* An exception at the present statement.  /health turns it into an        *)
(* answer; a pipeline skips the store or goes to report its failure.  A    *)
(* success without a connection asks for another to report a failure;      *)
(* a report that fails on its connection, or twice, leaves the run.        *)
Raises(r) ==
  \/ kind[r] = "health" /\ Leave(r, "degraded")
  \/ kind[r] # "health" /\ stage[r] = 0 /\ Leave(r, "500")
  \/ stage[r] \in 1..(Rounds - 1) /\ TaskGoes(r, "queue", stage[r] + 1, Own(r))
  \/ /\ stage[r] \in 1..Rounds \/ (stage[r] = Success /\ pc[r] = "connect")
     /\ TaskGoes(r, "connect", Failure, Own(r))
  \/ /\ (stage[r] = Success /\ pc[r] # "connect") \/ stage[r] = Failure
     /\ TaskGoes(r, "done", stage[r], {})

-----------------------------------------------------------------------------
Arrive(r) ==
  /\ pc[r] = "new"
  /\ IF kind[r] = "report"
     THEN Leave(r, "200")
     ELSE Go(r, "connect") /\ UNCHANGED <<stage, held, answer>>
  /\ UNCHANGED <<waited, tries, last, rest_vars>>

(* Mutant: max_overflow=-1. *)
ConnectAnyway(r) ==
  /\ pc[r] = "connect"
  /\ IF db = "up"
     THEN Go(r, "use") /\ held' = held \cup {Session(r)} /\ UNCHANGED <<stage, answer>>
     ELSE Raises(r)
  /\ waited' = [waited EXCEPT ![r] = 0]
  /\ UNCHANGED <<tries, last, rest_vars>>

(* A connection is free: r takes it, or the ping and the attempt at a new  *)
(* one fail.                                                               *)
Connect(r) ==
  /\ pc[r] = "connect"
  /\ InUse < PoolSize
  /\ IF db = "up"
     THEN Go(r, "use") /\ held' = held \cup {Session(r)} /\ UNCHANGED <<stage, answer>>
     ELSE Raises(r)
  /\ waited' = [waited EXCEPT ![r] = 0]
  /\ UNCHANGED <<tries, last, rest_vars>>

(* Mutant: who is not served asks again. *)
AsksAgain(r) ==
  /\ pc[r] = "connect"
  /\ waited[r] = PoolTimeout
  /\ waited' = [waited EXCEPT ![r] = 0]
  /\ UNCHANGED <<kind, pc, stage, held, tries, last, answer, db, outages>>

(* QueuePool limit reached, connection timed out. *)
TimesOut(r) ==
  /\ pc[r] = "connect"
  /\ waited[r] = PoolTimeout
  /\ Raises(r)
  /\ waited' = [waited EXCEPT ![r] = 0]
  /\ UNCHANGED <<tries, last, rest_vars>>

(* The statements of r. *)
Use(r) ==
  /\ pc[r] = "use"
  /\ \/ db = "down" /\ Raises(r)
     \/ db = "up" /\
          \/ kind[r] \in {"read", "health"} /\ Leave(r, "200")
          \/ kind[r] \in {"read", "generate"} /\ Leave(r, "404")
          \/ kind[r] = "generate" /\ Go(r, "queue") /\ UNCHANGED <<stage, held, answer>>
          \/ kind[r] = "trigger" /\
               \/ /\ stage[r] = 0
                  /\ Go(r, "queue")
                  /\ stage' = [stage EXCEPT ![r] = 1]
                  /\ Keep(r, Own(r))
                  /\ Says(r, "202")
               \/ stage[r] \in 1..(Rounds - 1) /\ TaskGoes(r, "queue", stage[r] + 1, Own(r))
               \/ stage[r] = Rounds /\ TaskGoes(r, "connect", Success, Own(r))
               \/ stage[r] \in {Success, Failure} /\ TaskGoes(r, "done", stage[r], {})
  /\ UNCHANGED <<waited, tries, last, rest_vars>>

-----------------------------------------------------------------------------
(* asyncio.to_thread: chain.generate, or a query of BigQuery. *)
TakeThread(r) ==
  /\ pc[r] = "queue"
  /\ ThreadIsFree
  /\ Go(r, "retrieve")
  /\ tries' = [tries EXCEPT ![r] = 1]
  /\ UNCHANGED <<stage, held, waited, last, answer, rest_vars>>

Retrieve(r) ==
  /\ pc[r] = "retrieve"
  /\ Go(r, "think")
  /\ last' = [last EXCEPT ![ChainOf(r)] = {r}]
  /\ UNCHANGED <<stage, held, waited, tries, answer, rest_vars>>

(* The retrieval or the LLM fails, and the thread waits for the next       *)
(* attempt.                                                                *)
TriesAgain(r) ==
  /\ r \in InThread
  /\ tries[r] < Attempts
  /\ Go(r, "retrieve")
  /\ tries' = [tries EXCEPT ![r] = @ + 1]
  /\ UNCHANGED <<stage, held, waited, last, answer, rest_vars>>

(* Mutant: a failing generation forgets its session. *)
GivesUpForgetful(r) ==
  /\ r \in InThread
  /\ tries[r] = Attempts
  /\ \/ kind[r] = "generate" /\ Go(r, "done") /\ Says(r, "502") /\ UNCHANGED <<stage, held>>
     \/ kind[r] = "trigger" /\ Raises(r)
  /\ UNCHANGED <<waited, tries, last, rest_vars>>

GivesUp(r) ==
  /\ r \in InThread
  /\ tries[r] = Attempts
  /\ \/ kind[r] = "generate" /\ Leave(r, "502")
     \/ kind[r] = "trigger" /\ Raises(r)
  /\ UNCHANGED <<waited, tries, last, rest_vars>>

Thinks(r) ==
  /\ pc[r] = "think"
  /\ Go(r, IF kind[r] = "generate" THEN "save" ELSE "connect")
  /\ UNCHANGED <<stage, held, waited, tries, last, answer, rest_vars>>

(* DELETE, INSERT and COMMIT on the connection kept since the SELECT; the  *)
(* answer shows the chain's last_sources.                                  *)
Save(r) ==
  /\ pc[r] = "save"
  /\ Leave(r, IF db = "up" THEN "200" ELSE "500")
  /\ UNCHANGED <<waited, tries, last, rest_vars>>

-----------------------------------------------------------------------------
DbGoesDown ==
  /\ db = "up" /\ outages < MaxOutages
  /\ db' = "down" /\ outages' = outages + 1
  /\ UNCHANGED <<kind, job_vars, tries, last, answer>>

DbComesBack ==
  /\ db = "down" /\ db' = "up"
  /\ UNCHANGED <<kind, outages, job_vars, tries, last, answer>>

Waiting == {r \in Requests : pc[r] = "connect"}

(* Time passes while requests wait for connections, and none is free. *)
Tick ==
  /\ Waiting # {}
  /\ \A r \in Requests :
       /\ pc[r] \notin {"use", "save"}
       /\ pc[r] = "connect" => InUse >= PoolSize /\ waited[r] < PoolTimeout
       /\ pc[r] = "queue" => ~ThreadIsFree
  /\ waited' = [r \in Requests |-> waited[r] + IF r \in Waiting THEN 1 ELSE 0]
  /\ UNCHANGED <<pc, stage, held, tries, last, answer, rest_vars>>

Step(r) ==
  \/ Connect(r) \/ TimesOut(r) \/ Use(r) \/ TakeThread(r) \/ Retrieve(r)
  \/ TriesAgain(r) \/ GivesUp(r) \/ Thinks(r) \/ Save(r)

Done == \A r \in Requests : pc[r] = "done"
Next ==
  \/ \E r \in Requests : Arrive(r) \/ Step(r)
  \/ DbGoesDown \/ DbComesBack
  \/ Tick
  \/ Done /\ UNCHANGED vars

Spec == Init /\ [][Next]_vars

(* Requests go on when they can, LLM and BigQuery answer or fail, and time *)
(* passes.  The database need not come back.                               *)
Fairness == WF_vars(Tick) /\ \A r \in Requests : WF_vars(Step(r))
FairSpec == Spec /\ Fairness

-----------------------------------------------------------------------------
Steps == {"new", "connect", "use", "queue", "retrieve", "think", "save", "done"}
Statuses == {"none", "200", "202", "404", "500", "502", "degraded"}

Types ==
  /\ kind \in [Requests -> Kinds]
  /\ pc \in [Requests -> Steps]
  /\ stage \in [Requests -> 0..Failure]
  /\ held \subseteq UNION {Sessions(r) : r \in Requests}
  /\ waited \in [Requests -> 0..PoolTimeout]
  /\ tries \in [Requests -> 0..Attempts]
  /\ last \in [Requests -> SUBSET Requests]
  /\ answer \in [Requests -> Statuses]
  /\ db \in {"up", "down"} /\ outages \in 0..MaxOutages

Limits == InUse <= PoolSize /\ Cardinality(InThread) <= Threads

(* Besides the types: never are there more connections than the pool has,  *)
(* nor more threads at work than the executor has.                         *)
TypeOK == Types /\ Limits

(* Nobody waits for ever: neither the panels of a page, however many       *)
(* generations and pipelines keep the connections, nor pipelines that hold *)
(* a connection each and wait for a second one.                            *)
EveryRequestIsAnswered == \A r \in Requests : pc[r] # "new" ~> pc[r] = "done"

(* Time passes for a waiting request only while every connection is kept   *)
(* by a generation or a pipeline that is under way: other requests keep    *)
(* nobody waiting, and those that have ended, well or not, keep nothing.   *)
LongWork == {r \in Of("generate") \cup Of("trigger") : pc[r] # "done"}
OnlyLongWorkKeepsWaiting ==
  [][(\E r \in Requests : waited'[r] > waited[r])
       => PoolSize = Cardinality({s \in held : s[1] \in LongWork})]_vars

(* The sources in an answer are those its summary was made from. *)
SourcesBelongToSummary ==
  [][\A r \in Of("generate") :
       answer'[r] = "200" /\ answer[r] = "none" => last[ChainOf(r)] = {r}]_vars
=============================================================================
