---------------------------- MODULE PipelineService ----------------------------
(***************************************************************************)
(* The API with the pipelines it starts: the background task of a run      *)
(* (PipelineRuns) calls Orchestrator().run(), whose stages are Pipeline's, *)
(* and reports what it returns or raises.  Processes of the API, their     *)
(* runs, orchestrators and scripts on other machines, BigQuery's jobs and  *)
(* generations of single summaries all go on side by side.                 *)
(*                                                                         *)
(* A process that dies takes the orchestrators of its runs with it.  They  *)
(* are cleared away one after the other, but none of them, and no request  *)
(* of the process, goes on once it goes down.                              *)
(***************************************************************************)
EXTENDS PipelineRuns, Pipeline

ASSUME RunsAssumption == Runs \subseteq Orchestrators

VARIABLE dying   \* the processes that go down

service_vars == <<run_vars, vars, dying>>

ServiceInit == RunsInit /\ Init /\ dying = {}

-----------------------------------------------------------------------------
(* What the handler, get_db and the task do beside the pipeline. *)
Audit(r) ==
  \/ TriggerPipeline(r) \/ GetDbCommits(r) \/ GetDbRollsBack(r)
  \/ MarkSuccess(r) \/ MarkSuccessRaises(r) \/ MarkFailed(r) \/ MarkFailedRaises(r)

(* The task runs the pipeline as its first step, and goes on when that     *)
(* returns or raises.                                                      *)
RequestStep(r) ==
  /\ home[r] \notin dying
  /\ \/ Audit(r) /\ UNCHANGED vars
     \/ AnswerAndStartTask(r) /\ StartRun(r)
     \/ stage[r] = "done" /\ PipelineReturns(r) /\ UNCHANGED vars
     \/ stage[r] = "failed" /\ PipelineRaises(r) /\ UNCHANGED vars
  /\ UNCHANGED dying

(* Callers that are not runs of the API have processes of their own. *)
Stopped == {r \in Runs : home[r] \in dying}

CallerStep(w) ==
  /\ w \notin Stopped
  /\ \/ StatementStep(w)
     \/ w \in Orchestrators /\ (SyncStep(w) \/ NarrativeStep(w))
  /\ UNCHANGED <<run_vars, dying>>

(* BigQuery, the raw sales, generations, and the other callers. *)
WorldStep ==
  /\ \/ NewSales \/ LostJobEnds
     \/ \E w \in Callers : JobEnds(w)
     \/ \E w \in Generators : NarrativeStep(w)
     \/ \E w \in Orchestrators \ Runs : StartRun(w)
     \/ \E w \in Scripts : StartScript(w)
     \/ \E w \in Callers \ Runs : Crash(w)
  /\ UNCHANGED <<run_vars, dying>>

(* A process dies, or is stopped, at any moment it serves a run.           *)
GoesDown(i) ==
  /\ i \notin dying
  /\ \E r \in Runs : home[r] = i /\ (request[r] \in {"handled", "committed"} \/ TaskActive(r))
  /\ dying' = dying \cup {i}
  /\ UNCHANGED <<run_vars, vars>>

(* One orchestrator after the other is gone, then the process. *)
LosesRun(r) == r \in Stopped /\ Crash(r) /\ UNCHANGED <<run_vars, dying>>

IsDown(i) ==
  /\ i \in dying
  /\ \A r \in Runs : home[r] = i => stage[r] \in Ended
  /\ ProcessDies(i)
  /\ dying' = dying \ {i}
  /\ UNCHANGED vars

ServiceNext ==
  \/ \E r \in Runs : RequestStep(r) \/ LosesRun(r)
  \/ \E w \in Callers : CallerStep(w)
  \/ WorldStep
  \/ \E i \in Instances : GoesDown(i) \/ IsDown(i)

ServiceSpec == ServiceInit /\ [][ServiceNext]_service_vars

(* The event loop steps every request and task, and run() goes on or       *)
(* raises: its client's waits and retries are bounded.  Once a process     *)
(* goes down nothing keeps it.                                             *)
ServiceFairSpec ==
  /\ ServiceSpec
  /\ \A r \in Runs : /\ WF_service_vars(RequestStep(r) /\ RunStep(r))
                     /\ WF_service_vars(CallerStep(r))
                     /\ WF_service_vars(LosesRun(r))
  /\ \A i \in Instances : WF_service_vars(IsDown(i))

-----------------------------------------------------------------------------
(* What run() is to leave behind: the raw sales its own ETL has read, in   *)
(* every artefact up to PostgreSQL.                                        *)
Result(w) ==
  /\ origin[w] # 0 /\ {sales, model, table} = {origin[w]}
  /\ \A p \in Products : forecasts[p] = origin[w]

(* A run that is reported as a success has gone through all of run(), and  *)
(* its own raw sales are in every artefact for as long as no other run has *)
(* started beside it or after it: late jobs change nothing of that.        *)
SuccessIsEndToEnd ==
  \A r \in Runs : GetRunStatus(r) = "success" =>
    /\ stage[r] = "done" /\ origin[r] # 0
    /\ r \in alone => Result(r)
=============================================================================
