----------------------------- MODULE PipelineRuns -----------------------------
(***************************************************************************)
(* The life of a pipeline run requested over HTTP (api/routes/pipeline.py):*)
(* POST /pipeline/run inserts an audit row in state "running", answers 202 *)
(* with its id and leaves the pipeline to a background task, which at the  *)
(* end rewrites the row through a session of its own.  The request's       *)
(* session (db/session.py get_db) commits only when FastAPI leaves the     *)
(* dependency, so the order of that commit, of the answer and of the       *)
(* background task is the framework's:                                     *)
(*                                                                         *)
(*   in CommitFirst       0.106 to 0.117: commit, answer, background task  *)
(*   other processes      from 0.118 on: answer, background task, commit   *)
(*                                                                         *)
(* The Dockerfile installs from pyproject.toml, which asks for             *)
(* fastapi >= 0.111; requirements.lock pins 0.139.  Processes of both      *)
(* kinds can serve the same database.                                      *)
(***************************************************************************)
CONSTANTS
  Runs,        \* the requests, each with the audit row it inserts
  Instances,   \* API processes: uvicorn workers and Cloud Run instances
  CommitFirst  \* the processes whose FastAPI commits before it answers

ASSUME CommitFirstAssumption == CommitFirst \subseteq Instances

VARIABLES
  request,   \* the HTTP request
  home,      \* the process that serves it
  row,       \* its audit row in pipeline_runs
  task,      \* the background task _execute_pipeline
  outcome    \* history: how Orchestrator().run() ended

run_vars == <<request, home, row, task, outcome>>

Terminal == {"success", "failed"}
Visible == {"running"} \cup Terminal

(* What GET /pipeline/runs/{id} answers: only committed rows are found. *)
GetRunStatus(r) == IF row[r] \in Visible THEN row[r] ELSE "404"

(* The process that serves r commits before it answers. *)
Early(r) == home[r] \in CommitFirst

Accepted(r) == request[r] \in {"answered", "closed"}
TaskActive(r) == task[r] \in {"pipeline", "mark_success", "mark_failed"}

RunsInit ==
  /\ request = [r \in Runs |-> "none"]
  /\ home \in [Runs -> Instances]
  /\ row = [r \in Runs |-> "absent"]
  /\ task = [r \in Runs |-> "none"]
  /\ outcome = [r \in Runs |-> "unknown"]

-----------------------------------------------------------------------------
(* The handler adds and flushes the row, and schedules the task. *)
TriggerPipeline(r) ==
  /\ request[r] = "none"
  /\ request' = [request EXCEPT ![r] = "handled"]
  /\ row' = [row EXCEPT ![r] = "flushed"]
  /\ UNCHANGED <<home, task, outcome>>

(* FastAPI resumes get_db after its yield: COMMIT.  In the older order it  *)
(* does so before the answer; in the newer one once the background task    *)
(* has returned (a task that raised makes get_db roll back instead).       *)
CommitDue(r) ==
  \/ Early(r) /\ request[r] = "handled"
  \/ ~Early(r) /\ request[r] = "answered" /\ task[r] = "ended"

AfterDb(r) == IF Early(r) THEN "committed" ELSE "closed"

(* Mutant: the row is committed as soon as the answer is sent. *)
GetDbCommitsAtAnswer(r) ==
  /\ request[r] = "answered"
  /\ row' = [row EXCEPT ![r] = "running"]
  /\ request' = [request EXCEPT ![r] = AfterDb(r)]
  /\ UNCHANGED <<home, task, outcome>>

GetDbCommits(r) ==
  /\ CommitDue(r)
  /\ row' = [row EXCEPT ![r] = "running"]
  /\ request' = [request EXCEPT ![r] = AfterDb(r)]
  /\ UNCHANGED <<home, task, outcome>>

(* The commit fails, or the newer order delivers the task's exception.  In *)
(* the older order the client is then told: 500.                           *)
GetDbRollsBack(r) ==
  /\ \/ CommitDue(r)
     \/ ~Early(r) /\ request[r] = "answered" /\ task[r] = "raised"
  /\ row' = [row EXCEPT ![r] = "absent"]
  /\ request' = [request EXCEPT ![r] = IF Early(r) THEN "refused" ELSE "closed"]
  /\ UNCHANGED <<home, task, outcome>>

(* 202 with the run's id; the response then runs its background tasks. *)
AnswerAndStartTask(r) ==
  /\ request[r] = (IF Early(r) THEN "committed" ELSE "handled")
  /\ request' = [request EXCEPT ![r] = "answered"]
  /\ task' = [task EXCEPT ![r] = "pipeline"]
  /\ UNCHANGED <<home, row, outcome>>

-----------------------------------------------------------------------------
Move(r, from, to) == task[r] = from /\ task' = [task EXCEPT ![r] = to]

PipelineReturns(r) ==
  /\ Move(r, "pipeline", "mark_success")
  /\ outcome' = [outcome EXCEPT ![r] = "ok"]
  /\ UNCHANGED <<request, home, row>>

(* Mutant: no except branch. *)
PipelineRaisesUncaught(r) ==
  /\ Move(r, "pipeline", "ended")
  /\ outcome' = [outcome EXCEPT ![r] = "error"]
  /\ UNCHANGED <<request, home, row>>

PipelineRaises(r) ==
  /\ Move(r, "pipeline", "mark_failed")
  /\ outcome' = [outcome EXCEPT ![r] = "error"]
  /\ UNCHANGED <<request, home, row>>

(* db.get finds the row or None ("if run:"); the commit follows either way.*)
SetStatus(r, status) ==
  row' = [row EXCEPT ![r] = IF @ \in Visible THEN status ELSE @]

(* Mutant: a statement after the commit, still in the try block, raises. *)
MarkSuccessThenRaises(r) ==
  /\ Move(r, "mark_success", "mark_failed")
  /\ SetStatus(r, "success")
  /\ UNCHANGED <<request, home, outcome>>

MarkSuccess(r) ==
  /\ Move(r, "mark_success", "ended")
  /\ SetStatus(r, "success")
  /\ UNCHANGED <<request, home, outcome>>

(* db.get or the commit raises inside the try: the except branch runs. *)
MarkSuccessRaises(r) ==
  /\ Move(r, "mark_success", "mark_failed")
  /\ UNCHANGED <<request, home, row, outcome>>

(* Mutant: the except branch does not commit. *)
MarkFailedUncommitted(r) ==
  /\ Move(r, "mark_failed", "ended")
  /\ UNCHANGED <<request, home, row, outcome>>

MarkFailed(r) ==
  /\ Move(r, "mark_failed", "ended")
  /\ SetStatus(r, "failed")
  /\ UNCHANGED <<request, home, outcome>>

(* The except branch has no handler of its own. *)
MarkFailedRaises(r) ==
  /\ Move(r, "mark_failed", "raised")
  /\ UNCHANGED <<request, home, row, outcome>>

(* A process dies, or is stopped with its background tasks: the server     *)
(* rolls its open transactions back, and nothing resumes a run.            *)
ProcessDies(i) ==
  LET hit == {r \in Runs : home[r] = i /\ request[r] # "none"} IN
  /\ \E r \in hit : request[r] \in {"handled", "committed"} \/ TaskActive(r)
  /\ row' = [r \in Runs |-> IF r \in hit /\ row[r] = "flushed" THEN "absent" ELSE row[r]]
  /\ task' = [r \in Runs |-> IF r \in hit /\ TaskActive(r) THEN "killed" ELSE task[r]]
  /\ request' = [r \in Runs |->
       IF r \notin hit THEN request[r]
       ELSE IF Accepted(r) THEN "closed" ELSE "refused"]
  /\ UNCHANGED <<home, outcome>>

RunStep(r) ==
  \/ GetDbCommits(r)
  \/ AnswerAndStartTask(r)
  \/ PipelineReturns(r)
  \/ PipelineRaises(r)
  \/ MarkSuccess(r)
  \/ MarkFailed(r)

RunsNext ==
  \/ \E r \in Runs :
       \/ TriggerPipeline(r)
       \/ RunStep(r)
       \/ GetDbRollsBack(r)
       \/ MarkSuccessRaises(r)
       \/ MarkFailedRaises(r)
  \/ \E i \in Instances : ProcessDies(i)

RunsSpec == RunsInit /\ [][RunsNext]_run_vars

(* The event loop keeps stepping every request and task; the pipeline ends *)
(* because each of its waits is bounded (BigQuery jobs, retries, the LLM's *)
(* request timeout).  Nothing makes a client ask, a commit fail or a       *)
(* process die.                                                            *)
RunsFairSpec == RunsSpec /\ \A r \in Runs : WF_run_vars(RunStep(r))

-----------------------------------------------------------------------------
RunsTypeOK ==
  /\ request \in [Runs -> {"none", "handled", "committed", "answered", "closed", "refused"}]
  /\ home \in [Runs -> Instances]
  /\ row \in [Runs -> {"absent", "flushed"} \cup Visible]
  /\ task \in [Runs -> {"none", "pipeline", "mark_success", "mark_failed",
                        "ended", "raised", "killed"}]
  /\ outcome \in [Runs -> {"unknown", "ok", "error"}]

(* A run id that was given to a client answers a poll: the row is there    *)
(* before the 202 that names it, if the commit comes first.                *)
AcceptedRunIsFound ==
  \A r \in Runs : Early(r) /\ Accepted(r) => GetRunStatus(r) # "404"

(* "Background task that runs the full pipeline and updates the audit      *)
(* record" (api/routes/pipeline.py:60): it does so for the runs whose row  *)
(* is committed before the answer, beside processes that commit it later.  *)
EarlyRunIsReported ==
  \A r \in Runs : Early(r) /\ task[r] = "ended" => GetRunStatus(r) \in Terminal

(* A request that was refused, or cut off, before its answer never has a   *)
(* pipeline running behind it: no run without an audit row that was sent.  *)
RefusedRunNeverStarts == \A r \in Runs : request[r] = "refused" => task[r] = "none"

(* With the newer order the row is published after the task: a poll that   *)
(* answers "running" is always about a run that is over.                   *)
RunningIsStale ==
  \A r \in Runs : ~Early(r) /\ GetRunStatus(r) = "running" => task[r] = "ended"

(* What a client has read as the end of a run is never revised, nor does a *)
(* run it has found disappear.                                             *)
StatusIsFinal ==
  [][\A r \in Runs :
       /\ GetRunStatus(r) \in Terminal => GetRunStatus(r)' = GetRunStatus(r)
       /\ GetRunStatus(r) = "running" => GetRunStatus(r)' # "404"]_run_vars

(* An accepted run whose commit came first is reported, unless its process *)
(* died or the database refused the write of a status that could not be    *)
(* written as success.                                                     *)
AcceptedRunIsReported ==
  \A r \in Runs :
    Early(r) /\ Accepted(r) ~> \/ GetRunStatus(r) \in Terminal
                   \/ task[r] \in {"raised", "killed"}
=============================================================================
