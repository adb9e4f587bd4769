# RetailForecastAI in TLA+

This directory is the verification project of RetailForecastAI: TLA+ modules
translated from the code under `src/`, TLC runs that check them on small
instances, and TLAPS proofs of what holds for every instance.  `PROJECT.json`
maps every definition to the lines it stands for and lists the runs, the mutants
that show each property can fail, the findings, the hazards and the theorems.

## The system

RetailForecastAI forecasts the daily sales of retail stores (the code says
*product*) and explains them.  A run of the pipeline (`pipeline/orchestrator.py`)
executes, in this order: Beam ETL into BigQuery; the BigQuery view, training and
30-day forecast; a copy of the forecasts into PostgreSQL; one LLM summary per
store.  A FastAPI service triggers runs, serves the rows and generates summaries
on demand; a Next.js dashboard shows them; scripts used by an operator do the
copying and the summaries on their own.

### Inventory

| Component | State it keeps | Operations | Interacts through | What makes it correct |
|---|---|---|---|---|
| Replacement of a product's rows (`orchestrator.py`, `sync_forecasts.py`, `seed_forecasts_local.py`, `sync_narratives.py`, `routes/narratives.py`) | tables `forecasts`, `narratives` (no unique constraint on the product) | DELETE + INSERT + COMMIT | row locks and snapshots of PostgreSQL | no old row survives, no gap for readers, one generation per product, no lasting deadlock |
| Pipeline runs (`routes/pipeline.py`, `db/session.py`) | table `pipeline_runs`, background tasks | trigger, poll, status update | the request's session, a session of the task, FastAPI's order of commit and task | an accepted run can be polled, its end is reported, truthfully and once |
| Orchestrator | none of its own | six stages | BigQuery, PostgreSQL, LLM | stages in order, a failed one stops the run, one store's summary may fail alone |
| Forecast sync (orchestrator step 5, `scripts/sync_forecasts.py`) | `forecasts_30d` in BigQuery, `forecasts` | list, fetch, replace | BigQuery tables that retrainings replace | complete, never older, failures keep the old rows |
| BigQuery client, `scripts/run_bqml.py` | view, model, `forecasts_30d` in BigQuery | statements with up to four attempts | at-least-once statements, jobs that outlive their client | repeated and lost jobs undo nothing of a run that nobody joined |
| Narrative batch (`scripts/sync_narratives.py`) | thread pool, futures, `narratives` | choose, load, submit, collect, save | threads, LLM, PostgreSQL | failures isolated, finished work kept, every store reached by repeated batches |
| Narrative API (`routes/narratives.py`) | `narratives` | get, generate | LLM, pool of connections | a summary of the store's current forecast |
| RAG chain, vector store | lazily loaded index, `last_sources` of each chain | generate with three attempts, build, load | the executor's threads, a directory | sources belong to the summary, vectors to their texts |
| Dashboard panels | React state | select, load, generate | HTTP answers in any order | the selected store's data, loading ends |
| Sessions and pool | connections, waiting requests | checkout, ping, time-out, commit, rollback | every endpoint, the background tasks, the executor | nobody waits for ever, only long work keeps others waiting |
| Start-up (`entrypoint.sh`, `build_index.py`, `main.py`, `migrations/`) | index directory, schema | build, migrate, create_all, load | one database, and on one machine one index directory, of several instances | nothing serves without its schema or index, concurrent starts all succeed in the end |
| Streamlit's sessions and cache (`streamlit_app.py`) | one cache for all sessions, with the life of each entry; the run of each script | query, store, expire, clear, rerun | PostgreSQL, the API, other sessions | bounded staleness, Refresh shows the latest, a page does not contradict itself |
| Beam ETL (`etl/`) | `sales_clean` | read, filter, parse, replace | files, BigQuery | every readable line is a row |
| Local forecasts and baseline (`seed_forecasts_local.py`, `baseline_compare.py`) | `forecasts`, a report | forecast, backtest, save | the sales file | the backtest is of what the seed does; what is seeded can be served |
| Forecast and dashboard queries, figures of both dashboards, tiers | none | aggregates in SQL, in Python and in TypeScript | the `forecasts` table | panels that speak of the same rows agree |
| Local doctor (`local_doctor.py`) | none | five checks, an exit status | files, PostgreSQL, `/health` | a strict pass means data |
| Charts, landing page, Spark, configuration, deployment | presentation or constants | - | - | not modelled |

The hard behaviours are the overlaps of database writers that nothing
serialises, the order in which the web framework commits and runs background
tasks, processes that die with background tasks, threads whose results are
collected late, requests that keep a connection while they wait for a model or for
another connection, one cache under many sessions, and answers that reach the
browser after the user has moved on.

## Modules

| Module | Models | Built on |
|---|---|---|
| `ReplaceTx` | the replacement transactions on a table, at the level of rows, snapshots and row locks under READ COMMITTED | - |
| `AtomicReplace` | what a replacement promises: the scope changes hands in one indivisible step | - |
| `PipelineRuns` | request, audit row and background task of each run, processes that die | - |
| `PipelineService` | the API with the pipelines it starts: one run is a request and a caller of the pipeline | `PipelineRuns`, `Pipeline` |
| `ForecastSync` | step 5 of the orchestrator, the sync script and retrainings | `ReplaceTx` (INSTANCE) |
| `NarrativeBatch` | the batch script with its pool, repeated by the operator | - |
| `Pipeline` | the six stages of `run()`, `run_bqml`, the jobs in BigQuery, and who writes summaries of which forecast | - |
| `StorePanel` | the forecast panel and the API answers it waits for | - |
| `Startup` | containers, hand-started servers and index builds that share a database and an index directory | - |
| `ApiService` | the requests of one API process on its pool of connections and its threads | - |
| `StreamlitApp` | the runs of a Streamlit session on the cache it shares with all others | - |
| `Calendar` | days as numbers, weekdays and weeks | - |
| `LocalForecast` | the seed's forecasts and the baseline's backtest, as operators on a sales file | `Calendar` |
| `EtlLines` | the lines of a sales file and the rows they become | - |
| `Figures` | every endpoint of `routes/dashboard.py` and `routes/forecasts.py`, and what the dashboards compute, as operators on a table | `Calendar` |
| `LocalDoctor` | the checks of `local_doctor.py` and its exit status | - |
| `LocalData` | the scripts that fill tables and reports on one machine, and what is then shown | `LocalForecast`, `EtlLines`, `LocalDoctor`, `Figures` |
| `MC*` | instances for TLC | the module of that name |
| `*_proofs` | theorems | the module of that name; `PipelineService_proofs` has those of `Pipeline` and `PipelineRuns` too, `Summaries_proofs` those of `ApiService` and `NarrativeBatch`, `LocalData_proofs` those of the operators `LocalData` uses |

Operators named as *Mutant* in a comment are not part of a specification: each
replaces an operation by a plausible mistake, and `PROJECT.json` says which
property then fails.

### ReplaceTx

`live` is the committed content of the table as *batches*: the rows one
transaction inserts for one product share their `generated_at` and live and die
together, so a batch stands for them.  A transaction `t` takes the snapshot of
its DELETE (`BeginDelete`), visits the rows of the snapshot one by one, waiting
for locks (`DeleteRow`), and commits deletions and new rows at once
(`InsertAndCommit`); it may fail at any point (`Fail`, `Rollback`) or be chosen
by the deadlock detector (`DeadlockVictim`).  `Scope` and `Fresh` are the
products a transaction deletes and inserts: single-product writers (orchestrator,
`sync_narratives`, the API route, `sync_forecasts --product`) and full-table ones
(`sync_forecasts`, the seed).  `before` is a history variable used by the
properties only.  The row-level behaviour of DELETE under READ COMMITTED is
PostgreSQL's and mapped as external; the Python code has no `FOR UPDATE`, no
advisory lock and no other isolation level, and migration 0001 creates only
non-unique indexes.

* `ReplacedForGood`: after a commit no row older than its DELETE is in its scope.
* `DuplicatesOnlyFromOverlap`: two generations of a product have overlapping writers.
  This is what the comment "Replace existing forecasts for this product
  atomically" leaves out; the API then serves both generations to the chart.
* `NoGapForReaders`: a product loses its rows only if the source has lost it.
* `UndisturbedIsAtomic`: among any number of active writers, one that commits
  before any other has committed since its DELETE began makes a step of
  `AtomicReplace` (`table <- Generation`), even for a product that already had two
  generations.  For writers one at a time (`Serialised`) all commits are of this
  kind: `OneGeneration` and the refinement `AtomicReplacement` are theorems then.
* `EveryReplacementEnds`: waits for locks do not last, whoever waits for whom.

### PipelineRuns

`TriggerPipeline` is the handler up to its `add_task`, `GetDbCommits` and
`GetDbRollsBack` are the two ways FastAPI leaves `get_db`, `AnswerAndStartTask`
is the answer with its background task; `PipelineReturns`, `PipelineRaises`,
`MarkSuccess...` and `MarkFailed...` are `_execute_pipeline`.  `CommitFirst` is
the set of processes whose FastAPI commits before it answers.  `pyproject.toml`
admits versions of both orders, `requirements.lock` pins one that leaves the
dependency after the background task, and one database can be served by both
kinds, so the run has one of each.  With the pinned one, `db.get` finds no row,
`if run:` skips the update, and the row is committed as `running` when everything
is over: `RunningIsStale` says that this happens to *every* such run, and
`CommitLastLosesTheOutcome` proves it.  `EarlyRunIsReported` and
`AcceptedRunIsReported` are about the other order, beside processes of this one.
`ProcessDies(i)` takes a process with its requests and tasks; the server rolls open
transactions back and nothing resumes a run, which is why
`AcceptedRunIsReported` exempts killed tasks.

### PipelineService

The background task of a run calls `Orchestrator().run()`: `RequestStep` starts the
run's caller in `Pipeline` with the answer, and lets the task go on when the caller
is `done` or `failed`; `CallerStep` is the pipeline itself and `WorldStep` what
BigQuery and everybody else do.  A process that dies (`GoesDown`) takes the
orchestrators of its runs with it, one after the other (`LosesRun`, then `IsDown`),
and nothing of it goes on in between; their jobs in BigQuery do.  Both modules are
used as they are, so each step is one of either or of both, which is the theorem
`ServiceImplementsParts`.

* `SuccessIsEndToEnd`: a run that is reported as a success went through all six
  stages, and its own raw sales are in every artefact for as long as no other run
  has joined it.
* `AcceptedRunIsReported` is checked here too, where the pipeline's end is no longer
  assumed but comes from the steps of `run()`.

### ForecastSync

The table's transactions are those of `ReplaceTx`, identified by writer, scope
and the version of `forecasts_30d` their rows came from.  `Retrain` replaces
that table at any moment; the orchestrator lists products once and fetches each
one later, so it may find a product gone (`continue`) or a newer version.
`overlap` is a history variable: some writer or retraining began while a writer
was busy.  `EndedSyncIsComplete` and `ForecastsNeverAge` hold without an overlap
only, since nothing in the code prevents one; `FailureKeepsRows` and
`TransactionsReplace` always hold.  `Converting` is the set of orchestrators whose
driver turns the string `fetch_forecasts` returns into a DATE.  asyncpg, the
driver of the configured URL, does not: `ForecastSync_asyncpg`.

### NarrativeBatch

Stores are numbers in the order of their ids, because `ORDER BY ... LIMIT`
chooses the lowest.  `phase` follows `sync()`; `work` holds each store's future
and what the collecting loop did with it.  `Bad` are stores that fail in every
run.  `EveryStoreIsSummarised` needs the limit to exceed the number of `Bad`
stores: with `Limit = Cardinality(Bad)` the batch chooses only them, for ever.
`Interrupt` stops a script at any point.  It loses the finished summaries that the
loop has not collected, and all of them while jobs are still being handed to the
pool, although the docstring has them saved "immediately"; the next batch writes
them again.

### Pipeline

An artefact is known by the version of the raw sales it was made from: `sales`,
`model` and `table` are those of BigQuery, `forecasts` and `summaries` the rows of
PostgreSQL by product.  `stage` is where `run()` or `run_bqml` is.  A statement is
a job (`Submit`) that reads its input when it starts and replaces its output when
it ends (`JobEnds`: WRITE_TRUNCATE, CREATE OR REPLACE).  Its caller hears of the
end (`Answered`), or gives up and sends another one (`StatementRaises`, up to
`Attempts` times; the ETL is not repeated), or dies (`Crash`): the job may go on
as a *lost* one and write late.  Steps 5 and 6 visit one product after the other.
Summaries have three writers: step 6, an API request, a member of a batch; each
reads rows, asks the LLM and saves what it got.  Three history variables: `alone`
holds the caller whose run nobody has joined and that met no lost job; `mixed`
says that runs have overlapped at all; `overtaken` holds writers whose product got
another summary while they asked the LLM.

* `Lineage`, `NothingAges`: without overlap nothing is newer than its source, and
  nothing is replaced by something older whatever is repeated, lost or dies on the
  way, with one exception: a slow generation overwrites a newer summary, because
  nothing compares the forecast it was given with the one that is there.
* `LoneRunIsEndToEnd`: a run that nobody joins ends with the raw sales of its own
  ETL in every artefact, *also after* runs that overlapped.  Overlap is possible:
  two requests, or a request beside `make bqml`, are serialised by nothing.

What is simpler than the code: a job reads its input at one instant (Beam reads
several files); the products are fixed (`ForecastSync` lets them vanish);
replacing the rows of one product is one step (`ReplaceTx` opens it); the repeated
fetch of a product reads only and is left out.

### StorePanel

`result` is the keyed state, `load` the uncancelled load of the effect,
`generation` the closure of `handleGenerate`.  The answers of both arrive in any
order.  `hasty` is a history variable: the user changed the store while a summary
was being generated, or asked for one while a load was in flight.  A hasty user
can end with "Loading..." for ever (`StorePanel_stuck`) or lose the forecast on
screen (the closure carries `null`); for all others `LoadingEndsUnlessHasty`,
`ForecastStays` and `SummaryNeverAges` hold.  `ShowsSelectedStoreOnly` holds for
everyone.

### Startup

`job` is what each process does: a container goes down - index - (building -
writing) - migrate - (checked - ddl) - uvicorn, a server down - (checked - ddl) -
serving - loading, a build script down - building - writing.  `set -e` makes every
failure the end of the container and of its workers (`GoDown`), and the platform
starts it again; `exec` makes uvicorn its last step.  The schema is what has been
committed: the application's `tables`, Alembic's `version`.  Two starts that find
it empty run the same CREATE TABLE statements; PostgreSQL makes the second wait
and fail (`CreateFails`), and its restart finds the version.

The index is two files of a directory (`index.faiss` and `index.pkl`), each known
by the version of the documents it was built from.  An instance on Cloud Run
builds its own and loses it with the instance (`Ephemeral`); on one machine the
container of `docker-compose.yml` (`Compose`), `scripts.build_index` and a server
started by hand share one.  The compose container mounts `./data` read-only
(`WriteRefused`), and its database is the host `postgres`: `migrations/env.py` asks
for TLS wherever the host is not localhost, the image has none, and the migration
ends the container at every start (`ConnectRefused`, finding 7).  `clash` is a history
variable: directories in which a build was interrupted, or overlapped with another
build or a load.

* `SchemaBeforeService`, `UnstampedForever`: who serves, serves on committed
  tables, and a container on a schema Alembic knows.  A server started by hand
  before the first migration creates the tables without a version, and from then
  on *no* container ever starts, which is what "idempotent" leaves out.
* `ContainerHasIndex`, `StoreIsOneBuild`: outside `clash` the directory test of
  line 17 is as good as a test of the index, and vectors are paired with the texts
  they were made from.
* `EveryContainerServes`: containers that fail because they start together do
  not fail for ever, unless a server started by hand has taken the schema from
  them; the compose container, for its part, is down again and again.

### ApiService

A request has a `kind` for good, a program counter `pc`, the time it
has `waited` for one, and sessions `held`, each with a connection: its own
(`<<r, "request">>`) and that of its task (`<<r, "task">>`); `stage` counts the turns of a
trigger's background task, each of which needs a thread and a connection, and then
says which report it is at, `Success` or `Failure`.  A generation keeps the connection of its first SELECT
while `chain.generate` runs in a thread of the executor with up to `Attempts`
attempts; with `CommitsLast` (the pinned framework) a trigger's own connection
stays with it until its task is over, and the task takes a second one from the same
pool.  `Connect` includes the ping; `TimesOut` is QueuePool's error after
`PoolTimeout` ticks, and `Raises` is what becomes of an exception at each place: a
500, "degraded" from `/health`, a skipped store, a report of failure, a run that stays
as it is: a success that gets no connection asks for a second one in the except branch,
and a session whose connection broke cannot be used there any more.  Time
passes (`Tick`) only when nothing but long work is left to do.

* `EveryRequestIsAnswered`: also when every connection is kept by a request that
  waits for another one.  The time-out is what resolves it; with waits that begin
  again (the mutant `AsksAgain`) triggers block one another for ever.
* `OnlyLongWorkKeepsWaiting`: when a request has to wait, every connection of the
  pool is kept by a generation or a pipeline *under way*; nothing leaks.
* `SourcesBelongToSummary`: `last_sources` is set by one thread step and read after
  another, and is still the summary's own, because each request and each pipeline
  makes a chain of its own (the mutant shares one).

### StreamlitApp

The script runs from top to bottom on every interaction; `at` is the viewer's place
in it, `click` the button that started the run, `page` what it has read so far.
`cache` and `flights` are those of `st.cache_data`, shared by all sessions, of which
all but the viewer's are the environment (`OthersQuery`, `OthersRefresh`).  What a
query returns is known by the `world` it was asked in: a new world begins when
rows, summaries or the report change and when PostgreSQL or the API goes down or
comes back, since a failed query is cached like an answer.  How `st.cache_data`
locks, stores and expires is external, read from how the code uses it:
`fetch_narrative.clear()` removes the entry and the lock, and a query on its way is
stored all the same.  `ended` (how long ago a world ended) and `owed` (what Refresh
owes the viewer) are history variables.

* `StalenessIsBounded`: what a run reads was so less than `Ttl + Lag` ago, however
  many sessions keep an entry in use, outages included.
* `RefreshShowsLatest`: after Refresh no summary from before the click, unless a
  query was under way at that moment, which is the race at line 1403.
* `PreviewIsNotOlder`: "Generate live" reads the forecasts a second time; they are
  never older than those on the page.

### LocalData, LocalForecast, EtlLines, Figures, LocalDoctor

`LocalData` keeps what a machine without GCP keeps: the sales file, the ETL's input
files, the `forecasts` table, the report, `sales_clean`.  Its actions are the
scripts; their arithmetic is in `LocalForecast` and `EtlLines`, and the invariants
compare what they leave with what `Figures` shows and `LocalDoctor` accepts.  A sales
file is a set of rows, each with its `line`, and has one row for a store on a day
(`by_date.get` of the baseline is no number otherwise); forecast rows have a `copy`,
so that a table can hold duplicates.  Days are whole numbers counted from a Monday,
the scripts' forecasts are counted in the tenths they are rounded to (BigQuery's are
taken to tenths), and a mean is a fraction whose denominator 0 is pandas' NaN.  Where
SQL rounds, in Streamlit's weekdays alone, the figure is rounded (`Round`).

* `BacktestIsOfItsModels`: `baseline_compare.py` scores the model
  `seed_forecasts_local.py` runs, although each script has its own copy of it with
  windows of its own; where the two differ is spelt out (`Reopens`).  Moving
  averages are of the store's *newest* open days only if the file ascends: the
  files of this data set descend.
* `SeedIsServed`: every seeded store passes the API's response model, with an
  interval that has a width wherever at least one unit is expected.
* `PanelsAgree`: four aggregations of one table (SQL of the API, SQL of Streamlit,
  its Python, the tiers of `tiers.ts`) agree on totals, ranks and tiers, with
  duplicate rows, gaps, rows before the fixed first day and refused rows.
  Streamlit's weekdays, rounded to whole units, need not add up to the rest: each is
  the API's day of another number, to within half a unit, and half a tenth for the
  average (`SameWeekday`).
* `EveryLineCounts`: readable lines and rows correspond one to one, except for the
  first line of a file; a product has one name, and nothing is deduplicated.
* `StrictPassMeansData`: a machine that passes `--strict` has stores to show and a
  report to rank, and strictness never accepts what the lenient mode refuses.

## Runs

| Run | Shows | Instance and why it is enough |
|---|---|---|
| `ReplaceTx_overlap` | what survives every interleaving, and which commits are atomic all the same | two full-table writers, of which one's source has lost a product, and a single-product one on two products: a row-lock cycle needs two rows and two writers, and a third writer is victim or bystander |
| `PipelineService_both_orders` | audit rows under both framework orders: reported, truthfully, with the older, `running` always stale with the pinned one | two runs on two processes, one of each order, with their orchestrators over one warehouse and one product; TLC starts from every placement, so that runs die together or apart; a single attempt and no lost jobs, which are in `Pipeline_stages` and in the theorems |
| `ForecastSync_any_order` | syncs in any order and overlapping | two orchestrators, one with and one without a converting driver, the script for one product or all, a retraining that drops a product, one fault |
| `ForecastSync_asyncpg` (violation) | step 5 fails with asyncpg | the same |
| `NarrativeBatch_rerun` | repeated batches reach every store | four stores of which one may lack rows and one always fails, limit 2, two workers, two faults: batches overlap in the stores they choose, and a queue longer than the pool is not needed because the limit bounds it |
| `Pipeline_stages` | lineage, and lone runs after any history | one orchestrator, one script and one generation on one product, two versions of the raw sales, two attempts, one lost job at a time: a stage can be repeated, its first job can write late, and two kinds of run overlap; loops over more products are those of `ForecastSync`, and the theorems hold for any number |
| `StorePanel_any_user` | late answers | two stores, three selections, two clicks: leave, return and leave again while both kinds of answers are in flight |
| `StorePanel_stuck` (violation) | loading never ends | the same |
| `Startup_instances` | who serves, on which schema, with which index | two Cloud Run instances with directories of their own, so that migrations race; the compose container, a build script and a hand-started server in a shared one; two document versions, one death.  Only two builds in one directory do not meet: that is in the theorems |
| `Api_service` | waiting, time-outs, chains | three requests of all combinations of kinds (one order of each: requests differ by kind alone) on two connections and one thread, two attempts, two turns per pipeline, one outage: two triggers fill the pool and wait for each other while a third request waits for both, and a queue forms at the thread |
| `Streamlit_sessions` | ages and races of cached data | the forecasts, which a page may read twice, and the summary, which Refresh forgets, with lives of 3 and 2 and queries of up to 1; three worlds: an entry can be two changes behind; the theorems hold for the whole script |
| `LocalData_cases` | scripts, aggregates and verdicts against one another | weeks of two days, windows of 4 and 6: a store absent, closed or selling 1 or 3 on each day of the window, with four surroundings and the file in both orders; every ETL input of two lines, with and without header and second file; all 128 tables from seven rows, among them a duplicate, a gap, an early and a negative one; every machine the doctor can meet |

Bounds are constants: `MaxVersion`, `MaxFaults`, `MaxSelections`, `MaxClicks`,
`MaxDocs`, `MaxRaw`, `MaxLost`, `MaxOutages`, `MaxChanges`, and `Old`, beyond which
ages are not told apart.  They limit how often the environment acts, never what the
code does.  Numbers of the code are constants made small: `Attempts` (4 in the
BigQuery client, 3 in the chain), the pool and its time-out, `Rounds` of a pipeline,
the lives of cache entries, the windows of the local forecast and the bounds of the
tiers.  `CHECK_DEADLOCK FALSE` stands where all transactions, runs, syncs, scripts
or user actions can be over; the batch script can always be started again and is checked for
deadlock.

### Fairness

* `ReplaceTx`: a statement that can run does run and the deadlock detector acts
  (`deadlock_timeout`); transactions need not start and need not fail.
* `PipelineService`: the event loop keeps stepping a request and its task
  (`RequestStep`), and `run()` goes on (`CallerStep`) because each of its waits is
  bounded (BigQuery jobs, bounded retries, the LLM client's time limit).  A process
  that goes down does go down.  Nothing obliges a client to ask, a commit to fail or
  a process to die.
* `NarrativeBatch`: the script's own steps are weakly fair; the operator returns
  to the batch mode again and again (strong fairness of `FetchProductIds`, which
  a run in progress disables).  Interruptions and accidents are bounded by
  `MaxFaults`.
* `StorePanel`: requests are answered or fail and the browser delivers what
  arrives; the user need not do anything.
* `Startup`: the platform starts a container again (`restart: unless-stopped`,
  Cloud Run) and its script does not stand still; builds end; a transaction that
  can create its tables or commit does so.  Servers and builds by hand need not
  be started, and nobody has to ask for a summary.
* `ApiService`: a request that can go on does, the LLM and BigQuery answer or
  fail, and time passes.  Clients need not ask and the database need not come back.
* `ForecastSync`, `Pipeline`, `StreamlitApp` and `LocalData` have safety properties
  only.

## Findings

Two runs find a violation; the other five are divergences that a property of a
passing run states as the code has it.

1. `routes/pipeline.py:71`: with the locked FastAPI no run is ever reported as
   ended, and `running` is only read of runs that are over (`RunningIsStale`,
   theorem `CommitLastLosesTheOutcome`).
2. `orchestrator.py:94`: overlapping replacements leave duplicates, and nothing
   else does (`DuplicatesOnlyFromOverlap`).
3. `orchestrator.py:99`: string dates are rejected by asyncpg
   (`ForecastSync_asyncpg`).
4. `store-forecast-section.tsx:44`: a late summary leaves the panel loading for
   ever (`StorePanel_stuck`).
5. `baseline_compare.py:86`: the moving averages are of the last rows of the file,
   which nothing sorts; of a file that begins with the newest day they are of the
   oldest days (`BacktestIsOfItsModels`, `FollowsFile`).
6. `beam_pipeline.py:136`: nothing is deduplicated, although the dashboard says so
   (`EveryLineCounts`).
7. `migrations/env.py:49`: the api container of `docker-compose.yml` asks a database
   without TLS for TLS, and never gets past its migration (`EveryContainerServes`).

## Proofs

`tlapm` checks eight modules; nothing is assumed beyond the named ASSUMEs, which
TLC evaluates on every run.

* `ReplaceTx_proofs`, for any products, writers and scopes.  The type invariant
  is inductive alone; `ReplacedForGood` is not: at the commit one must know that
  the DELETE has seen all older rows.  The inductive invariant `IInv` adds
  `Covered` (every older row of the scope is still to be visited or locked by the
  running DELETE), that quiet transactions hold nothing, that locks lie in the
  scope, that `before` is in the past, and that rows belong to committed writers.
  Duplicates, finality, `NoGapForReaders` and `UndisturbedIsAtomic` follow from it
  (the last one because, without a commit in between, what the DELETE has locked is
  all there is).  For serial writers `SerialInv` adds
  that at most one transaction is active, from which one generation per product
  and the refinement of `AtomicReplace` follow.  Of what `EveryReplacementEnds` rests
  on, the safety is proved: somebody can go on or the deadlock detector has found
  everybody (`SomebodyGoesOn`, from what quiet transactions hold), and a step of a
  replacement is never undone (`ReplacementsOnlyGetShorter`).
* `StorePanel_proofs`: what is in flight or in the state is about the store of its
  key; and, while the user is not hasty (`Calm`), load and generation are never in
  flight together, and a closure carries what is on screen.  From these:
  the types, `ShowsSelectedStoreOnly`, `ForecastStays` and `SummaryNeverAges`.
* `ForecastSync_proofs`: a writer about to replace rows has a transaction, hence
  every step is one of `ReplaceTx` or leaves the table alone, hence the theorems
  of `ReplaceTx_proofs` hold for forecasts (`ForecastDuplicatesNeedOverlap`); and
  a failure changes no committed row (`FailuresKeepRows`).  Completeness and age need
  more: no row is of a version BigQuery has not reached (`Behind`), and, while nothing
  has overlapped (`Calm`), one writer at most is busy, has what BigQuery has, holds or
  has still to visit all rows of its scope (`HoldsScope`), and has brought every
  product behind it up to date (`SyncedSoFar`).  From these `EndedSyncIsComplete` and
  `ForecastsNeverAge` follow, for any products, writers and retrainings.
* `Startup_proofs`, for any containers, servers, scripts and directories.
  `SchemaInv` says that whoever is past its transaction has committed it;
  `IndexInv` that, per directory without a clash, at most one build writes, that
  the two files agree unless it does, and that a load's half agrees with the
  files; the other properties follow.  A crash needs a lemma of its own
  (`DownKeepsIndex`): it removes an ephemeral directory together with everybody
  who uses it.
* `PipelineService_proofs`, for any callers, products, attempts and lost jobs, any
  runs and processes and both orders.  *The pipeline*: `Waiting` ties jobs to the
  callers that wait for them; without it not even the types are inductive.  `Alone`
  is the order among the jobs of a run without company (`InOrder`): only jobs of
  earlier stages of the same run can be lost, a lost ETL has ended its run, and a
  late training writes the model that is there, since the sales have not changed
  since.  `Made` says what a lone run has made by each stage, from which
  `LoneRunIsEndToEnd` follows (`LoneRuns`); `Chain` keeps the versions in line, with
  what is pending, copied or being described (`LineageHolds`, `NothingAgesHolds`).
  *The audit*: the invariant ties the phases of request, row and task together
  (`Shape`) and the recorded outcome to the status about to be written (`Verdict`).
  *The two together*: a step of the service is one of either part or leaves it alone
  (`ServiceImplementsParts`), so both parts' theorems hold of it
  (`ServiceKeepsTheAudit`).  What relates them needs its own invariant: a caller that
  has gone on has an ETL of its own behind it (`Begun`), what a lone run has made is
  still there after it is done (`Kept`), and task and caller are at the same point
  (`Joined`).  From these `SuccessIsOfTheWholeRun` follows.
* `Summaries_proofs`.  For `ApiService`, with any pool, threads, attempts and
  time-out: every session that holds a connection is at a statement or belongs to
  long work (`Holds`), from which its limits (`LimitsHold`), `NothingIsLeft`
  (`ConnectionsAreGivenBack`) and `OnlyLongWorkKeepsWaiting`
  (`WaitingIsForLongWork`) follow; and a chain that has been asked has the sources of
  its request (`SourcesAreTheSummarys`).  For `NarrativeBatch`, with any stores,
  limit, workers and faults: no job is lost between the pool and the loop
  (`NoStoreIsLost`) and only stores with rows have jobs (`JobsHaveRows`).
* `StreamlitApp_proofs`, for any script, lives, query times and number of changes.
  The invariant bounds the age of entries and flights together with the age of
  their worlds (`EntriesAreYoung`, `FlightsAreYoung`), from which
  `StalenessIsBounded` follows; it says that no entry of, and no query for, a
  summary is older than what Refresh owes (`NotBehindRefresh`), that none of the
  forecasts is older than what the page draws (`NotBehindPage`), for which nobody may
  take their lock away (`ForecastsAreAskedOnce`), and that a run waits for one query
  at a time.
* `LocalData_proofs`, for any sales file, table and length of a week, and with the
  named assumptions on windows and tiers.  Nearly everything there is a sum over a
  finite set, and the library has no facts about those: the first section derives
  from the definition of the fold that sums can be taken element by element and part
  by part, by induction over the subsets of a finite set (written with a set of
  those subsets that are good, since the provers cannot instantiate a theorem about
  an operator).  `DataIsInOrder` is the inductive invariant: tables have whole
  numbers of units and duplicates apart, files one row for a store on a day.
  `ReportIsOfItsModels` compares the two copies of the forecast window by window.
  `PanelsAreOfOneTable` shows that stores, days, weekdays, weeks and tiers partition the
  rows, so that each panel adds up to the same total, that Streamlit's weekdays are the
  API's under the next number (`SundaysFirst`, with `RoundIsNear` for their rounding),
  and that no store sells more than one in a higher tier.  `StrictDoctorIsRight` follows the checks.
  `SeededStoresAreServed` needs an argument of its own: an interval may not close
  where a unit is expected, and its half is a rounded root of a variance.
  A spread of n whole numbers that are not all alike is at least n - 1, so that it
  survives the rounding while n is at most 655, which is the theorem's hypothesis on
  the window (the code's has 56 days).  `LinesAreCounted` relates lines and rows by
  correspondences of places, one for each step of the Beam pipeline, for files of any
  number and length.

Only model-checked: the six properties under fairness (`EveryReplacementEnds`,
`AcceptedRunIsReported`, `EveryStoreIsSummarised`, `LoadingEndsUnlessHasty`,
`EveryContainerServes`, `EveryRequestIsAnswered`), which TLAPS does not reach.
Every other property of a passing run is a theorem.

Attempts at a proof were findings about the model.  Where a store reopens, the seed
forecasts nothing for it only if its own last row is not after the last open day of
all stores (the third part of `MirrorsSeed`); the two copies of the forecast agree
only for files with one row for a store on a day, which is an assumption of
`LocalForecast` now (`SalesFile`) and true of the data set; and intervals keep a width
only while windows are short enough.

## Plan

Done: all modules above.  Left, in order of importance:

1. The comparison panel of the Next.js dashboard, which loads two stores under the
   cancellation of `StorePanel`.
2. The one-line takeaways of `insights.ts`, as operators of `Figures`.

## Not modelled

Presentation (charts, landing page, layout), configuration and logging, the
offline Spark exploration with its notebook and the deployment workflows keep no
state that outlives a rendering or a process; `scripts/seed_data.py` uploads one
random file with a header for the ETL, an input like those of `EtlLines`. The
content of forecasts and summaries, the LLM and BigQuery's training are data: a
row is known by its writer and version. Of the baseline's report the predictions
are modelled and the error measures (MAE, RMSE, MAPE, bias) are not: they are sums
over what `Scored` says. The fields of a sales line are taken without the spaces the
ETL strips, and a line the `csv` module itself refuses (`csv.Error`), which ends the
job with `sales_clean` as it was, is left out. Of a panel's interval the dashboards
show a mean width, which is left out too. Panels of one Streamlit page come from snapshots of
different ages, and the code promises nothing across them beyond the age of each;
`PanelsAgree` is about one snapshot. Coverage divides by a constant number of
stores, and nothing in the code keeps it below 100%. `dispose_engine` ends the
pool with its process. The scheduler's secret and CORS guard the entrance and
change nothing behind it. `make migrate-down` drops the tables under whoever
serves; it is an operator's decision and not an action of `Startup`, and `make
migrate` by hand is a container that stops before uvicorn.
