------------------------------ MODULE LocalDoctor -----------------------------
(***************************************************************************)
(* scripts/local_doctor.py: a list of checks, each with a status and with  *)
(* a mark that says whether it counts under --strict, and an exit status   *)
(* made from them.  A machine is a record of what the checks look at.      *)
(***************************************************************************)
EXTENDS Naturals

Machines ==
  [raw : BOOLEAN,                            \* all three sales files
   report : {"missing", "columns", "rows"},  \* baseline_metrics.csv: none,
                                             \* without a column, complete
   index : BOOLEAN,                          \* both files of the FAISS index
   db : {"down", "up"},                      \* down: or without the tables
   forecasts : BOOLEAN,                      \* rows in forecasts
   narratives : BOOLEAN,                     \* rows in narratives
   api : {"down", "degraded", "ok"}]         \* what /health says

Result(name, status, strict) == [name |-> name, status |-> status, strict |-> strict]
Status(ok) == IF ok THEN "ok" ELSE "warn"

CheckRawData(m) == Result("raw_data", IF m.raw THEN "ok" ELSE "fail", ~m.raw)
CheckBaselineReport(m) ==
  Result("baseline_report", IF m.report = "rows" THEN "ok" ELSE "fail", m.report # "rows")
CheckFaissIndex(m) == Result("faiss_index", Status(m.index), FALSE)
(* Mutant: an empty table is never a strict failure. *)
CheckDatabaseLeniently(m) ==
  IF m.db = "down"
  THEN {Result("database", "warn", TRUE)}
  ELSE {Result("forecast_rows", Status(m.forecasts), FALSE),
        Result("narratives", Status(m.narratives), FALSE)}
CheckDatabase(m) ==
  IF m.db = "down"
  THEN {Result("database", "warn", TRUE)}
  ELSE {Result("forecast_rows", Status(m.forecasts), ~m.forecasts),
        Result("narratives", Status(m.narratives), FALSE)}
CheckApi(m) == Result("api_health", Status(m.api = "ok"), m.api # "ok")

RunChecks(m) ==
  {CheckRawData(m), CheckBaselineReport(m), CheckFaissIndex(m), CheckApi(m)}
    \cup CheckDatabase(m)

HasFailures(results, strict) ==
  \E r \in results : IF strict THEN r.status # "ok" /\ r.strict ELSE r.status = "fail"

ExitStatus(m, strict) == IF HasFailures(RunChecks(m), strict) THEN 1 ELSE 0
=============================================================================
