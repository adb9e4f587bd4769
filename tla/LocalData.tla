------------------------------- MODULE LocalData ------------------------------
(***************************************************************************)
(* The project without GCP: sales files on disk, the scripts that make     *)
(* tables and reports from them, the dashboards that show these, and the   *)
(* doctor that looks whether all is there.  What the scripts compute is    *)
(* LocalForecast's and EtlLines', what the dashboards show is Figures'.    *)
(***************************************************************************)
EXTENDS LocalForecast, Figures, EtlLines, LocalDoctor

CONSTANT
  Inputs   \* what an instance begins with: the sales file, the files for
           \* the ETL, and the forecasts BigQuery would make

ASSUME InputsAssumption ==
  \A in \in Inputs : SalesFile(in.train) /\ in.exports \in Seq(Seq(SalesLine)) /\ IsTable(in.bq)

VARIABLES
  train,       \* data/raw/train.csv
  exports,     \* the files the ETL reads
  bq,          \* the forecasts in BigQuery
  forecasts,   \* the table
  report,      \* baseline_metrics.csv, empty if missing
  sales        \* sales_clean in BigQuery

vars == <<train, exports, bq, forecasts, report, sales>>

Init ==
  /\ \E in \in Inputs : train = in.train /\ exports = in.exports /\ bq = in.bq
  /\ forecasts = {}
  /\ report = {}
  /\ sales = <<>>

(* seed_forecasts_local, for n stores: one transaction replaces all rows.  *)
(* Without an open day there is nothing to count and main() raises.        *)
SeedForecasts(n) ==
  /\ SeedRows(train, n) # {}
  /\ forecasts' = BuildForecasts(train, n)
  /\ UNCHANGED <<train, exports, bq, report, sales>>

(* baseline_compare; without a holdout there is nothing to concatenate. *)
WriteReport ==
  /\ train # {}
  /\ report' = CompareBaselines(train)
  /\ UNCHANGED <<train, exports, bq, forecasts, sales>>

RunEtl ==
  /\ sales' = SalesClean(exports)
  /\ UNCHANGED <<train, exports, bq, forecasts, report>>

(* The orchestrator or the sync script: see ForecastSync. *)
SyncFromBigQuery ==
  /\ bq # {}
  /\ forecasts' = bq
  /\ UNCHANGED <<train, exports, bq, report, sales>>

Next ==
  \/ \E n \in {1, Cardinality(train)} : SeedForecasts(n)
  \/ WriteReport
  \/ RunEtl
  \/ SyncFromBigQuery

Spec == Init /\ [][Next]_vars

-----------------------------------------------------------------------------
(* What the report scores under each name.  local_seasonal_trend is what   *)
(* the seed would have forecast from the same history, for every store     *)
(* that is listed up to its end and was open in its recent window; the two *)
(* scripts define their windows apart from each other.  Of a store that    *)
(* was open before that window only, the seed makes 0 and the backtest     *)
(* NaN: the only rows that one model is not scored on and the others are.  *)
Reopens(s) ==
  /\ OpenHistory(train, s) # {}
  /\ OwnRecent(train, s) = {}
  /\ Mean(OwnWindow(train, s, Older, Recent))[1] # 0
MirrorsSeed(row) ==
  LET past == History(train)
      rows == OpenOnes(past)
      last(s) == LastDay(OfStore(past, s))
  IN /\ Scored(row) = {r \in Holdout(train) : ~Reopens(r.store)}
     /\ \A r \in Scored(row) :
          r.store \in StoresOf(rows) /\ last(r.store) = LastDay(rows)
            => Tenths(row.predicted[r]) = SeedUnits(rows, r.store, r.day)
     /\ \A s \in StoresOf(rows) :
          Reopens(s) /\ last(s) <= LastDay(rows) => SeedUnits(rows, s, 1 + LastDay(rows)) = 0

(* A moving average is of the store's newest open days if the file lists   *)
(* the newest last, and of its oldest if it lists them first.              *)
Ascends(file) == \A r, q \in file : r.line < q.line => r.day <= q.day
Descends(file) == \A r, q \in file : r.line < q.line => r.day >= q.day
FollowsFile(row, k) ==
  \A r \in DOMAIN row.predicted :
    LET open == OpenHistory(train, r.store)
        newest == {q \in open : Cardinality({x \in open : x.day > q.day}) < k}
        oldest == {q \in open : Cardinality({x \in open : x.day < q.day}) < k}
    IN open # {} => /\ Ascends(train) => row.predicted[r] = Mean(newest)
                    /\ Descends(train) => row.predicted[r] = Mean(oldest)

BacktestIsOfItsModels ==
  \A row \in report :
    /\ row.model = "local_seasonal_trend" => MirrorsSeed(row)
    /\ row.model # "local_seasonal_trend" => Scored(row) = Holdout(train)
    /\ row.model = "moving_average_7d" => FollowsFile(row, Short)
    /\ row.model = "moving_average_28d" => FollowsFile(row, Long)

(* Every store of the seed is served by the API, with one row for each day *)
(* of the horizon, an interval around each forecast, and no certainty      *)
(* where at least one unit is expected.                                    *)
SeedIsServed ==
  [][\A n \in {1, Cardinality(train)} : SeedForecasts(n) =>
       \A p \in StoresOf(SeedRows(train, n)) :
         LET answer == GetForecasts(forecasts', p)
         IN /\ answer.status = 200
            /\ Cardinality(answer.rows) = Horizon
            /\ Cardinality({r.day : r \in answer.rows}) = Horizon
            /\ \A r \in answer.rows :
                 /\ r.lower <= r.units /\ r.units <= r.upper
                 /\ r.units >= 10 => r.lower < r.upper]_vars

(* A weekday of Streamlit is one of the API, in its own count of the days, *)
(* and rounding moves its total by half a unit, and its average by half a  *)
(* tenth, at most.                                                         *)
SameWeekday(x, y) ==
  /\ x.dow = (y.dow + 1) % Week
  /\ 2 * (x.total - y.total) \in -10..10
  /\ 2 * (x.avg * y.avg[2] - y.avg[1]) \in -y.avg[2]..y.avg[2]

(* All panels of both dashboards speak of the same units: the network's    *)
(* panels add up to the same total, duplicates and gaps or not, and only   *)
(* Streamlit's weekdays differ from the API's, by their rounding; its      *)
(* trends leave out what lies before Shown and nothing else, a store's     *)
(* card and its line of the comparison agree with the network's tab, and   *)
(* the tiers of the KPIs are those of the tier table.  Next.js's ranks,    *)
(* for however few stores, follow the totals, and the top store is in the  *)
(* highest.                                                                *)
PanelsAgree ==
  LET T == forecasts
      fleet == FleetSummary(T)
      total == Units(T)
      shown == Units({r \in T : r.day >= Shown})
  IN /\ \A panel \in {fleet, DailyTrend(T), DayOfWeekPattern(T), WeeklyFleet(T)} :
          Totals(panel) = total
     /\ LET sql == LoadDowPattern(T)
            api == DayOfWeekPattern(T)
        IN /\ \A x \in sql : \E y \in api : SameWeekday(x, y)
           /\ \A y \in api : \E x \in sql : SameWeekday(x, y)
     /\ \A panel \in {LoadDailyTrend(T), LoadWeeklyFleet(T)} : Totals(panel) = shown
     /\ ListStores(T) = {f.product : f \in fleet}
     /\ \A f \in fleet :
          LET answer == GetForecasts(T, f.product)
              card == StoreCard(answer.rows, fleet)
          IN answer.status = 200 =>
               /\ card.total = f.total /\ card.avg = f.avg /\ card.peak = f.peak
               /\ CompareRow(answer.rows, fleet) =
                    [total |-> card.total, tier |-> card.tier, rank |-> card.rank]
               /\ f.total = NetworkKpis(fleet).top => card.rank[1] = 100 * card.rank[2]
               /\ Totals(WeeklyAgg(answer.rows)) = f.total
               /\ Totals(WeekOverWeek(answer.rows))
                    = Units(Slice(answer.rows, 0, 4 * Week))
     /\ LET ranked == ComputeStoreTiers(fleet)
            totals(t) == {x.total : x \in {y \in ranked : y.tier = t}}
        IN T # {} => /\ Totals(ranked) = total
                     /\ NetworkKpis(fleet).top \in totals("High")
                     /\ \A a \in totals("High"), b \in totals("Mid") : a >= b
                     /\ \A a \in totals("Mid"), b \in totals("Low") : a >= b
     /\ LET tiers == TierCounts(fleet)
            stores(t) == SumFunction([c \in {x \in tiers : x.tier = t} |-> c.stores])
        IN T # {} => /\ NetworkKpis(fleet).high[1] = 100 * stores("high")
                     /\ NetworkKpis(fleet).low[1] = 100 * stores("low")
                     /\ Totals(tiers) = total

(* Every line that can be read is one row, as often as it occurs, but for  *)
(* the first line of a file, which is lost if it is no header.  A product  *)
(* has one name in the table; duplicates stay, also those that differ in   *)
(* the case of that name only.                                             *)
EveryLineCounts ==
  [][RunEtl =>
       LET line(x) == exports[x[1]][x[2]]
           lines == UNION {{<<i, k>> : k \in 2..Len(exports[i])} : i \in DOMAIN exports}
           readable == {x \in lines : /\ IsDate(line(x).date)
                                      /\ line(x).product_id # Empty /\ line(x).store_id # Empty
                                      /\ line(x).units_sold # "text"}
           written(l) == [date |-> l.date, product_id |-> Upper(l.product_id),
                          store_id |-> l.store_id, units_sold |-> Amount(l.units_sold)]
       IN \A r \in ToSet(sales') \cup {written(line(x)) : x \in readable} :
            /\ r.product_id \notin DOMAIN UpperCase
            /\ Cardinality({i \in DOMAIN sales' : sales'[i] = r})
                 = Cardinality({x \in readable : written(line(x)) = r})]_vars

(* On a machine that passes the doctor's strict checks the dashboards have *)
(* stores to show and a report to rank, and what fails without --strict    *)
(* fails with it.                                                          *)
ThisMachine(m) ==
  /\ m.raw = (train # {})
  /\ m.report = IF report = {} THEN "missing" ELSE "rows"
  /\ m.forecasts = (forecasts # {})
StrictPassMeansData ==
  \A m \in {x \in Machines : ThisMachine(x)} :
    /\ ExitStatus(m, TRUE) = 0 =>
         /\ ListStores(forecasts) # {}
         /\ \E naive \in report : naive.model = "seasonal_naive_7d"
    /\ ExitStatus(m, FALSE) = 1 => ExitStatus(m, TRUE) = 1
=============================================================================
