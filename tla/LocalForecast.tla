---------------------------- MODULE LocalForecast -----------------------------
(***************************************************************************)
(* Forecasts and their backtest from the sales file alone, without         *)
(* BigQuery: seed_forecasts_local.py fills the forecasts table, and        *)
(* baseline_compare.py scores "the same approach" on the end of the file.  *)
(* Each script has its own copy of the arithmetic.                         *)
(*                                                                         *)
(* A file is a set of rows: line of the file, store, day, sales, and       *)
(* whether the store was open.  Means are fractions <<sum, count>>, and a  *)
(* fraction by 0 is pandas' NaN.  Forecasts are rounded to tenths and      *)
(* counted in tenths; a tie, which the code decides by the binary          *)
(* representation, goes up here.                                           *)
(***************************************************************************)
EXTENDS Integers, FiniteSets, FiniteSetsExt, Functions, Calendar

CONSTANTS
  Recent,       \* days of the window the level is taken from: 8 weeks
  Older,        \* days of the window the trend starts from: 16 weeks
  Horizon,      \* forecast_horizon_days
  Short, Long   \* observations of the two moving averages

ASSUME WindowAssumption ==
  /\ {Recent, Older, Horizon, Short, Long} \subseteq Nat \ {0}
  /\ Recent < Older

(* What load_sales can read, with one row for each store and day: by_date  *)
(* of baseline_compare is no number otherwise.                             *)
SalesFile(file) ==
  /\ IsFiniteSet(file)
  /\ file \subseteq [line : Nat, store : Int, day : Int, sales : Nat, open : BOOLEAN]
  /\ \A r, q \in file : r.line = q.line \/ (r.store = q.store /\ r.day = q.day) => r = q

OpenOnes(rows) == {r \in rows : r.open}
OfStore(rows, s) == {r \in rows : r.store = s}
StoresOf(rows) == {r.store : r \in rows}
LastDay(rows) == Max({r.day : r \in rows})
Between(rows, from, to) == {r \in rows : from < r.day /\ r.day <= to}

Nan(x) == x[2] = 0
Mean(rows) == <<SumFunction([r \in rows |-> r.sales]), Cardinality(rows)>>
Times(x, y) == <<x[1] * y[1], x[2] * y[2]>>
Over(x, y) == <<x[1] * y[2], x[2] * y[1]>>
Clip(x) ==
  CASE Nan(x) -> x
    [] ~Nan(x) /\ 10 * x[1] < 7 * x[2] -> <<7, 10>>
    [] ~Nan(x) /\ 10 * x[1] > 13 * x[2] -> <<13, 10>>
    [] OTHER -> x
Tenths(x) == (20 * x[1] + x[2]) \div (2 * x[2])

-----------------------------------------------------------------------------
(* build_forecasts: open days only, of the first n stores; the windows end *)
(* with the last open day of any of them.                                  *)
SeedRows(file, n) ==
  LET open == OpenOnes(file)
  IN {r \in open : Cardinality({s \in StoresOf(open) : s < r.store}) < n}

(* Mutant: the window begins with the day of the cut. *)
SeedRecentInclusive(rows, s) ==
  Between(OfStore(rows, s), LastDay(rows) - Recent - 1, LastDay(rows))
SeedRecent(rows, s) == Between(OfStore(rows, s), LastDay(rows) - Recent, LastDay(rows))
SeedOlder(rows, s) ==
  Between(OfStore(rows, s), LastDay(rows) - Older, LastDay(rows) - Recent)

SeedTrend(rows, s) ==
  LET q == Clip(Over(Mean(SeedRecent(rows, s)), Mean(SeedOlder(rows, s))))
  IN IF Nan(q) THEN <<1, 1>> ELSE q

(* The recent days of the weekday, or all recent days, or nothing at all. *)
SeedLevel(rows, s, d) ==
  LET recent == SeedRecent(rows, s)
      alike == {r \in recent : Weekday(r.day) = Weekday(d)}
  IN CASE alike # {} -> Mean(alike)
       [] alike = {} /\ recent # {} -> Mean(recent)
       [] OTHER -> <<0, 1>>

(* Half of the interval, 1.28 standard deviations: of the weekday's sample *)
(* where it has one, else a share of the level.                            *)
Root(v) ==
  LET big == 65536 * v[1]
  IN CHOOSE h \in 0..big : /\ big < (2 * h + 1) * (2 * h + 1) * 100 * v[2]
                           /\ h > 0 => (2 * h - 1) * (2 * h - 1) * 100 * v[2] <= big
(* Mutant: a deviation of 0 is taken as it is. *)
SeedHalfAsIs(rows, s, d) ==
  LET alike == {r \in SeedRecent(rows, s) : Weekday(r.day) = Weekday(d)}
      n == Cardinality(alike)
      sum == SumFunction([r \in alike |-> r.sales])
      squares == SumFunction([r \in alike |-> r.sales * r.sales])
  IN IF n > 1 THEN Root(<<n * squares - sum * sum, n * (n - 1)>>) ELSE 1
SeedHalf(rows, s, d) ==
  LET alike == {r \in SeedRecent(rows, s) : Weekday(r.day) = Weekday(d)}
      n == Cardinality(alike)
      sum == SumFunction([r \in alike |-> r.sales])
      squares == SumFunction([r \in alike |-> r.sales * r.sales])
      spread == n * squares - sum * sum
      level == SeedLevel(rows, s, d)
  IN CASE n > 1 /\ spread > 0 -> Root(<<spread, n * (n - 1)>>)
       [] n = 0 -> Tenths(Times(<<128 * 15, 10000>>, level))
       [] OTHER -> Tenths(Times(<<128 * 12, 10000>>, level))

SeedUnits(rows, s, d) == Tenths(Times(SeedLevel(rows, s, d), SeedTrend(rows, s)))

BuildForecasts(file, n) ==
  LET rows == SeedRows(file, n)
      row(s, d) == [product |-> s, day |-> d, units |-> SeedUnits(rows, s, d),
                    lower |-> Max({SeedUnits(rows, s, d) - SeedHalf(rows, s, d), 0}),
                    upper |-> SeedUnits(rows, s, d) + SeedHalf(rows, s, d), copy |-> 1]
  IN {row(s, LastDay(rows) + i) : s \in StoresOf(rows), i \in 1..Horizon}

-----------------------------------------------------------------------------
(* compare_baselines: the last days of the file are held out. *)
Cutoff(file) == LastDay(file) - Horizon
History(file) == {r \in file : r.day <= Cutoff(file)}
Holdout(file) == {r \in file : r.day > Cutoff(file)}

(* _predict_store: its windows end with the last day of the store's own    *)
(* history, open or not.                                                   *)
StoreHistory(file, s) == OfStore(History(file), s)
OpenHistory(file, s) == OpenOnes(StoreHistory(file, s))
OwnWindow(file, s, from, to) ==
  LET last == LastDay(StoreHistory(file, s))
  IN Between(OpenHistory(file, s), last - from, last - to)
OwnRecent(file, s) == OwnWindow(file, s, Recent, 0)

OwnTrend(file, s) ==
  LET older == Mean(OwnWindow(file, s, Older, Recent))
  IN IF older[1] # 0 THEN Clip(Over(Mean(OwnRecent(file, s)), older)) ELSE <<1, 1>>

Base(file, s, d) ==
  LET recent == OwnRecent(file, s)
      alike == {r \in recent : Weekday(r.day) = Weekday(d)}
  IN CASE alike # {} -> Mean(alike)
       [] alike = {} /\ recent # {} -> Mean(recent)
       [] OTHER -> <<0, 1>>

LocalSeasonalTrend(file, s, d) == Times(Base(file, s, d), OwnTrend(file, s))

SeasonalNaive(file, s, d) ==
  LET before == {r \in StoreHistory(file, s) : r.day = d - Week}
  IN IF before = {} THEN Base(file, s, d) ELSE Mean(before)

(* tail(k) of the store's open rows, as the file has them. *)
LastRows(rows, k) == {r \in rows : Cardinality({q \in rows : q.line > r.line}) < k}
MovingAverage(file, s, k) == Mean(LastRows(OpenHistory(file, s), k))

Models == {"local_seasonal_trend", "seasonal_naive_7d", "moving_average_7d", "moving_average_28d"}
Predict(model, file, s, d) ==
  CASE OpenHistory(file, s) = {} -> <<0, 1>>
    [] OTHER -> CASE model = "local_seasonal_trend" -> LocalSeasonalTrend(file, s, d)
                  [] model = "seasonal_naive_7d" -> SeasonalNaive(file, s, d)
                  [] model = "moving_average_7d" -> MovingAverage(file, s, Short)
                  [] model = "moving_average_28d" -> MovingAverage(file, s, Long)

(* A model's row of the report, here with what it predicts for each row of *)
(* the holdout; mean() leaves out what is NaN.                             *)
CompareStores(model, file) ==
  [model |-> model,
   predicted |-> [r \in Holdout(file) |-> Predict(model, file, r.store, r.day)]]
Scored(row) == {r \in DOMAIN row.predicted : ~Nan(row.predicted[r])}
CompareBaselines(file) == {CompareStores(m, file) : m \in Models}
=============================================================================
