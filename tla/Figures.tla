-------------------------------- MODULE Figures -------------------------------
(***************************************************************************)
(* What the two dashboards show of the forecasts table.  Next.js reads the *)
(* API's endpoints, which add up in SQL or in Python; Streamlit has its    *)
(* own SQL for the network and takes single stores from the API.           *)
(*                                                                         *)
(* A table is a set of rows with a product, a day, units and an interval   *)
(* in tenths, and where there are several of one product and day the       *)
(* number of the copy.  An average is the fraction <<sum, count>>.         *)
(***************************************************************************)
EXTENDS Integers, FiniteSets, FiniteSetsExt, Functions, Calendar

CONSTANTS
  Shown,         \* first day Streamlit's trends show: 2015-08-01
  TotalStores,   \* 1115
  High, Low      \* bounds of Streamlit's tiers: 60000 and 20000

ASSUME FiguresAssumption ==
  /\ {TotalStores, High, Low} \subseteq Nat \ {0}
  /\ Shown \in Int
  /\ Low < High

IsTable(T) ==
  /\ IsFiniteSet(T)
  /\ \A r \in T : r.product \in Int /\ r.day \in Int /\ r.copy \in Int /\ r.units \in Int
  /\ \A r, q \in T : r.product = q.product /\ r.day = q.day /\ r.copy = q.copy => r = q

Units(rows) == SumFunction([r \in rows |-> r.units])
Totals(figures) == SumFunction([f \in figures |-> f.total])
Avg(sum, rows) == <<sum, Cardinality(rows)>>
OfProduct(T, p) == {r \in T : r.product = p}
Products(T) == {r.product : r \in T}

-----------------------------------------------------------------------------
(* GET forecasts/{product_id}: the response model refuses negative units,  *)
(* and one such row makes all of the product's an internal error.          *)
GetForecasts(T, p) ==
  LET rows == OfProduct(T, p)
  IN CASE rows = {} -> [status |-> 404, rows |-> {}]
       [] \E r \in rows : r.units < 0 -> [status |-> 500, rows |-> {}]
       [] OTHER -> [status |-> 200, rows |-> rows]

(* GET dashboard/... *)
ListStores(T) == Products(T)

FleetSummary(T) ==
  {[product |-> p,
    total |-> Units(OfProduct(T, p)),
    avg |-> Avg(Units(OfProduct(T, p)), OfProduct(T, p)),
    peak |-> Max({r.units : r \in OfProduct(T, p)})] : p \in Products(T)}

DailyTrend(T) ==
  LET on(d) == {r \in T : r.day = d}
  IN {[day |-> d, total |-> Units(on(d)), avg |-> Avg(Units(on(d)), on(d)),
       stores |-> Cardinality(Products(on(d)))] : d \in {r.day : r \in T}}

(* Monday is 0. *)
DayOfWeekPattern(T) ==
  LET on(k) == {r \in T : Weekday(r.day) = k}
  IN {[dow |-> k, total |-> Units(on(k)), avg |-> Avg(Units(on(k)), on(k))] :
        k \in {Weekday(r.day) : r \in T}}

(* Here an average is per store and week. *)
WeeklyFleet(T) ==
  LET in(w) == {r \in T : WeekStart(r.day) = w}
  IN {[week |-> w, total |-> Units(in(w)), avg |-> Avg(Units(in(w)), Products(in(w)))] :
        w \in {WeekStart(r.day) : r \in T}}

Coverage(summaries) == <<100 * Cardinality({n.product : n \in summaries}), TotalStores>>

-----------------------------------------------------------------------------
(* Streamlit's own queries.  Sunday is 0, the trends begin with Shown, and *)
(* the average of a week is per store and day.  SQL's ROUND goes to the    *)
(* nearest number and takes halves away from 0: sums to whole units,       *)
(* averages to tenths.                                                     *)
Half(n, d) == (2 * n + d) \div (2 * d)
Round(n, d) == IF n < 0 THEN -Half(-n, d) ELSE Half(n, d)
LoadDowPattern(T) ==
  LET on(k) == {r \in T : Weekday(r.day + 1) = k}
  IN {[dow |-> k, total |-> 10 * Round(Units(on(k)), 10),
       avg |-> Round(Units(on(k)), Cardinality(on(k)))] : k \in {Weekday(r.day + 1) : r \in T}}

ShownRows(T) == {r \in T : r.day >= Shown}
LoadDailyTrend(T) == DailyTrend(ShownRows(T))
LoadWeeklyFleet(T) ==
  LET in(w) == {r \in ShownRows(T) : WeekStart(r.day) = w}
  IN {[week |-> w, total |-> Units(in(w)), avg |-> Avg(Units(in(w)), in(w))] :
        w \in {WeekStart(r.day) : r \in ShownRows(T)}}

(* The tab of the network. *)
Tier(total) == IF total >= High THEN "high" ELSE IF total >= Low THEN "mid" ELSE "low"
InTier(fleet, t) == {f \in fleet : Tier(f.total) = t}
NetworkKpis(fleet) ==
  [total |-> Totals(fleet),
   avg |-> Avg(Totals(fleet), fleet),
   top |-> Max({f.total : f \in fleet}),
   high |-> Avg(100 * Cardinality({f \in fleet : f.total >= High}), fleet),
   low |-> Avg(100 * Cardinality({f \in fleet : f.total < Low}), fleet)]
TierCounts(fleet) ==
  {[tier |-> t, stores |-> Cardinality(InTier(fleet, t)), total |-> Totals(InTier(fleet, t))] :
     t \in {Tier(f.total) : f \in fleet}}

(* Next.js splits the fleet by rank instead, the first twentieth, the rest *)
(* of the first half, and the second half, where rounding leaves at least  *)
(* one store to "High" and one place to "Mid".  SQL may return equal       *)
(* totals in any order; here the lower product comes first.                *)
Ahead(fleet, f) ==
  {g \in fleet : g.total > f.total \/ (g.total = f.total /\ g.product < f.product)}
RankTier(rank, n) ==
  LET highCut == Max({1, (n + 10) \div 20})
      midCut == Max({highCut + 1, (n + 1) \div 2})
  IN IF rank < highCut THEN "High" ELSE IF rank < midCut THEN "Mid" ELSE "Low"
ComputeStoreTiers(fleet) ==
  {[product |-> f.product, total |-> f.total,
    tier |-> RankTier(Cardinality(Ahead(fleet, f)), Cardinality(fleet))] : f \in fleet}

(* The tab of a store: the rows the API has sent, in the order of days,    *)
(* those of one day in one of the orders the sort may leave them in, and   *)
(* the store's place in the fleet.  Rows are counted from 0.               *)
InOrder(a, b) == a.day < b.day \/ (a.day = b.day /\ a.copy < b.copy)
Place(rows, r) == Cardinality({q \in rows : InOrder(q, r)})
Slice(rows, from, to) == {r \in rows : from <= Place(rows, r) /\ Place(rows, r) < to}
PctRank(total, fleet) == Avg(100 * Cardinality({f \in fleet : f.total <= total}), fleet)

StoreCard(rows, fleet) ==
  LET head == Slice(rows, 0, Week)
      tail == Slice(rows, Cardinality(rows) - Week, Cardinality(rows))
  IN [total |-> Units(rows), avg |-> Avg(Units(rows), rows),
      peak |-> Max({r.units : r \in rows}),
      first |-> Avg(Units(head), head), last |-> Avg(Units(tail), tail),
      rank |-> PctRank(Units(rows), fleet), tier |-> Tier(Units(rows))]

(* At most four stretches of a week's length from the first row on. *)
Stretch(rows, i) == Slice(rows, i * Week, (i + 1) * Week)
Bars(rows, numbers) ==
  {[week |-> i, total |-> Units(Stretch(rows, i))] : i \in {j \in numbers : Stretch(rows, j) # {}}}
(* Mutant: whole weeks only. *)
WholeWeeks(rows) == Bars(rows, 0..Min({4, Cardinality(rows) \div Week}) - 1)
WeekOverWeek(rows) == Bars(rows, 0..Min({4, Cardinality(rows) \div Week + 1}) - 1)

(* Weekly granularity: calendar weeks. *)
WeeklyAgg(rows) ==
  {[week |-> w, total |-> Units({r \in rows : WeekStart(r.day) = w})] :
     w \in {WeekStart(r.day) : r \in rows}}

(* A line of the comparison. *)
CompareRow(rows, fleet) ==
  [total |-> Units(rows), tier |-> Tier(Units(rows)), rank |-> PctRank(Units(rows), fleet)]
=============================================================================
