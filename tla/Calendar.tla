------------------------------- MODULE Calendar -------------------------------
(***************************************************************************)
(* Days are whole numbers, counted from a Monday.                          *)
(***************************************************************************)
EXTENDS Integers

CONSTANT Week   \* the days of a week

ASSUME WeekAssumption == Week \in Nat \ {0}

Weekday(d) == d % Week
WeekStart(d) == d - Weekday(d)
===============================================================================
