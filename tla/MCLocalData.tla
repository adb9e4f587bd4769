----------------------------- MODULE MCLocalData ------------------------------
(* Weeks of two days.  Store 1 is absent, closed, or open with 1 or 3      *)
(* units on each of days 3 to 6, around them it has one of four beginnings *)
(* and ends; in the file the days ascend or descend.  Store 2 never        *)
(* closes.  One of these files also meets any file of two lines, with or   *)
(* without a header before them and a second file behind, and any table of *)
(* seven rows, among them a duplicate, a day before Shown and a negative   *)
(* forecast.                                                               *)
EXTENDS LocalData

Absent == -1
Closed == 0
Open(units) == units + 1

Row1(d, kind) == [store |-> 1, day |-> d, sales |-> IF kind = Closed THEN 0 ELSE kind - 1,
                  open |-> kind # Closed]
Row2(d) == [store |-> 2, day |-> d, sales |-> 2, open |-> TRUE]
Up(h) == FlattenSeq([d \in 1..8 |-> IF h[d] = Absent THEN <<Row2(d)>>
                                    ELSE <<Row1(d, h[d]), Row2(d)>>])
Middle == {Absent, Closed, Open(1), Open(3)}
Start == {<<Open(0), Absent>>, <<Absent, Open(1)>>, <<Absent, Absent>>}
Histories(starts, b) == {a \o m \o <<b, Open(1)>> : a \in starts, m \in [1..4 -> Middle]}
Usual == {<<Absent, Open(1)>>}
File(rows) == {[line |-> i] @@ rows[i] : i \in DOMAIN rows}
TrainFiles ==
  {File(Up(h)) : h \in Histories(Start, Closed) \cup Histories(Usual, Open(3))}
    \cup {File(Reverse(Up(h))) : h \in Histories(Usual, Closed)}
OneTrain == File(Up([d \in 1..8 |-> Open(1)]))

Line(date, product, units) ==
  [date |-> date, product_id |-> product, store_id |-> "s", units_sold |-> units]
Lines ==
  {Line("date", "product_id", "text"), Line("day", "sku", "positive"),
   Line("day", "SKU", "negative"), Line("day", "SKU", Empty), Line("someday", "SKU", "positive"),
   Line("day", Empty, "positive"), Line("day", "SKU", "text")}
Files == {<<>>} \cup [1..2 -> Lines] \cup {<<Line("date", "product_id", "text")>> \o f : f \in [1..2 -> Lines]}
Exports == {<<f>> : f \in Files} \cup {<<f, <<l, l>>>> : f \in [1..2 -> Lines], l \in Lines}

Rows ==
  {[product |-> 1, day |-> 8, units |-> 3, lower |-> 2, upper |-> 5, copy |-> 1],
   [product |-> 1, day |-> 9, units |-> 4, lower |-> 2, upper |-> 5, copy |-> 1],
   [product |-> 1, day |-> 9, units |-> 4, lower |-> 2, upper |-> 5, copy |-> 2],
   [product |-> 1, day |-> 12, units |-> 9, lower |-> 8, upper |-> 9, copy |-> 1],
   [product |-> 2, day |-> 9, units |-> 1, lower |-> 0, upper |-> 1, copy |-> 1],
   [product |-> 2, day |-> 11, units |-> 7, lower |-> 7, upper |-> 7, copy |-> 1],
   [product |-> 3, day |-> 10, units |-> -1, lower |-> -2, upper |-> 1, copy |-> 1]}

MCInputs ==
  [train : TrainFiles \cup {{}}, exports : {<<>>}, bq : {{}}]
    \cup [train : {OneTrain}, exports : Exports, bq : {{}}]
    \cup [train : {OneTrain}, exports : {<<>>}, bq : SUBSET Rows]
=============================================================================
