------------------------------- MODULE EtlLines -------------------------------
(***************************************************************************)
(* The Beam ETL line by line: sales files become the rows of sales_clean.  *)
(* A line is a record of its fields after stripping; a line with too few   *)
(* fields has empty ones, and an empty line is all empty.  Of the amounts, *)
(* units and revenue, which are treated alike, one stands for both: it is  *)
(* empty, negative or not a number, positive, or text that float()         *)
(* refuses.  What the csv module refuses is left out.                      *)
(***************************************************************************)
EXTENDS Naturals, Sequences, SequencesExt

Empty == ""
SalesLine == [date : STRING, product_id : STRING, store_id : STRING, units_sold : STRING]
Required == {"date", "product_id", "store_id"}

(* A header has "date" in its first column, and so does nothing else that  *)
(* is dropped here.                                                        *)
IsHeader(line) == line.date = "date"
FilterHeaderLines(line) == IF IsHeader(line) THEN <<>> ELSE <<line>>

(* Upper on the identifiers that occur. *)
UpperCase == [name \in {"sku"} |-> "SKU"]
Upper(name) == IF name \in DOMAIN UpperCase THEN UpperCase[name] ELSE name
IsDate(text) == text \notin {Empty, "date", "someday"}

(* max(0.0, float(x or 0)): 1 stands for what is positive. *)
Amounts == {Empty, "negative", "positive", "text"}
Amount(x) == IF x = "positive" THEN 1 ELSE 0

(* ParseSalesRow: the row of a line, or none if validation raises. *)
Refused(line) ==
  \/ \E f \in Required : line[f] = Empty
  \/ ~IsDate(line.date)
  \/ line.units_sold = "text"
(* Mutant: identifiers are left as they are. *)
RowAsWritten(line) ==
  [date |-> line.date, product_id |-> line.product_id, store_id |-> line.store_id,
   units_sold |-> Amount(line.units_sold)]
Row(line) ==
  [date |-> line.date, product_id |-> Upper(line.product_id), store_id |-> line.store_id,
   units_sold |-> Amount(line.units_sold)]
ParseSalesRow(line) == IF Refused(line) THEN <<>> ELSE <<Row(line)>>

(* ReadFromText leaves out the first line of every file, header or not. *)
ReadFromText(file) == IF file = <<>> THEN <<>> ELSE Tail(file)

(* run: each step yields nothing or one element for an element, and the    *)
(* rows of all files replace the table.                                    *)
SalesClean(files) ==
  LET lines == FlattenSeq([i \in DOMAIN files |-> ReadFromText(files[i])])
      filtered == FlattenSeq([k \in DOMAIN lines |-> FilterHeaderLines(lines[k])])
  IN FlattenSeq([k \in DOMAIN filtered |-> ParseSalesRow(filtered[k])])
=============================================================================
