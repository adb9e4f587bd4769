---------------------------- MODULE AtomicReplace ----------------------------
(***************************************************************************)
(* What a writer of forecasts or narratives promises its readers: each     *)
(* product has at most one generation of rows, and one indivisible step    *)
(* replaces the generation of every product in the writer's scope.         *)
(***************************************************************************)
CONSTANTS Products, Txns, Seed, Scope, Fresh, NoRows

VARIABLES
  table,   \* table[p]: the writer of p's rows, or NoRows
  done     \* the transactions that have replaced their scope

Init ==
  /\ table \in [Products -> {Seed, NoRows}]
  /\ done = {}

Replace(t) ==
  /\ t \notin done
  /\ done' = done \cup {t}
  /\ table' = [p \in Products |->
       IF p \in Fresh[t] THEN t
       ELSE IF p \in Scope[t] THEN NoRows
       ELSE table[p]]

Next == \E t \in Txns : Replace(t)

Spec == Init /\ [][Next]_<<table, done>>
=============================================================================
