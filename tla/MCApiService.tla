----------------------------- MODULE MCApiService -----------------------------
(* Three requests of any kinds.  Which of them has which kind makes no *)
(* difference, so only one order of the kinds is looked at.            *)
EXTENDS ApiService

Rank(k) == CASE k = "trigger" -> 1 [] k = "generate" -> 2 [] k = "read" -> 3
             [] k = "health" -> 4 [] k = "report" -> 5
MCLoads ==
  {k \in [Requests -> Kinds] : \A r, q \in Requests : r < q => Rank(k[r]) <= Rank(k[q])}
=============================================================================
