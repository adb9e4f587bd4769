----------------------------- MODULE MCReplaceTx -----------------------------
(* Instances of ReplaceTx: single-product writers (orchestrator, API route, *)
(* sync_narratives) beside a full-table writer (sync_forecasts, the seed).  *)
EXTENDS ReplaceTx, TLC

CONSTANTS p1, p2, w1, w2, full

MCProducts == {p1, p2}
MCTxns == {w1, w2, full}

\* Two writers of all products beside one of p2, with lock cycles; the
\* source of full has lost p2.
MCScope == (w1 :> {p1, p2}) @@ (w2 :> {p2}) @@ (full :> {p1, p2})
MCFresh == (w1 :> {p1, p2}) @@ (w2 :> {p2}) @@ (full :> {p1})
=============================================================================
