--------------------------- MODULE MCNarrativeBatch ---------------------------
(* The lowest store always fails: it is chosen again by every batch. *)
EXTENDS NarrativeBatch

MCBad == {1}
=============================================================================
