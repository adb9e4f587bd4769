----------------------------- MODULE MCStorePanel -----------------------------
(* Two stores suffice for a late answer about the store left behind. *)
EXTENDS StorePanel

CONSTANTS a, b

MCStores == {a, b}
=============================================================================
