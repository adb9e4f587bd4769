---------------------------- MODULE MCStreamlitApp ----------------------------
(* The forecasts and the summary of a store, with lives of different lengths. *)
EXTENDS StreamlitApp

MCScript == <<"forecasts", "narrative">>
MCTtl == [forecasts |-> 3, narrative |-> 2]
=============================================================================
