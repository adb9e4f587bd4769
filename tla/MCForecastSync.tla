---------------------------- MODULE MCForecastSync ----------------------------
(* Two orchestrators, of which one has a driver that converts dates, beside *)
(* the script and a retraining that drops a product.                        *)
EXTENDS ForecastSync

CONSTANTS p1, p2, o1, o2, s1

MCProducts == {p1, p2}
MCBqRows == <<{p1, p2}, {p1}>>
MCOrchestrators == {o1, o2}
MCConverting == {o1}
MCScripts == {s1}
=============================================================================
