------------------------------ MODULE MCPipeline ------------------------------
(* An orchestrator, the script and one generation outside the pipeline.    *)
EXTENDS Pipeline

CONSTANTS o1, b1, g1, p1

MCOrchestrators == {o1}
MCScripts == {b1}
MCGenerators == {g1}
MCProducts == {p1}
=============================================================================
