--------------------------- MODULE MCPipelineService ---------------------------
(* Runs of two processes, one per framework order, and their orchestrators *)
(* over the same warehouse; the runs of a process die together.            *)
EXTENDS PipelineService

CONSTANTS r1, r2, i1, i2, p1

MCRuns == {r1, r2}
MCInstances == {i1, i2}
MCCommitFirst == {i1}
MCOrchestrators == MCRuns
MCScripts == {}
MCGenerators == {}
MCProducts == {p1}
=============================================================================
