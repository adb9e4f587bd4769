------------------------------ MODULE MCStartup ------------------------------
(* c1 and c3 are Cloud Run instances, each with a directory of its own,    *)
(* and share their database with s2, a server started by hand.  On one     *)
(* machine share a directory: s2, the build script, and c2, the container  *)
(* of docker-compose.yml.                                                  *)
EXTENDS Startup, TLC

CONSTANTS c1, c2, c3, b1, s1, s2, d1, d2, d3

MCContainers == {c1, c2, c3}
MCScripts == {b1}
MCServers == {s1, s2}
MCParent == (s1 :> c1) @@ (s2 :> s2)
MCDirs == {d1, d2, d3}
MCDirOf == [p \in Procs |-> CASE p \in {c1, s1} -> d1 [] p = c3 -> d3 [] OTHER -> d2]
MCEphemeral == {c1, c3}
MCCompose == {c2}
=============================================================================
