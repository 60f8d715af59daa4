--------------------------- MODULE MCRagPipeline ---------------------------
(* One process issues the other commands, a second one parses beside it.   *)
EXTENDS RagPipeline

MCProcs == 1 .. 2
MCCommands == <<{"reconcile", "resume", "incremental", "embed"}, {"parse"}>>

\* The content of the first document changes, or its metadata; the second one
\* comes and goes.
MCVersions ==
  LET v(c, m) == [c |-> c, m |-> m]
  IN <<{v(1, 1), v(2, 1), v(1, 2)}, {v(1, 1)}>>
=============================================================================
