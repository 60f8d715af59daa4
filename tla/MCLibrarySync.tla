----------------------------- MODULE MCLibrarySync -----------------------------
(* LibrarySync with a few outcomes of the resolution of an attachment. *)
EXTENDS LibrarySync

MCResolution(s, p, a) == [status |-> s, pdf |-> p, arch |-> a]
MCResolutions == {MCResolution("ready", "p1", "a1"), MCResolution("ready", "p1", "a2"),
                  MCResolution("ready", "p2", "a2"), MCResolution("missing_archive", "none", "none"),
                  MCResolution("unstable_archive", "none", "none")}
================================================================================
