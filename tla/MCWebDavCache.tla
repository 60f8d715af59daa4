----------------------------- MODULE MCWebDavCache -----------------------------
(* WebDavCache on a small instance: versions 1 and 2, 3 and 4 have one size each. *)
EXTENDS WebDavCache

MCSize == [v \in 1..MaxVersion |-> (v + 1) \div 2]
================================================================================
