--------------------------- MODULE MCAttachmentSync ---------------------------
(* AttachmentSync on a small instance: all versions have the same size. *)
EXTENDS AttachmentSync

MCSize == [v \in 1..MaxVersion |-> 1]
MCMembers == [v \in 1..MaxVersion |-> IF v = 2 THEN {"a", "b"} ELSE {"a"}]
================================================================================
