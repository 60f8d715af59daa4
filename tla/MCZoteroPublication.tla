---------------------- MODULE MCZoteroPublication ----------------------
(* Three files in publication order: documents.jsonl (rewritten only when  *)
(* the records changed), deltas/<sync_id>.jsonl and delta-catalog.jsonl.   *)
EXTENDS ZoteroPublication

MCPerSync == {2}
MCOptional == {1}
=============================================================================
