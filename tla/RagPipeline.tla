---------------------------- MODULE RagPipeline ----------------------------
(***************************************************************************)
(* pipeline/orchestrator.py, state.py and source.py: how the RAG commands  *)
(* (incremental, full, reconcile, resume, parse, embed) bring the snapshot *)
(* and the deltas a source publishes into the pipeline database, the       *)
(* Parquet artifacts and the Qdrant collection.                            *)
(*                                                                         *)
(* Every database transaction, every artifact and every request that       *)
(* changes the collection is an action of its own; the run may raise or    *)
(* die between any two.  A document is what its fingerprints tell apart:   *)
(* its content c, its metadata m, and the chunker configuration k under    *)
(* which its chunks were cut.  A delta carries one document.               *)
(***************************************************************************)
EXTENDS Naturals, Sequences, FiniteSets

CONSTANTS
  NDocs,         \* the documents are 1 .. NDocs, in document_id order
  Procs,         \* processes that run a `rag` command
  Commands,      \* the commands each process issues, among AllCommands
  Versions,      \* bound: the contents and metadata of each document
  MaxPublished,  \* bound: deltas the source publishes
  MaxChunker,    \* bound: configurations of the chunker
  MaxFaults,     \* bound: errors, crashes and lost artifacts
  SourceMoves,   \* TRUE: the source may publish while a command has its snapshot
  None

Docs == 1 .. NDocs
FullCommands == {"full", "full_force", "reconcile"}
EmbedCommands == {"embed", "embed_force"}
AllCommands == FullCommands \cup EmbedCommands \cup {"incremental", "resume", "parse", "parse_force"}
Forced == {"full_force", "parse_force"}   \* --force where documents are classified
ParseOnly == {"parse", "parse_force"}

ASSUME ConstantsAssumption ==
  /\ NDocs \in Nat /\ MaxPublished \in Nat
  /\ Versions \in [1 .. NDocs -> SUBSET [c : Nat \ {0}, m : Nat \ {0}]]
  /\ MaxChunker \in Nat \ {0} /\ MaxFaults \in Nat
  /\ Commands \in [Procs -> SUBSET AllCommands] /\ SourceMoves \in BOOLEAN
  /\ None \notin Procs

VARIABLES
  snapshot, catalog,   \* documents.jsonl, delta-catalog.jsonl with its deltas
  chunker,             \* the configured chunker
  row, op, consumed,   \* pipeline_documents, pending index_operations,
                       \* the last sequence of consumed_deltas
  parsed, parquet,     \* the artifacts on disk
  points,              \* the Qdrant points of each document
  lock,                \* the holder of rag.lock
  pc, cmd, sel, next, last,    \* a run: its command and what it selected
  toParse, ok, toChunk, toEmbed, vec, ops, errs,  \* work lists of its stages
  faults

source == <<snapshot, catalog>>
state  == <<row, op, consumed>>
files  == <<parsed, parquet>>
work   == <<toParse, ok, toChunk, toEmbed, vec, ops, errs>>
runs   == <<pc, cmd, sel, next, last, work>>
vars   == <<source, chunker, state, files, points, lock, runs, faults>>

Absent == [c |-> 0, m |-> 0]     \* not in the snapshot, or not ready there
NoChunks == [c |-> 0, m |-> 0, k |-> 0, full |-> FALSE]
NoFingerprint == [c |-> 0, k |-> 0]
NoRow == [st |-> "none", c |-> 0, m |-> 0, parse |-> "pending", pfp |-> 0,
          chunk |-> "pending", cfp |-> NoFingerprint, index |-> "pending"]

First(S, x) == x \in S /\ \A y \in S : x <= y
Picked(s) == {d \in Docs : s[d] # Absent}
Nothing == [d \in Docs |-> Absent]

Init ==
  /\ snapshot = Nothing /\ catalog = <<>> /\ chunker = 1
  /\ row = [d \in Docs |-> NoRow] /\ op = [d \in Docs |-> "none"] /\ consumed = 0
  /\ parsed = [d \in Docs |-> 0] /\ parquet = [d \in Docs |-> NoChunks]
  /\ points = [d \in Docs |-> NoChunks]
  /\ lock = None
  /\ pc = [p \in Procs |-> "idle"] /\ cmd = [p \in Procs |-> "none"]
  /\ sel = [p \in Procs |-> Nothing]
  /\ next = [p \in Procs |-> 0] /\ last = [p \in Procs |-> 0]
  /\ toParse = [p \in Procs |-> {}] /\ ok = [p \in Procs |-> {}]
  /\ toChunk = [p \in Procs |-> {}] /\ toEmbed = [p \in Procs |-> {}]
  /\ vec = [p \in Procs |-> NoChunks] /\ ops = [p \in Procs |-> {}]
  /\ errs = [p \in Procs |-> FALSE]
  /\ faults = 0

---------------------------------------------------------------------------
(* The environment: the source (ZoteroPublication), the operator, the disk.*)

SnapshotInUse == \E p \in Procs : cmd[p] \in FullCommands \cup ParseOnly

\* A sync publishes a new value of one document, or its disappearance.
Publish(d, v) ==
  /\ Len(catalog) < MaxPublished /\ v # snapshot[d]
  /\ SourceMoves \/ ~SnapshotInUse
  /\ snapshot' = [snapshot EXCEPT ![d] = v]
  /\ catalog' = Append(catalog, [doc |-> d, val |-> v])
  /\ UNCHANGED <<chunker, state, files, points, lock, runs, faults>>

Configure ==
  /\ chunker < MaxChunker /\ \A p \in Procs : pc[p] = "idle"
  /\ chunker' = chunker + 1
  /\ UNCHANGED <<source, state, files, points, lock, runs, faults>>

LoseParquet(d) ==
  /\ parquet[d] # NoChunks /\ faults < MaxFaults
  /\ parquet' = [parquet EXCEPT ![d] = NoChunks]
  /\ faults' = faults + 1
  /\ UNCHANGED <<source, chunker, state, parsed, points, lock, runs>>

---------------------------------------------------------------------------
(* PipelineState: what its methods do to the row of one document.          *)

Upserted(r, v) == [r EXCEPT !.st = "ready", !.c = v.c, !.m = v.m]
Unavailable(r) ==
  IF r.st = "none" THEN r
  ELSE [r EXCEPT !.st = "deleted", !.parse = "stale", !.chunk = "stale", !.index = "stale"]
\* mutants: a derived stage is left as it was.
ContentKeepsIndex(r) == [r EXCEPT !.parse = "pending", !.chunk = "stale"]
ContentKeepsChunks(r) == [r EXCEPT !.parse = "pending", !.index = "stale"]
ContentInvalid(r) == [r EXCEPT !.parse = "pending", !.chunk = "stale", !.index = "stale"]
ChunksInvalid(r) == [r EXCEPT !.chunk = "pending", !.index = "stale"]

Active == {d \in Docs : row[d].st = "ready"}
RowValue(d) == [c |-> row[d].c, m |-> row[d].m]

---------------------------------------------------------------------------
(* What a command selects, before it takes rag.lock.                       *)

Selection(c) ==
  CASE c \in FullCommands \cup ParseOnly -> snapshot
    [] c = "resume" -> [d \in Docs |-> IF d \in Active THEN RowValue(d) ELSE Absent]
    [] c \in EmbedCommands ->
         [d \in Docs |->
            IF /\ d \in Active /\ row[d].chunk = "ready"
               /\ c = "embed_force" \/ row[d].index # "ready"
              THEN RowValue(d) ELSE Absent]
    [] OTHER -> Nothing

Select(p, c) ==
  /\ pc[p] = "idle" /\ catalog # <<>>
  /\ c = "incremental" => consumed < Len(catalog)
  /\ pc' = [pc EXCEPT ![p] = "locking"] /\ cmd' = [cmd EXCEPT ![p] = c]
  /\ sel' = [sel EXCEPT ![p] = Selection(c)]
  /\ next' = [next EXCEPT ![p] = IF c = "incremental" THEN consumed + 1 ELSE 0]
  /\ last' = [last EXCEPT ![p] = IF c = "incremental" THEN Len(catalog) ELSE 0]
  /\ UNCHANGED <<source, chunker, state, files, points, lock, work, faults>>

\* The run is over and its process forgets everything.
Ends(p) ==
  /\ pc' = [pc EXCEPT ![p] = "idle"] /\ cmd' = [cmd EXCEPT ![p] = "none"]
  /\ sel' = [sel EXCEPT ![p] = Nothing]
  /\ next' = [next EXCEPT ![p] = 0] /\ last' = [last EXCEPT ![p] = 0]
  /\ toParse' = [toParse EXCEPT ![p] = {}] /\ ok' = [ok EXCEPT ![p] = {}]
  /\ toChunk' = [toChunk EXCEPT ![p] = {}] /\ toEmbed' = [toEmbed EXCEPT ![p] = {}]
  /\ vec' = [vec EXCEPT ![p] = NoChunks] /\ ops' = [ops EXCEPT ![p] = {}]
  /\ errs' = [errs EXCEPT ![p] = FALSE]
  /\ lock' = IF lock = p THEN None ELSE lock

Goto(p, there) == pc' = [pc EXCEPT ![p] = there]

TakeLock(p) ==
  /\ pc[p] = "locking" /\ lock = None
  /\ lock' = p
  /\ Goto(p, IF cmd[p] = "incremental" THEN "batch"
             ELSE IF cmd[p] \in EmbedCommands THEN "embed" ELSE "classify")
  /\ toEmbed' = [toEmbed EXCEPT ![p] = IF cmd[p] \in EmbedCommands THEN Picked(sel[p]) ELSE {}]
  /\ UNCHANGED <<source, chunker, state, files, points, cmd, sel, next, last,
                 toParse, ok, toChunk, vec, ops, errs, faults>>

\* FileLock does not wait: LockBusyError.
LockBusy(p) ==
  /\ pc[p] = "locking" /\ lock # None
  /\ Ends(p)
  /\ UNCHANGED <<source, chunker, state, files, points, faults>>

---------------------------------------------------------------------------
(* _apply_delta_source and _process_documents.                             *)

DeleteQueued(kind) == "delete"

ApplyDelta(p) ==
  LET event == catalog[next[p]]
      gone == event.val = Absent
  IN
  /\ pc[p] = "batch"
  /\ row' = [row EXCEPT ![event.doc] = IF gone THEN Unavailable(@) ELSE @]
  /\ op' = [op EXCEPT ![event.doc] = IF gone THEN DeleteQueued(@) ELSE @]
  /\ sel' = [sel EXCEPT ![p] = [Nothing EXCEPT ![event.doc] = event.val]]
  /\ Goto(p, IF gone THEN "ops" ELSE "classify")
  /\ UNCHANGED <<source, chunker, consumed, files, points, lock, cmd, next, last, work, faults>>

NeedsParse(p, d) ==
  \/ cmd[p] \in Forced
  \/ row[d].st = "none"
  \/ row[d].c # sel[p][d].c
  \/ row[d].parse # "ready"
  \/ row[d].pfp # sel[p][d].c

NeedsChunk(d) ==
  \/ row[d].chunk # "ready"
  \/ row[d].cfp # [c |-> row[d].pfp, k |-> chunker]
  \/ parquet[d] = NoChunks

NeverEmbed(d) == FALSE     \* mutant: only fresh chunks are embedded
NeedsEmbed(d) == row[d].index # "ready"

\* The first transaction: store the source fields, invalidate what depends on
\* them, and sort the documents into those to parse, to chunk and to embed.
Classify(p) ==
  LET D == Picked(sel[p])
      P == {d \in D : NeedsParse(p, d)}
      C == {d \in D \ P : NeedsChunk(d)}
      E == {d \in D \ (P \cup C) : NeedsEmbed(d)}
  IN
  /\ pc[p] = "classify" /\ D # {}
  /\ row' = [d \in Docs |->
               IF d \in P THEN ContentInvalid(Upserted(row[d], sel[p][d]))
               ELSE IF d \in C THEN ChunksInvalid(Upserted(row[d], sel[p][d]))
               ELSE IF d \in D THEN Upserted(row[d], sel[p][d])
               ELSE row[d]]
  /\ op' = [d \in Docs |-> IF d \in P \cup C THEN "delete"
                           ELSE IF d \in D /\ row[d].m # sel[p][d].m THEN "payload"
                           ELSE op[d]]
  /\ toParse' = [toParse EXCEPT ![p] = P] /\ toChunk' = [toChunk EXCEPT ![p] = C]
  /\ toEmbed' = [toEmbed EXCEPT ![p] = E]
  /\ Goto(p, "parse")
  /\ UNCHANGED <<source, chunker, consumed, files, points, lock, cmd, sel, next, last,
                 ok, vec, ops, errs, faults>>

\* No documents: _process_documents returns at once.
ClassifyNothing(p) ==
  /\ pc[p] = "classify" /\ Picked(sel[p]) = {}
  /\ Goto(p, "done")
  /\ UNCHANGED <<source, chunker, state, files, points, lock, cmd, sel, next, last, work, faults>>

\* The parser processes write the artifacts of the documents `wrote` and
\* report `good`; one may die after writing and before reporting.
RunParsers(p, good, wrote) ==
  /\ pc[p] = "parse"
  /\ good \subseteq wrote /\ wrote \subseteq toParse[p]
  /\ good = toParse[p] \/ faults < MaxFaults
  /\ faults' = IF good = toParse[p] THEN faults ELSE faults + 1
  /\ parsed' = [d \in Docs |-> IF d \in wrote THEN sel[p][d].c ELSE parsed[d]]
  /\ parquet' = [d \in Docs |->
       IF d \in wrote THEN [c |-> sel[p][d].c, m |-> sel[p][d].m, k |-> chunker, full |-> TRUE]
       ELSE parquet[d]]
  /\ ok' = [ok EXCEPT ![p] = good]
  /\ Goto(p, "record")
  /\ UNCHANGED <<source, chunker, state, points, lock, cmd, sel, next, last,
                 toParse, toChunk, toEmbed, vec, ops, errs>>

\* update_stage for a parsed document, and for one whose parse failed.
ParseReady(r, c) ==
  [r EXCEPT !.parse = "ready", !.pfp = c, !.chunk = "ready", !.cfp = [c |-> c, k |-> chunker]]
ParseFailed(r) == [r EXCEPT !.parse = "failed", !.pfp = 0]

RecordParses(p) ==
  /\ pc[p] = "record"
  /\ row' = [d \in Docs |->
               IF d \in ok[p] THEN ParseReady(row[d], sel[p][d].c)
               ELSE IF d \in toParse[p] THEN ParseFailed(row[d])
               ELSE row[d]]
  /\ op' = [d \in Docs |-> IF d \in ok[p] THEN "replace" ELSE op[d]]
  /\ errs' = [errs EXCEPT ![p] = @ \/ ok[p] # toParse[p]]
  /\ toEmbed' = [toEmbed EXCEPT ![p] = @ \cup ok[p]]
  /\ toParse' = [toParse EXCEPT ![p] = {}] /\ ok' = [ok EXCEPT ![p] = {}]
  /\ Goto(p, "rechunk")
  /\ UNCHANGED <<source, chunker, consumed, files, points, lock, cmd, sel, next, last,
                 toChunk, vec, ops, faults>>

\* _rechunk_documents: the Parquet file from the parse artifact ...
RechunkWrite(p, d) ==
  /\ pc[p] = "rechunk" /\ First(toChunk[p], d) /\ parsed[d] # 0
  /\ parquet' = [parquet EXCEPT ![d] =
                   [c |-> parsed[d], m |-> sel[p][d].m, k |-> chunker, full |-> TRUE]]
  /\ Goto(p, "rechunked")
  /\ UNCHANGED <<source, chunker, state, parsed, points, lock, cmd, sel, next, last, work, faults>>

\* ... then the transaction.
RechunkRecord(p, d) ==
  /\ pc[p] = "rechunked" /\ First(toChunk[p], d)
  /\ row' = [row EXCEPT ![d].chunk = "ready", ![d].cfp = [c |-> parsed[d], k |-> chunker]]
  /\ op' = [op EXCEPT ![d] = "replace"]
  /\ toChunk' = [toChunk EXCEPT ![p] = @ \ {d}]
  /\ toEmbed' = [toEmbed EXCEPT ![p] = @ \cup {d}]
  /\ Goto(p, "rechunk")
  /\ UNCHANGED <<source, chunker, consumed, files, points, lock, cmd, sel, next, last,
                 toParse, ok, vec, ops, errs, faults>>

RechunkFails(p, d) ==
  /\ pc[p] \in {"rechunk", "rechunked"} /\ First(toChunk[p], d)
  /\ faults < MaxFaults /\ faults' = faults + 1
  /\ row' = [row EXCEPT ![d].chunk = "failed", ![d].cfp = NoFingerprint]
  /\ errs' = [errs EXCEPT ![p] = TRUE]
  /\ toChunk' = [toChunk EXCEPT ![p] = @ \ {d}]
  /\ Goto(p, "rechunk")
  /\ UNCHANGED <<source, chunker, op, consumed, files, points, lock, cmd, sel, next, last,
                 toParse, ok, toEmbed, vec, ops>>

RechunkDone(p) ==
  /\ pc[p] = "rechunk" /\ toChunk[p] = {}
  /\ Goto(p, IF cmd[p] \in ParseOnly THEN "done" ELSE "embed")
  /\ UNCHANGED <<source, chunker, state, files, points, lock, cmd, sel, next, last, work, faults>>

---------------------------------------------------------------------------
(* _embed_and_index, document by document.                                 *)

Embeds(p, d) == pc[p] = "embed" /\ First(toEmbed[p], d)

\* The chunks are no longer ready, or their artifact is missing.
EmbedSkips(p, d) ==
  /\ Embeds(p, d) /\ (row[d].chunk # "ready" \/ parquet[d] = NoChunks)
  /\ errs' = [errs EXCEPT ![p] = @ \/ row[d].chunk = "ready"]
  /\ toEmbed' = [toEmbed EXCEPT ![p] = @ \ {d}]
  /\ UNCHANGED <<source, chunker, state, files, points, lock, pc, cmd, sel, next, last,
                 toParse, ok, toChunk, vec, ops, faults>>

\* The chunks are read, and embedded by the endpoint pool.
EmbedReads(p, d) ==
  /\ Embeds(p, d) /\ row[d].chunk = "ready" /\ parquet[d] # NoChunks
  /\ vec' = [vec EXCEPT ![p] = parquet[d]]
  /\ Goto(p, "replace")
  /\ UNCHANGED <<source, chunker, state, files, points, lock, cmd, sel, next, last,
                 toParse, ok, toChunk, toEmbed, ops, errs, faults>>

\* replace_document deletes the points of the document ...
ReplaceDeletes(p, d) ==
  /\ pc[p] = "replace" /\ First(toEmbed[p], d)
  /\ points' = [points EXCEPT ![d] = NoChunks]
  /\ Goto(p, "upsert")
  /\ UNCHANGED <<source, chunker, state, files, lock, cmd, sel, next, last, work, faults>>

\* ... and upserts the new ones in batches.
UpsertBatch(p, d) ==
  /\ pc[p] = "upsert" /\ First(toEmbed[p], d) /\ points[d] = NoChunks
  /\ points' = [points EXCEPT ![d] = [vec[p] EXCEPT !.full = FALSE]]
  /\ UNCHANGED <<source, chunker, state, files, lock, runs, faults>>

UpsertLast(p, d) ==
  /\ pc[p] = "upsert" /\ First(toEmbed[p], d)
  /\ points' = [points EXCEPT ![d] = vec[p]]
  /\ Goto(p, "indexed")
  /\ UNCHANGED <<source, chunker, state, files, lock, cmd, sel, next, last, work, faults>>

\* embedding, dense_index and sparse_index become ready; the operation, if one
\* is pending, is completed.
RecordIndexed(p, d) ==
  /\ pc[p] = "indexed" /\ First(toEmbed[p], d)
  /\ row' = [row EXCEPT ![d].index = "ready"]
  /\ op' = [op EXCEPT ![d] = "none"]
  /\ toEmbed' = [toEmbed EXCEPT ![p] = @ \ {d}]
  /\ vec' = [vec EXCEPT ![p] = NoChunks]
  /\ Goto(p, "embed")
  /\ UNCHANGED <<source, chunker, consumed, files, points, lock, cmd, sel, next, last,
                 toParse, ok, toChunk, ops, errs, faults>>

EmbedDone(p) ==
  /\ pc[p] = "embed" /\ toEmbed[p] = {}
  /\ Goto(p, IF cmd[p] \in EmbedCommands THEN "done" ELSE "ops")
  /\ UNCHANGED <<source, chunker, state, files, points, lock, cmd, sel, next, last, work, faults>>

---------------------------------------------------------------------------
(* _apply_index_operations: the pending operations are read once.          *)

ReadOps(p) ==
  /\ pc[p] = "ops"
  /\ ops' = [ops EXCEPT ![p] =
               {<<d, op[d]>> : d \in {x \in Docs : op[x] \in {"delete", "payload"}}}]
  /\ Goto(p, "apply")
  /\ UNCHANGED <<source, chunker, state, files, points, lock, cmd, sel, next, last,
                 toParse, ok, toChunk, toEmbed, vec, errs, faults>>

FirstOp(p, d) == First({o[1] : o \in ops[p]}, d)

ApplyOp(p, d) ==
  /\ pc[p] = "apply" /\ FirstOp(p, d)
  /\ points' = [points EXCEPT ![d] =
       IF <<d, "delete">> \in ops[p] THEN NoChunks
       ELSE IF @ = NoChunks THEN @ ELSE [@ EXCEPT !.m = row[d].m]]
  /\ Goto(p, "complete")
  /\ UNCHANGED <<source, chunker, state, files, lock, cmd, sel, next, last, work, faults>>

CompleteOp(p, d) ==
  /\ pc[p] = "complete" /\ FirstOp(p, d)
  /\ op' = [op EXCEPT ![d] = "none"]
  /\ ops' = [ops EXCEPT ![p] = {o \in @ : o[1] # d}]
  /\ Goto(p, "apply")
  /\ UNCHANGED <<source, chunker, row, consumed, files, points, lock, cmd, sel, next, last,
                 toParse, ok, toChunk, toEmbed, vec, errs, faults>>

OpsDone(p) ==
  /\ pc[p] = "apply" /\ ops[p] = {}
  /\ Goto(p, IF lock # p THEN "checkpoint"
             ELSE IF cmd[p] = "incremental" THEN "mark" ELSE "done")
  /\ UNCHANGED <<source, chunker, state, files, points, lock, cmd, sel, next, last, work, faults>>

---------------------------------------------------------------------------
(* The end of a run.                                                       *)

Later(a, b) == IF a > b THEN a ELSE b

MarkedAll(p) == last[p]   \* mutant: every batch of the run at once
Marked(p) == next[p]

\* mark_delta_consumed, batch by batch.
MarkConsumed(p) ==
  /\ pc[p] = "mark"
  /\ consumed' = Later(consumed, Marked(p))
  /\ next' = [next EXCEPT ![p] = @ + 1]
  /\ Goto(p, IF next[p] = last[p] THEN "done" ELSE "batch")
  /\ UNCHANGED <<source, chunker, row, op, files, points, lock, cmd, sel, last, work, faults>>

\* rag.lock is released; a full ingest without errors goes on without it.
Finish(p) ==
  /\ pc[p] = "done" /\ (cmd[p] \notin FullCommands \/ errs[p])
  /\ Ends(p)
  /\ UNCHANGED <<source, chunker, state, files, points, faults>>

FinishFull(p) ==
  /\ pc[p] = "done" /\ cmd[p] \in FullCommands /\ ~errs[p]
  /\ lock' = None
  /\ Goto(p, IF cmd[p] = "reconcile" THEN "prune" ELSE "checkpoint")
  /\ UNCHANGED <<source, chunker, state, files, points, cmd, sel, next, last, work, faults>>

\* Documents the snapshot no longer has.
Prune(p) ==
  LET stale == Active \ Picked(sel[p]) IN
  /\ pc[p] = "prune"
  /\ row' = [d \in Docs |-> IF d \in stale THEN Unavailable(row[d]) ELSE row[d]]
  /\ op' = [d \in Docs |-> IF d \in stale THEN DeleteQueued(op[d]) ELSE op[d]]
  /\ Goto(p, IF stale # {} THEN "ops" ELSE "checkpoint")
  /\ UNCHANGED <<source, chunker, consumed, files, points, lock, cmd, sel, next, last, work, faults>>

\* _mark_all_catalog_consumed reads the catalog again.
Checkpoint(p) ==
  /\ pc[p] = "checkpoint"
  /\ consumed' = Len(catalog)
  /\ Ends(p)
  /\ UNCHANGED <<source, chunker, row, op, files, points, faults>>

\* The endpoint pool, Qdrant or the disk raises, or the process dies: the same
\* rows, artifacts and points are left behind, and the kernel frees the lock.
Fails(p) ==
  /\ pc[p] # "idle" /\ faults < MaxFaults
  /\ faults' = faults + 1
  /\ Ends(p)
  /\ UNCHANGED <<source, chunker, state, files, points>>

---------------------------------------------------------------------------

Step(p) ==
  \/ TakeLock(p) \/ LockBusy(p) \/ ApplyDelta(p) \/ Classify(p) \/ ClassifyNothing(p)
  \/ RunParsers(p, toParse[p], toParse[p]) \/ RecordParses(p)
  \/ RechunkDone(p)
  \/ \E d \in Docs : \/ RechunkWrite(p, d) \/ RechunkRecord(p, d)
                     \/ EmbedSkips(p, d) \/ EmbedReads(p, d) \/ ReplaceDeletes(p, d)
                     \/ UpsertLast(p, d) \/ RecordIndexed(p, d)
                     \/ ApplyOp(p, d) \/ CompleteOp(p, d)
  \/ EmbedDone(p) \/ ReadOps(p) \/ OpsDone(p)
  \/ MarkConsumed(p) \/ Finish(p) \/ FinishFull(p) \/ Prune(p) \/ Checkpoint(p)

Next ==
  \/ \E d \in Docs : \/ \E v \in Versions[d] \cup {Absent} : Publish(d, v)
                     \/ LoseParquet(d)
  \/ Configure
  \/ \E p \in Procs :
       \/ \E c \in Commands[p] : Select(p, c)
       \/ Step(p) \/ Fails(p)
       \/ \E good, wrote \in SUBSET toParse[p] : RunParsers(p, good, wrote)
       \/ \E d \in Docs : RechunkFails(p, d) \/ UpsertBatch(p, d)

Spec == Init /\ [][Next]_vars

\* A started run goes on, the timer issues the incremental command again and
\* again, and the operator the resume command.
FairSpec ==
  /\ Spec
  /\ \A p \in Procs : WF_vars(Step(p))
  /\ \A c \in {"incremental", "resume"} :
       SF_vars(\E p \in Procs : c \in Commands[p] /\ Select(p, c))

---------------------------------------------------------------------------
(* Properties.                                                             *)

\* A document whose index stages are "ready" really is in the collection, whole,
\* with the content and the chunks its row says: later runs skip it for ever.
ReadyIsIndexed ==
  \A d \in Docs : row[d].index = "ready" =>
    /\ row[d].st = "ready" /\ points[d].full
    /\ points[d].c = row[d].c /\ points[d].k = row[d].cfp.k

\* Chunks that are "ready" are on disk as cut from the document's current content
\* by the chunker of the row, although the parsers write them outside any
\* transaction (a lost file apart).
ArtifactMatchesState ==
  \A d \in Docs : row[d].chunk = "ready" =>
    /\ row[d].parse = "ready" /\ row[d].pfp = row[d].c /\ row[d].cfp.c = row[d].c
    /\ \/ parquet[d] = NoChunks
       \/ parquet[d].c = row[d].cfp.c /\ parquet[d].k = row[d].cfp.k

\* What the first n deltas say of document d.
ValueAfter(d, n) ==
  LET about == {i \in 1 .. n : catalog[i].doc = d}
  IN IF about = {} THEN Absent
     ELSE catalog[CHOOSE i \in about : \A j \in about : j <= i].val

\* A row is never older than the checkpoint: it shows its document as of a delta
\* that is not before the last one marked as consumed.
ConsumedIsApplied ==
  \A d \in Docs : \E n \in consumed .. Len(catalog) :
    ValueAfter(d, n) = IF row[d].st = "ready" THEN RowValue(d) ELSE Absent

\* Every process but p has stopped issuing commands.
LeftAlone(p) == \A q \in Procs \ {p} : pc[q] = "idle"

\* The collection catches up with a source that has documents, once the source
\* stands still, nothing fails any more and rag.lock is left to one process
\* (when the last document was pruned and its index delete failed, no command
\* has documents and none retries it).
Converges ==
  (\E p \in Procs : <>[]LeftAlone(p)) =>
    <>[](Picked(snapshot) # {} =>
           \A d \in Docs : IF snapshot[d] = Absent THEN points[d] = NoChunks
                           ELSE points[d].full /\ points[d].c = snapshot[d].c)

=============================================================================
