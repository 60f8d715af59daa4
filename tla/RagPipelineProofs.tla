------------------------- MODULE RagPipelineProofs -------------------------
(***************************************************************************)
(* The safety invariants of RagPipeline, for every set of documents,       *)
(* contents and processes, when one process issues the commands that write *)
(* to the collection and nobody forces an embedding.  ReadyIsIndexed holds *)
(* wherever the source moves; the two others need it to stand still while  *)
(* a command has its snapshot, and the checkpoint that full ingests prune. *)
(***************************************************************************)
EXTENDS RagPipeline, SequenceTheorems, FiniteSetTheorems, WellFoundedInduction, TLAPS

\* One process embeds, prunes and applies index operations: the others parse.
SoleWriter(m) ==
  /\ m \in Procs /\ Commands[m] \subseteq AllCommands \ {"embed_force"}
  /\ \A q \in Procs \ {m} : Commands[q] \subseteq ParseOnly

---------------------------------------------------------------------------
(* The invariant.                                                          *)

Value == [c : Nat, m : Nat]
Chunks == [c : Nat, m : Nat, k : Nat, full : BOOLEAN]
Row == [st : {"none", "ready", "deleted"}, c : Nat, m : Nat,
        parse : {"pending", "ready", "failed", "stale"}, pfp : Nat,
        chunk : {"pending", "ready", "failed", "stale"}, cfp : [c : Nat, k : Nat],
        index : {"pending", "ready", "stale"}]
Ops == {"none", "delete", "payload", "replace"}

StoreType ==
  /\ snapshot \in [Docs -> Value] /\ catalog \in Seq([doc : Docs, val : Value])
  /\ chunker \in Nat /\ consumed \in Nat
  /\ row \in [Docs -> Row] /\ op \in [Docs -> Ops]
  /\ parsed \in [Docs -> Nat]
  /\ parquet \in [Docs -> Chunks] /\ points \in [Docs -> Chunks]

RunsType ==
  /\ DOMAIN pc = Procs /\ DOMAIN cmd = Procs
  /\ sel \in [Procs -> [Docs -> Value]]
  /\ next \in [Procs -> Nat] /\ last \in [Procs -> Nat]
  /\ toParse \in [Procs -> SUBSET Docs] /\ ok \in [Procs -> SUBSET Docs]
  /\ toChunk \in [Procs -> SUBSET Docs] /\ toEmbed \in [Procs -> SUBSET Docs]
  /\ vec \in [Procs -> Chunks] /\ DOMAIN ops = Procs

\* The deltas of an incremental run are in the catalog.
DeltasListed ==
  \A p \in Procs :
    /\ pc[p] \in {"batch", "mark"} => cmd[p] = "incremental"
    /\ cmd[p] = "incremental" /\ pc[p] \notin {"idle", "done"} =>
         1 <= next[p] /\ next[p] <= last[p] /\ last[p] <= Len(catalog)

ParsePCs == {"locking", "classify", "parse", "record", "rechunk", "rechunked", "done"}
LockPCs == (ParsePCs \ {"locking"}) \cup {"batch", "embed", "replace", "upsert", "indexed", "mark"}

LockHeld == \A p \in Procs : pc[p] \in LockPCs => lock = p

Helpers(m) ==
  \A q \in Procs \ {m} : pc[q] # "idle" => pc[q] \in ParsePCs /\ cmd[q] \in ParseOnly

\* The artifacts a row speaks of.
Artifacts ==
  \A d \in Docs :
    /\ parquet[d] = NoChunks \/ parquet[d].full
    /\ row[d].parse = "ready" => parsed[d] = row[d].pfp
    /\ row[d].chunk = "ready" =>
         /\ row[d].cfp.c = row[d].c
         /\ \/ parquet[d] = NoChunks
            \/ parquet[d].c = row[d].cfp.c /\ parquet[d].k = row[d].cfp.k
    /\ op[d] = "delete" => row[d].index # "ready"

Unfinished(d) == row[d].chunk # "ready" /\ row[d].index # "ready"
CutAs(d, c) == parquet[d] = NoChunks \/ (parquet[d].c = c /\ parquet[d].k = chunker)

\* The documents a run has still to parse, and to chunk again.
Listing == {"parse", "record", "rechunk", "rechunked"}

ParseList(p) ==
  /\ pc[p] \in {"parse", "record"} =>
       /\ toParse[p] \cap toChunk[p] = {}
       /\ \A d \in toParse[p] :
            Unfinished(d) /\ row[d].parse # "ready" /\ row[d].c = sel[p][d].c
  /\ pc[p] = "record" =>
       /\ ok[p] \subseteq toParse[p]
       /\ \A d \in ok[p] : parsed[d] = sel[p][d].c /\ CutAs(d, sel[p][d].c)
  /\ pc[p] \in Listing => \A d \in toChunk[p] : Unfinished(d) /\ parsed[d] = row[d].c
  /\ pc[p] = "rechunked" => \A d \in Docs : First(toChunk[p], d) => CutAs(d, parsed[d])

ParseLists == \A p \in Procs : ParseList(p)

\* The documents the sole writer has still to embed.
Unindexed(d) == row[d].st = "ready" /\ row[d].index # "ready"

EmbedLists(m) ==
  /\ cmd[m] # "embed_force"
  /\ pc[m] = "locking" /\ cmd[m] = "embed" => \A d \in Picked(sel[m]) : Unindexed(d)
  /\ pc[m] \in {"parse", "record"} => \A d \in toParse[m] : Unindexed(d)
  /\ pc[m] \in Listing => \A d \in toChunk[m] : Unindexed(d)
  /\ pc[m] \in Listing \cup {"embed", "replace", "upsert", "indexed"} =>
       \A d \in toEmbed[m] : Unindexed(d)

\* What it is about to upsert, and the deletes it is about to send.
Writes(m) ==
  /\ pc[m] \in {"replace", "upsert", "indexed"} =>
       \A d \in Docs : First(toEmbed[m], d) =>
         /\ row[d].chunk = "ready" /\ vec[m].full
         /\ vec[m].c = row[d].c /\ vec[m].k = row[d].cfp.k
  /\ pc[m] = "indexed" => \A d \in Docs : First(toEmbed[m], d) => points[d] = vec[m]
  /\ pc[m] \in {"apply", "complete"} =>
       \A d \in Docs : <<d, "delete">> \in ops[m] => row[d].index # "ready"

IInv(m) ==
  /\ StoreType /\ RunsType /\ DeltasListed /\ LockHeld /\ Helpers(m)
  /\ Artifacts /\ ParseLists /\ EmbedLists(m) /\ Writes(m) /\ ReadyIsIndexed
---------------------------------------------------------------------------
(* Types.                                                                  *)

LEMMA ConstantTypes ==
  /\ Docs \subseteq Nat /\ Absent \in Value /\ NoChunks \in Chunks /\ NoRow \in Row
  /\ NoFingerprint \in [c : Nat, k : Nat] /\ Nothing \in [Docs -> Value]
  /\ \A d \in Docs : Versions[d] \subseteq Value
  BY ConstantsAssumption DEF Docs, Absent, Value, NoChunks, Chunks, NoRow, Row, NoFingerprint, Nothing

LEMMA RowTypes ==
  ASSUME NEW r \in Row, NEW v \in Value
  PROVE  /\ Upserted(r, v) \in Row /\ Unavailable(r) \in Row
         /\ ContentInvalid(r) \in Row /\ ChunksInvalid(r) \in Row /\ ParseFailed(r) \in Row
  BY DEF Upserted, Unavailable, ContentInvalid, ChunksInvalid, ParseFailed, Row, Value

LEMMA RowWithTypes ==
  ASSUME NEW r \in Row, NEW c \in Nat, chunker \in Nat
  PROVE  /\ ParseReady(r, c) \in Row
         /\ [r EXCEPT !.chunk = "ready", !.cfp = [c |-> c, k |-> chunker]] \in Row
         /\ [r EXCEPT !.chunk = "failed", !.cfp = NoFingerprint] \in Row
         /\ [r EXCEPT !.index = "ready"] \in Row
  BY DEF ParseReady, Row, NoFingerprint

LEMMA ChunksTypes ==
  ASSUME NEW x \in Chunks, NEW v \in Value, NEW c \in Nat, NEW k \in Nat
  PROVE  /\ [x EXCEPT !.m = c] \in Chunks /\ [x EXCEPT !.full = FALSE] \in Chunks
         /\ [c |-> c, m |-> v.m, k |-> k, full |-> TRUE] \in Chunks
         /\ [c |-> v.c, m |-> v.m, k |-> k, full |-> TRUE] \in Chunks /\ v.c \in Nat
  BY DEF Chunks, Value

LEMMA ElementTypes ==
  ASSUME StoreType, RunsType, NEW p \in Procs, NEW d \in Docs
  PROVE  /\ row[d] \in Row /\ points[d] \in Chunks /\ parsed[d] \in Nat /\ chunker \in Nat
         /\ sel[p][d] \in Value /\ vec[p] \in Chunks /\ row[d].m \in Nat
<1>1. row[d] \in Row /\ points[d] \in Chunks /\ parsed[d] \in Nat /\ chunker \in Nat
  BY DEF StoreType
<1>2. sel[p][d] \in Value /\ vec[p] \in Chunks
  BY DEF RunsType
<1>3. row[d].m \in Nat
  BY <1>1 DEF Row
<1> QED BY <1>1, <1>2, <1>3

LEMMA StoreNext ==
  ASSUME StoreType, RunsType, DeltasListed, [Next]_vars PROVE StoreType'
<1> USE ConstantTypes
<1>1. ASSUME NEW d \in Docs, NEW v \in Versions[d] \cup {Absent}, Publish(d, v) PROVE StoreType'
  <2>1. v \in Value /\ [doc |-> d, val |-> v] \in [doc : Docs, val : Value]
    BY <1>1
  <2>2. snapshot' \in [Docs -> Value]
    BY <1>1, <2>1 DEF Publish, StoreType
  <2>3. catalog' \in Seq([doc : Docs, val : Value])
    BY <1>1, <2>1 DEF Publish, StoreType
  <2> QED BY <1>1, <2>2, <2>3 DEF Publish, StoreType, state, files
<1>2. ASSUME NEW d \in Docs, LoseParquet(d) PROVE StoreType'
  BY <1>2 DEF LoseParquet, StoreType, source, state
<1>3. CASE Configure
  BY <1>3 DEF Configure, StoreType, source, state, files
<1>4. ASSUME NEW p \in Procs, ApplyDelta(p) PROVE StoreType'
  <2>1. catalog \in Seq([doc : Docs, val : Value]) /\ Len(catalog) \in Nat
    BY DEF StoreType
  <2>2. next[p] \in 1 .. Len(catalog)
    <3>1. pc[p] = "batch"
      BY <1>4 DEF ApplyDelta
    <3>2. 1 <= next[p] /\ next[p] <= last[p] /\ last[p] <= Len(catalog)
      BY <3>1 DEF DeltasListed
    <3>3. next[p] \in Nat /\ last[p] \in Nat
      BY DEF RunsType
    <3> QED BY <2>1, <3>2, <3>3
  <2>3. catalog[next[p]] \in [doc : Docs, val : Value]
    BY <2>1, <2>2, ElementOfSeq
  <2> QED BY <1>4, <2>3, RowTypes DEF ApplyDelta, StoreType, source, files, DeleteQueued, Ops
<1>5. ASSUME NEW p \in Procs, Classify(p) PROVE StoreType'
  <2>1. \A d \in Docs : row[d] \in Row /\ sel[p][d] \in Value
    BY ElementTypes
  <2> QED BY <1>5, <2>1, RowTypes DEF Classify, StoreType, source, files, Ops
<1>6. ASSUME NEW p \in Procs, NEW good, NEW wrote, RunParsers(p, good, wrote) PROVE StoreType'
  <2>1. \A d \in Docs : /\ sel[p][d].c \in Nat
                         /\ [c |-> sel[p][d].c, m |-> sel[p][d].m, k |-> chunker, full |-> TRUE] \in Chunks
    BY ElementTypes, ChunksTypes
  <2>2. parsed' \in [Docs -> Nat]
    BY <1>6, <2>1 DEF RunParsers, StoreType
  <2>3. parquet' \in [Docs -> Chunks]
    BY <1>6, <2>1 DEF RunParsers, StoreType
  <2> QED BY <1>6, <2>2, <2>3 DEF RunParsers, StoreType, source, state
<1>7. ASSUME NEW p \in Procs, RecordParses(p) PROVE StoreType'
  <2>1. \A d \in Docs : row[d] \in Row /\ chunker \in Nat /\ sel[p][d] \in Value /\ sel[p][d].c \in Nat
    BY ElementTypes, ChunksTypes
  <2>2. \A d \in Docs : ParseReady(row[d], sel[p][d].c) \in Row /\ ParseFailed(row[d]) \in Row
    BY <2>1, RowTypes, RowWithTypes, Zenon
  <2>3. row' \in [Docs -> Row]
    BY <1>7, <2>1, <2>2 DEF RecordParses
  <2> QED BY <1>7, <2>3 DEF RecordParses, StoreType, source, files, Ops
<1>8. ASSUME NEW p \in Procs, NEW d \in Docs, RechunkWrite(p, d) PROVE StoreType'
  <2>1. [c |-> parsed[d], m |-> sel[p][d].m, k |-> chunker, full |-> TRUE] \in Chunks
    BY ElementTypes, ChunksTypes
  <2> QED BY <1>8, <2>1 DEF RechunkWrite, StoreType, source, state
<1>9. ASSUME NEW p \in Procs, NEW d \in Docs, RechunkRecord(p, d) \/ RechunkFails(p, d) PROVE StoreType'
  <2>1. [row[d] EXCEPT !.chunk = "ready", !.cfp = [c |-> parsed[d], k |-> chunker]] \in Row
    BY ElementTypes, RowWithTypes, Zenon
  <2>2. [row[d] EXCEPT !.chunk = "failed", !.cfp = NoFingerprint] \in Row
    BY ElementTypes, RowWithTypes, Zenon
  <2>3. \/ row' = [row EXCEPT ![d] = [row[d] EXCEPT !.chunk = "ready", !.cfp = [c |-> parsed[d], k |-> chunker]]]
        \/ row' = [row EXCEPT ![d] = [row[d] EXCEPT !.chunk = "failed", !.cfp = NoFingerprint]]
    BY <1>9 DEF RechunkRecord, RechunkFails
  <2>4. op' \in [Docs -> Ops]
    BY <1>9 DEF RechunkRecord, RechunkFails, StoreType, Ops
  <2> QED BY <1>9, <2>1, <2>2, <2>3, <2>4 DEF RechunkRecord, RechunkFails, StoreType, source, files
<1>10. ASSUME NEW p \in Procs, NEW d \in Docs, ReplaceDeletes(p, d) \/ ApplyOp(p, d) PROVE StoreType'
  <2>1. [points[d] EXCEPT !.m = row[d].m] \in Chunks /\ points[d] \in Chunks
    BY ElementTypes, ChunksTypes
  <2>2. points' \in [Docs -> Chunks]
    BY <1>10, <2>1 DEF ReplaceDeletes, ApplyOp, StoreType
  <2> QED BY <1>10, <2>2 DEF ReplaceDeletes, ApplyOp, StoreType, source, state, files
<1>11. ASSUME NEW p \in Procs, NEW d \in Docs, UpsertBatch(p, d) \/ UpsertLast(p, d) PROVE StoreType'
  <2>1. [vec[p] EXCEPT !.full = FALSE] \in Chunks /\ vec[p] \in Chunks
    BY ElementTypes, ChunksTypes
  <2>2. points' \in [Docs -> Chunks]
    BY <1>11, <2>1 DEF UpsertBatch, UpsertLast, StoreType
  <2> QED BY <1>11, <2>2 DEF UpsertBatch, UpsertLast, StoreType, source, state, files
<1>12. ASSUME NEW p \in Procs, NEW d \in Docs, RecordIndexed(p, d) \/ CompleteOp(p, d) PROVE StoreType'
  <2>1. [row[d] EXCEPT !.index = "ready"] \in Row
    BY ElementTypes, RowWithTypes, Zenon
  <2>2. row' = row \/ row' = [row EXCEPT ![d] = [row[d] EXCEPT !.index = "ready"]]
    BY <1>12 DEF RecordIndexed, CompleteOp
  <2>3. op' \in [Docs -> Ops]
    BY <1>12 DEF RecordIndexed, CompleteOp, StoreType, Ops
  <2> QED BY <1>12, <2>1, <2>2, <2>3 DEF RecordIndexed, CompleteOp, StoreType, source, files
<1>13. ASSUME NEW p \in Procs, Prune(p) PROVE StoreType'
  BY <1>13, RowTypes DEF Prune, StoreType, source, files, DeleteQueued, Ops
<1>14. ASSUME NEW p \in Procs, MarkConsumed(p) \/ Checkpoint(p) PROVE StoreType'
  <2>1. next[p] \in Nat
    BY DEF RunsType
  <2>2. consumed \in Nat /\ Len(catalog) \in Nat
    BY DEF StoreType
  <2>3. consumed' \in Nat
    BY <1>14, <2>1, <2>2 DEF MarkConsumed, Checkpoint, Marked, Later
  <2> QED BY <1>14, <2>3 DEF MarkConsumed, Checkpoint, StoreType, source, files
<1>15. CASE UNCHANGED <<source, chunker, state, files, points>>
  BY <1>15 DEF StoreType, source, state, files
<1> QED
  BY <1>1, <1>2, <1>3, <1>4, <1>5, <1>6, <1>7, <1>8, <1>9, <1>10, <1>11, <1>12, <1>13, <1>14, <1>15
  DEF Next, Step, Select, TakeLock, LockBusy, ClassifyNothing, RechunkDone, EmbedSkips, EmbedReads,
      EmbedDone, ReadOps, OpsDone, Finish, FinishFull, Fails, vars

LEMMA EndsTypes == ASSUME RunsType, NEW p \in Procs, Ends(p) PROVE RunsType'
  BY ConstantTypes DEF RunsType, Ends

LEMMA SelectionType == ASSUME StoreType, NEW c PROVE Selection(c) \in [Docs -> Value]
<1>1. \A d \in Docs : RowValue(d) \in Value
  BY DEF StoreType, Row, Value, RowValue
<1>2. snapshot \in [Docs -> Value]
  BY DEF StoreType
<1> QED BY <1>1, <1>2, ConstantTypes DEF Selection

LEMMA RunsNext == ASSUME StoreType, RunsType, DeltasListed, [Next]_vars PROVE RunsType'
<1> USE ConstantTypes
<1>1. ASSUME NEW p \in Procs, NEW c \in Commands[p], Select(p, c) PROVE RunsType'
  <2>1. Selection(c) \in [Docs -> Value]
    BY SelectionType
  <2>2. consumed + 1 \in Nat /\ Len(catalog) \in Nat
    BY DEF StoreType
  <2> QED BY <1>1, <2>1, <2>2 DEF Select, RunsType, work
<1>2. ASSUME NEW p \in Procs, TakeLock(p) PROVE RunsType'
  BY <1>2 DEF TakeLock, Goto, Picked, RunsType
<1>3. ASSUME NEW p \in Procs, Ends(p) PROVE RunsType'
  BY <1>3, EndsTypes
<1>4. ASSUME NEW p \in Procs, ApplyDelta(p) PROVE RunsType'
  <2>1. catalog \in Seq([doc : Docs, val : Value]) /\ Len(catalog) \in Nat
    BY DEF StoreType
  <2>2. 1 <= next[p] /\ next[p] <= last[p] /\ last[p] <= Len(catalog)
    BY <1>4 DEF ApplyDelta, DeltasListed
  <2>3. next[p] \in 1 .. Len(catalog)
    BY <2>1, <2>2 DEF RunsType
  <2>4. catalog[next[p]] \in [doc : Docs, val : Value]
    BY <2>1, <2>3, ElementOfSeq
  <2>5. [Nothing EXCEPT ![catalog[next[p]].doc] = catalog[next[p]].val] \in [Docs -> Value]
    BY <2>4
  <2> QED BY <1>4, <2>5 DEF ApplyDelta, Goto, RunsType, work
<1>5. ASSUME NEW p \in Procs, Classify(p) PROVE RunsType'
  BY <1>5 DEF Classify, Goto, Picked, RunsType
<1>6. ASSUME NEW p \in Procs, NEW good, NEW wrote, RunParsers(p, good, wrote) PROVE RunsType'
  BY <1>6 DEF RunParsers, Goto, RunsType
<1>7. ASSUME NEW p \in Procs, RecordParses(p) PROVE RunsType'
  BY <1>7 DEF RecordParses, Goto, RunsType
<1>8. ASSUME NEW p \in Procs, NEW d \in Docs,
             RechunkWrite(p, d) \/ RechunkRecord(p, d) \/ RechunkFails(p, d)
      PROVE  RunsType'
  <2>1. CASE RechunkWrite(p, d)
    BY <2>1 DEF RechunkWrite, Goto, RunsType, work
  <2>2. CASE RechunkRecord(p, d)
    BY <2>2 DEF RechunkRecord, Goto, RunsType
  <2>3. CASE RechunkFails(p, d)
    BY <2>3 DEF RechunkFails, Goto, RunsType
  <2> QED BY <1>8, <2>1, <2>2, <2>3
<1>9. ASSUME NEW p \in Procs, NEW d \in Docs,
             EmbedSkips(p, d) \/ EmbedReads(p, d) \/ RecordIndexed(p, d)
      PROVE  RunsType'
  <2>1. CASE EmbedSkips(p, d)
    BY <2>1 DEF EmbedSkips, RunsType
  <2>2. CASE EmbedReads(p, d)
    BY <2>2 DEF EmbedReads, Goto, RunsType, StoreType
  <2>3. CASE RecordIndexed(p, d)
    BY <2>3 DEF RecordIndexed, Goto, RunsType
  <2> QED BY <1>9, <2>1, <2>2, <2>3
<1>10. ASSUME NEW p \in Procs, NEW d \in Docs,
              ReplaceDeletes(p, d) \/ UpsertLast(p, d) \/ ApplyOp(p, d) \/ CompleteOp(p, d)
       PROVE  RunsType'
  BY <1>10 DEF ReplaceDeletes, UpsertLast, ApplyOp, CompleteOp, Goto, RunsType, work
<1>11. ASSUME NEW p \in Procs,
              \/ ClassifyNothing(p) \/ RechunkDone(p) \/ EmbedDone(p) \/ ReadOps(p) \/ OpsDone(p)
              \/ FinishFull(p) \/ Prune(p)
       PROVE  RunsType'
  BY <1>11 DEF ClassifyNothing, RechunkDone, EmbedDone, ReadOps, OpsDone, FinishFull, Prune, Goto,
     RunsType, work
<1>12. ASSUME NEW p \in Procs, MarkConsumed(p) PROVE RunsType'
  BY <1>12 DEF MarkConsumed, Goto, RunsType, work
<1>13. CASE UNCHANGED runs
  BY <1>13 DEF RunsType, runs, work
<1> QED
  BY <1>1, <1>2, <1>3, <1>4, <1>5, <1>6, <1>7, <1>8, <1>9, <1>10, <1>11, <1>12, <1>13
  DEF Next, Step, Publish, LoseParquet, Configure, LockBusy, Finish, Checkpoint, Fails, UpsertBatch, vars

---------------------------------------------------------------------------
(* Where each process is, and who holds the lock.                          *)

Acts(p) ==
  \/ \E c \in Commands[p] : Select(p, c)
  \/ Step(p) \/ Fails(p)
  \/ \E good, wrote \in SUBSET toParse[p] : RunParsers(p, good, wrote)
  \/ \E d \in Docs : RechunkFails(p, d) \/ UpsertBatch(p, d)

Environment ==
  \/ \E d \in Docs : (\E v \in Versions[d] \cup {Absent} : Publish(d, v)) \/ LoseParquet(d)
  \/ Configure
  \/ UNCHANGED vars

LEMMA NextSplits == ASSUME [Next]_vars PROVE Environment \/ \E p \in Procs : Acts(p)
  BY DEF Next, Environment, Acts

LEMMA RunEnds ==
  ASSUME NEW p, LockBusy(p) \/ Finish(p) \/ Checkpoint(p) \/ Fails(p)
  PROVE  Ends(p) /\ catalog' = catalog
  BY DEF LockBusy, Finish, Checkpoint, Fails, source

LEMMA NothingMoves ==
  ASSUME \/ Environment
         \/ \E p \in Procs, d \in Docs : EmbedSkips(p, d) \/ UpsertBatch(p, d)
  PROVE  UNCHANGED <<lock, pc, cmd, next, last>>
  BY DEF Environment, Publish, LoseParquet, Configure, EmbedSkips, UpsertBatch, runs, vars

LEMMA DeltasNext == ASSUME StoreType, RunsType, DeltasListed, [Next]_vars PROVE DeltasListed'
<1>0. Len(catalog) \in Nat
  BY DEF StoreType
<1>1. ASSUME NEW d \in Docs, NEW v, Publish(d, v) PROVE DeltasListed'
  <2>1. Len(catalog') = Len(catalog) + 1
    BY <1>1, AppendProperties DEF Publish, StoreType
  <2> QED BY <1>0, <1>1, <2>1 DEF Publish, DeltasListed, RunsType, runs
<1>2. ASSUME NEW p \in Procs, NEW c, Select(p, c) PROVE DeltasListed'
  BY <1>0, <1>2 DEF Select, DeltasListed, RunsType, StoreType, source
<1>3. ASSUME NEW p \in Procs, Ends(p), catalog' = catalog PROVE DeltasListed'
  BY <1>3 DEF Ends, DeltasListed, RunsType
<1>4. ASSUME NEW p \in Procs, MarkConsumed(p) PROVE DeltasListed'
  <2>1. \A q \in Procs \ {p} : pc'[q] = pc[q] /\ next'[q] = next[q]
    BY <1>4 DEF MarkConsumed, Goto, RunsType
  <2>2. cmd' = cmd /\ last' = last /\ catalog' = catalog
    BY <1>4 DEF MarkConsumed, source
  <2>3. cmd[p] = "incremental" /\ next[p] <= last[p] /\ last[p] <= Len(catalog) /\ 1 <= next[p]
    BY <1>4 DEF MarkConsumed, DeltasListed
  <2>4. next'[p] = next[p] + 1 /\ pc'[p] = IF next[p] = last[p] THEN "done" ELSE "batch"
    BY <1>4 DEF MarkConsumed, Goto, RunsType
  <2>5. next[p] \in Nat /\ last[p] \in Nat
    BY DEF RunsType
  <2> QED BY <1>0, <2>1, <2>2, <2>3, <2>4, <2>5 DEF DeltasListed
<1>5. ASSUME NEW p \in Procs, NEW there, Goto(p, there), UNCHANGED <<catalog, cmd, next, last>>,
             pc[p] # "idle", there \in {"batch", "mark"} => cmd[p] = "incremental",
             pc[p] = "done" => cmd[p] # "incremental"
      PROVE  DeltasListed'
  BY <1>5 DEF Goto, DeltasListed, RunsType
<1>6. CASE UNCHANGED <<catalog, pc, cmd, next, last>>
  BY <1>6 DEF DeltasListed
<1>7. ASSUME NEW p \in Procs, TakeLock(p) \/ OpsDone(p) \/ FinishFull(p) PROVE DeltasListed'
  BY <1>5, <1>7 DEF TakeLock, OpsDone, FinishFull, FullCommands, source
<1>8. ASSUME NEW p \in Procs,
             \/ ApplyDelta(p) \/ Classify(p) \/ ClassifyNothing(p) \/ RecordParses(p)
             \/ RechunkDone(p) \/ EmbedDone(p) \/ ReadOps(p) \/ Prune(p)
      PROVE  DeltasListed'
  BY <1>5, <1>8 DEF ApplyDelta, Classify, ClassifyNothing, RecordParses, RechunkDone, EmbedDone,
     ReadOps, Prune, source
<1>9. ASSUME NEW p \in Procs, NEW good, NEW wrote, RunParsers(p, good, wrote) PROVE DeltasListed'
  BY <1>5, <1>9 DEF RunParsers, source
<1>10. ASSUME NEW p \in Procs, NEW d \in Docs,
              \/ RechunkWrite(p, d) \/ RechunkRecord(p, d) \/ RechunkFails(p, d) \/ EmbedReads(p, d)
              \/ ReplaceDeletes(p, d) \/ UpsertLast(p, d) \/ RecordIndexed(p, d)
              \/ ApplyOp(p, d) \/ CompleteOp(p, d)
       PROVE  DeltasListed'
  BY <1>5, <1>10 DEF RechunkWrite, RechunkRecord, RechunkFails, EmbedReads, Embeds, ReplaceDeletes,
     UpsertLast, RecordIndexed, ApplyOp, CompleteOp, source
<1>11. ASSUME NEW p \in Procs, Acts(p) PROVE DeltasListed'
  <2>1. ASSUME NEW d \in Docs, EmbedSkips(p, d) \/ UpsertBatch(p, d) PROVE DeltasListed'
    BY <1>6, <2>1, NothingMoves DEF EmbedSkips, UpsertBatch, source
  <2> QED
    BY <1>2, <1>3, <1>4, <1>7, <1>8, <1>9, <1>10, <1>11, <2>1, RunEnds DEF Acts, Step
<1>12. ASSUME Environment PROVE DeltasListed'
  BY <1>1, <1>6, <1>12, NothingMoves DEF Environment, LoseParquet, Configure, source, vars
<1> QED BY <1>11, <1>12, NextSplits

LEMMA LockNext == ASSUME RunsType, DeltasListed, LockHeld, [Next]_vars PROVE LockHeld'
<1>1. ASSUME NEW p \in Procs, Ends(p) PROVE LockHeld'
  BY <1>1 DEF Ends, LockHeld, LockPCs, ParsePCs, RunsType
<1>2. ASSUME NEW p \in Procs, TakeLock(p) PROVE LockHeld'
  BY <1>2, ConstantsAssumption DEF TakeLock, Goto, LockHeld, RunsType
<1>3. ASSUME NEW p \in Procs, FinishFull(p) PROVE LockHeld'
  BY <1>3 DEF FinishFull, Goto, LockHeld, LockPCs, ParsePCs, RunsType
<1>4. ASSUME NEW p \in Procs, NEW there, Goto(p, there), lock' = lock,
             there \in LockPCs => pc[p] \in LockPCs \/ lock = p
      PROVE  LockHeld'
  BY <1>4 DEF Goto, LockHeld, RunsType
<1>5. CASE UNCHANGED <<lock, pc>>
  BY <1>5 DEF LockHeld
<1>6. ASSUME NEW p \in Procs, NEW c, Select(p, c) PROVE LockHeld'
  BY <1>6 DEF Select, LockHeld, LockPCs, ParsePCs, RunsType
<1>7. ASSUME NEW p \in Procs,
             \/ ApplyDelta(p) \/ Classify(p) \/ ClassifyNothing(p) \/ RecordParses(p)
             \/ RechunkDone(p) \/ EmbedDone(p) \/ ReadOps(p) \/ Prune(p) \/ OpsDone(p) \/ MarkConsumed(p)
      PROVE  LockHeld'
  BY <1>4, <1>7 DEF ApplyDelta, Classify, ClassifyNothing, RecordParses, RechunkDone, EmbedDone,
     ReadOps, Prune, OpsDone, MarkConsumed, LockPCs, ParsePCs
<1>8. ASSUME NEW p \in Procs, NEW good, NEW wrote, RunParsers(p, good, wrote) PROVE LockHeld'
  BY <1>4, <1>8 DEF RunParsers, LockPCs, ParsePCs
<1>9. ASSUME NEW p \in Procs, NEW d \in Docs,
             \/ RechunkWrite(p, d) \/ RechunkRecord(p, d) \/ RechunkFails(p, d) \/ EmbedReads(p, d)
             \/ ReplaceDeletes(p, d) \/ UpsertLast(p, d) \/ RecordIndexed(p, d)
             \/ ApplyOp(p, d) \/ CompleteOp(p, d)
      PROVE  LockHeld'
  BY <1>4, <1>9 DEF RechunkWrite, RechunkRecord, RechunkFails, EmbedReads, Embeds, ReplaceDeletes,
     UpsertLast, RecordIndexed, ApplyOp, CompleteOp, LockPCs, ParsePCs
<1>10. ASSUME NEW p \in Procs, Acts(p) PROVE LockHeld'
  BY <1>1, <1>2, <1>3, <1>5, <1>6, <1>7, <1>8, <1>9, <1>10, RunEnds, NothingMoves DEF Acts, Step
<1> QED BY <1>5, <1>10, NextSplits, NothingMoves

\* The others only ever parse.
LEMMA HelpersNext ==
  ASSUME NEW m, SoleWriter(m), RunsType, Helpers(m), [Next]_vars PROVE Helpers(m)'
<1>1. ASSUME NEW p \in Procs, Ends(p) PROVE Helpers(m)'
  BY <1>1 DEF Ends, Helpers, RunsType
<1>2. ASSUME NEW p \in Procs, NEW c \in Commands[p], Select(p, c) PROVE Helpers(m)'
  BY <1>2 DEF Select, Helpers, ParsePCs, RunsType, SoleWriter
<1>3. ASSUME NEW p \in Procs, NEW there, Goto(p, there), cmd' = cmd,
             p # m => pc[p] # "idle" /\ there \in ParsePCs
      PROVE  Helpers(m)'
  BY <1>3 DEF Goto, Helpers, RunsType
<1>4. CASE UNCHANGED <<cmd, pc>>
  BY <1>4 DEF Helpers
<1>5. ASSUME NEW p \in Procs,
             \/ TakeLock(p) \/ Classify(p) \/ ClassifyNothing(p) \/ RecordParses(p) \/ RechunkDone(p)
      PROVE  Helpers(m)'
  <2>1. p # m => cmd[p] \in ParseOnly
    BY <1>5 DEF TakeLock, Classify, ClassifyNothing, RecordParses, RechunkDone, Helpers
  <2>2. p # m => cmd[p] # "incremental" /\ cmd[p] \notin EmbedCommands
    BY <2>1 DEF ParseOnly, EmbedCommands
  <2> QED
    BY <1>3, <1>5, <2>1, <2>2 DEF TakeLock, Classify, ClassifyNothing, RecordParses, RechunkDone, ParsePCs
<1>6. ASSUME NEW p \in Procs, NEW good, NEW wrote, RunParsers(p, good, wrote) PROVE Helpers(m)'
  BY <1>3, <1>6 DEF RunParsers, ParsePCs
<1>7. ASSUME NEW p \in Procs, NEW d \in Docs,
             RechunkWrite(p, d) \/ RechunkRecord(p, d) \/ RechunkFails(p, d)
      PROVE  Helpers(m)'
  BY <1>3, <1>7 DEF RechunkWrite, RechunkRecord, RechunkFails, ParsePCs
<1>8. ASSUME NEW p \in Procs,
             \/ ApplyDelta(p) \/ EmbedDone(p) \/ ReadOps(p) \/ Prune(p) \/ OpsDone(p) \/ MarkConsumed(p)
             \/ FinishFull(p)
      PROVE  Helpers(m)'
  <2>1. p = m
    BY <1>8 DEF ApplyDelta, EmbedDone, ReadOps, Prune, OpsDone, MarkConsumed, FinishFull, Helpers,
       ParsePCs, ParseOnly, FullCommands
  <2> QED
    BY <1>3, <1>8, <2>1
    DEF ApplyDelta, EmbedDone, ReadOps, Prune, OpsDone, MarkConsumed, FinishFull
<1>9. ASSUME NEW p \in Procs, NEW d \in Docs,
             \/ EmbedReads(p, d) \/ ReplaceDeletes(p, d) \/ UpsertLast(p, d) \/ RecordIndexed(p, d)
             \/ ApplyOp(p, d) \/ CompleteOp(p, d)
      PROVE  Helpers(m)'
  <2>1. p = m
    BY <1>9 DEF EmbedReads, Embeds, ReplaceDeletes, UpsertLast, RecordIndexed, ApplyOp, CompleteOp,
       Helpers, ParsePCs
  <2> QED
    BY <1>3, <1>9, <2>1
    DEF EmbedReads, ReplaceDeletes, UpsertLast, RecordIndexed, ApplyOp, CompleteOp
<1>10. ASSUME NEW p \in Procs, Acts(p) PROVE Helpers(m)'
  BY <1>1, <1>2, <1>4, <1>5, <1>6, <1>7, <1>8, <1>9, <1>10, RunEnds, NothingMoves DEF Acts, Step
<1> QED BY <1>4, <1>10, NextSplits, NothingMoves

---------------------------------------------------------------------------
(* What the transactions do to a row.                                      *)

LEMMA UnavailableRow ==
  ASSUME NEW r \in Row
  PROVE  LET u == Unavailable(r) IN
         /\ u.c = r.c /\ u.pfp = r.pfp /\ u.cfp = r.cfp
         /\ \/ u = r /\ r.st = "none"
            \/ u.parse = "stale" /\ u.chunk = "stale" /\ u.index = "stale"
  BY DEF Unavailable, Row

LEMMA InvalidRows ==
  ASSUME NEW r \in Row, NEW v \in Value
  PROVE  LET u == Upserted(r, v) a == ContentInvalid(u) b == ChunksInvalid(u) IN
         /\ u.st = "ready" /\ u.c = v.c /\ u.parse = r.parse /\ u.pfp = r.pfp
         /\ u.chunk = r.chunk /\ u.cfp = r.cfp /\ u.index = r.index
         /\ a.st = "ready" /\ a.c = v.c /\ a.pfp = r.pfp
         /\ a.parse = "pending" /\ a.chunk = "stale" /\ a.index = "stale"
         /\ b.st = "ready" /\ b.c = v.c /\ b.parse = r.parse /\ b.pfp = r.pfp
         /\ b.chunk = "pending" /\ b.index = "stale"
  BY DEF Upserted, ContentInvalid, ChunksInvalid, Row, Value

LEMMA ParsedRow ==
  ASSUME NEW r \in Row, NEW c
  PROVE  LET u == ParseReady(r, c) f == ParseFailed(r) IN
         /\ u.st = r.st /\ u.c = r.c /\ u.index = r.index
         /\ u.parse = "ready" /\ u.pfp = c
         /\ u.chunk = "ready" /\ u.cfp.c = c /\ u.cfp.k = chunker
         /\ f.st = r.st /\ f.c = r.c /\ f.index = r.index
         /\ f.parse = "failed" /\ f.chunk = r.chunk
  BY DEF ParseReady, ParseFailed, Row

\* The documents parsed, those whose parse failed, and the others.
LEMMA RecordedRows ==
  ASSUME StoreType, NEW p \in Procs, RecordParses(p), NEW d \in Docs
  PROVE  /\ row'[d].st = row[d].st /\ row'[d].c = row[d].c /\ row'[d].index = row[d].index
         /\ d \in ok[p] => /\ row'[d].parse = "ready" /\ row'[d].pfp = sel[p][d].c
                           /\ row'[d].cfp.c = sel[p][d].c /\ row'[d].cfp.k = chunker
                           /\ op'[d] = "replace"
         /\ d \in toParse[p] /\ d \notin ok[p] =>
              row'[d].parse = "failed" /\ row'[d].chunk = row[d].chunk /\ op'[d] = op[d]
         /\ d \notin toParse[p] /\ d \notin ok[p] => row'[d] = row[d] /\ op'[d] = op[d]
<1>1. row[d] \in Row
  BY DEF StoreType
<1>2. /\ row'[d] = IF d \in ok[p] THEN ParseReady(row[d], sel[p][d].c)
                   ELSE IF d \in toParse[p] THEN ParseFailed(row[d]) ELSE row[d]
      /\ op'[d] = IF d \in ok[p] THEN "replace" ELSE op[d]
  BY DEF RecordParses
<1> QED BY <1>1, <1>2, ParsedRow

\* The documents to parse, to chunk again, to embed, and the others.
LEMMA ClassifyRows ==
  ASSUME StoreType, RunsType, NEW p \in Procs, Classify(p)
  PROVE  /\ toParse'[p] \cap toChunk'[p] = {} /\ toParse'[p] \cap toEmbed'[p] = {}
         /\ toChunk'[p] \cap toEmbed'[p] = {}
         /\ \A d \in toParse'[p] :
              /\ row'[d].st = "ready" /\ row'[d].c = sel[p][d].c /\ row'[d].parse = "pending"
              /\ row'[d].chunk = "stale" /\ row'[d].index = "stale" /\ op'[d] = "delete"
         /\ \A d \in toChunk'[p] :
              /\ row'[d].st = "ready" /\ row'[d].c = row[d].c /\ row'[d].parse = row[d].parse
              /\ row[d].parse = "ready" /\ row[d].pfp = row[d].c
              /\ row'[d].pfp = row[d].pfp /\ row'[d].chunk = "pending" /\ row'[d].index = "stale"
              /\ op'[d] = "delete"
         /\ \A d \in toEmbed'[p] : row'[d].st = "ready" /\ row[d].index # "ready"
         /\ \A d \in Docs : d \notin toParse'[p] /\ d \notin toChunk'[p] =>
              /\ row'[d].c = row[d].c /\ row'[d].parse = row[d].parse /\ row'[d].pfp = row[d].pfp
              /\ row'[d].chunk = row[d].chunk /\ row'[d].cfp = row[d].cfp
              /\ row'[d].index = row[d].index /\ op'[d] \in {op[d], "payload"}
              /\ row[d].st = "ready" => row'[d].st = "ready"
<1> DEFINE D == Picked(sel[p])
           P == {d \in D : NeedsParse(p, d)}
           C == {d \in D \ P : NeedsChunk(d)}
           E == {d \in D \ (P \cup C) : NeedsEmbed(d)}
<1>1. D \subseteq Docs
  BY DEF Picked
<1>2. toParse'[p] = P /\ toChunk'[p] = C /\ toEmbed'[p] = E
  BY DEF Classify, RunsType
<1>3. \A d \in Docs : row[d] \in Row /\ sel[p][d] \in Value
  BY DEF StoreType, RunsType
<1>4. \A d \in Docs : op'[d] = IF d \in P \cup C THEN "delete"
                               ELSE IF d \in D /\ row[d].m # sel[p][d].m THEN "payload" ELSE op[d]
  BY DEF Classify
<1>5. \A d \in Docs :
        row'[d] = IF d \in P THEN ContentInvalid(Upserted(row[d], sel[p][d]))
                  ELSE IF d \in C THEN ChunksInvalid(Upserted(row[d], sel[p][d]))
                  ELSE IF d \in D THEN Upserted(row[d], sel[p][d]) ELSE row[d]
  BY DEF Classify
<1>6. \A d \in D \ P : row[d].c = sel[p][d].c /\ row[d].parse = "ready" /\ row[d].pfp = row[d].c
  BY DEF NeedsParse
<1>7. \A d \in E : row[d].index # "ready"
  BY DEF NeedsEmbed
<1>8. P \cap C = {} /\ P \cap E = {} /\ C \cap E = {} /\ C \subseteq D \ P /\ E \subseteq D /\ P \subseteq D
  OBVIOUS
<1> HIDE DEF D, P, C, E
<1>9. ASSUME NEW d \in P
      PROVE  /\ row'[d].st = "ready" /\ row'[d].c = sel[p][d].c /\ row'[d].parse = "pending"
             /\ row'[d].chunk = "stale" /\ row'[d].index = "stale" /\ op'[d] = "delete"
  BY <1>1, <1>3, <1>4, <1>5, <1>8, InvalidRows
<1>10. ASSUME NEW d \in C
       PROVE  /\ row'[d].st = "ready" /\ row'[d].c = row[d].c /\ row'[d].parse = row[d].parse
              /\ row[d].parse = "ready" /\ row[d].pfp = row[d].c
              /\ row'[d].pfp = row[d].pfp /\ row'[d].chunk = "pending" /\ row'[d].index = "stale"
              /\ op'[d] = "delete"
  BY <1>1, <1>3, <1>4, <1>5, <1>6, <1>8, InvalidRows
<1>11. ASSUME NEW d \in Docs, d \notin P, d \notin C
       PROVE  /\ row'[d].c = row[d].c /\ row'[d].parse = row[d].parse /\ row'[d].pfp = row[d].pfp
              /\ row'[d].chunk = row[d].chunk /\ row'[d].cfp = row[d].cfp
              /\ row'[d].index = row[d].index /\ op'[d] \in {op[d], "payload"}
              /\ row[d].st = "ready" => row'[d].st = "ready"
              /\ d \in D => row'[d].st = "ready"
  BY <1>3, <1>4, <1>5, <1>6, <1>11, InvalidRows
<1>12. ASSUME NEW d \in E PROVE row'[d].st = "ready"
  BY <1>1, <1>8, <1>11
<1> QED BY <1>2, <1>7, <1>8, <1>9, <1>10, <1>11, <1>12

LEMMA OneHolder ==
  ASSUME LockHeld, NEW p \in Procs, NEW q \in Procs, pc[p] \in LockPCs, pc[q] \in LockPCs PROVE p = q
  BY DEF LockHeld

LEMMA OnlyWriter ==
  ASSUME NEW m, Helpers(m), NEW p \in Procs, pc[p] # "idle", pc[p] \notin ParsePCs PROVE p = m
  BY DEF Helpers

LEMMA FirstIsOne == ASSUME NEW S \in SUBSET Docs, NEW d, NEW e, First(S, d), First(S, e) PROVE d = e
<1>1. d \in Nat /\ e \in Nat /\ d <= e /\ e <= d
  BY DEF First, Docs
<1> QED BY <1>1

---------------------------------------------------------------------------
(* Rows, artifacts and points.                                             *)

LEMMA ArtifactsNext ==
  ASSUME NEW m, SoleWriter(m), IInv(m), [Next]_vars PROVE Artifacts'
<1>0. StoreType /\ RunsType /\ Artifacts /\ ParseLists /\ ReadyIsIndexed
  BY DEF IInv
<1>00. \A d \in Docs : row[d] \in Row
  BY <1>0 DEF StoreType
<1>1. ASSUME NEW d \in Docs, LoseParquet(d) PROVE Artifacts'
  BY <1>0, <1>1 DEF LoseParquet, StoreType, Artifacts, state
<1>2. ASSUME NEW p \in Procs, ApplyDelta(p) \/ Prune(p) PROVE Artifacts'
  <2>1. \A d \in Docs : \/ row'[d] = row[d] /\ op'[d] = op[d]
                        \/ row'[d] = Unavailable(row[d]) /\ op'[d] = "delete"
    BY <1>0, <1>2 DEF ApplyDelta, Prune, DeleteQueued, StoreType
  <2>2. parsed' = parsed /\ parquet' = parquet
    BY <1>2 DEF ApplyDelta, Prune, files
  <2>3. \A d \in Docs : row[d].st = "none" => row[d].index # "ready"
    BY <1>0 DEF ReadyIsIndexed
  <2> QED BY <1>0, <1>00, <2>1, <2>2, <2>3, UnavailableRow DEF Artifacts
<1>3. ASSUME NEW p \in Procs, Classify(p) PROVE Artifacts'
  <2>1. parsed' = parsed /\ parquet' = parquet
    BY <1>3 DEF Classify, files
  <2> QED BY <1>0, <1>3, <2>1, ClassifyRows DEF Artifacts
<1>4. ASSUME NEW p \in Procs, NEW good, NEW wrote, RunParsers(p, good, wrote) PROVE Artifacts'
  <2>1. /\ row' = row /\ op' = op /\ wrote \subseteq toParse[p]
        /\ \A d \in Docs : d \notin wrote => parsed'[d] = parsed[d] /\ parquet'[d] = parquet[d]
        /\ \A d \in Docs : d \in wrote => parquet'[d].full
    BY <1>4 DEF RunParsers, state
  <2>2. \A d \in wrote : row[d].parse # "ready" /\ row[d].chunk # "ready"
    BY <1>0, <1>4, <2>1 DEF RunParsers, ParseLists, ParseList, Listing, Unfinished
  <2> QED BY <1>0, <2>1, <2>2 DEF Artifacts
<1>5. ASSUME NEW p \in Procs, RecordParses(p) PROVE Artifacts'
  <2>1. /\ pc[p] = "record" /\ parsed' = parsed /\ parquet' = parquet
        /\ ok[p] \subseteq toParse[p] /\ toParse[p] \subseteq Docs
    BY <1>0, <1>5 DEF RecordParses, ParseLists, ParseList, RunsType, files
  <2>2. ASSUME NEW d \in Docs, d \notin toParse[p] PROVE row'[d] = row[d] /\ op'[d] = op[d]
    BY <1>0, <1>5, <2>1, <2>2, RecordedRows
  <2>3. ASSUME NEW d \in toParse[p], d \notin ok[p]
        PROVE  /\ row'[d].parse # "ready" /\ row'[d].chunk # "ready"
               /\ row'[d].index = row[d].index /\ op'[d] = op[d]
    <3>1. d \in Docs /\ row[d].chunk # "ready"
      BY <1>0, <2>1 DEF ParseLists, ParseList, Unfinished
    <3> QED BY <1>0, <1>5, <2>3, <3>1, RecordedRows
  <2>4. ASSUME NEW d \in ok[p]
        PROVE  /\ row'[d].pfp = sel[p][d].c /\ row'[d].c = row[d].c /\ op'[d] = "replace"
               /\ row'[d].cfp.c = sel[p][d].c /\ row'[d].cfp.k = chunker
    BY <1>0, <1>5, <2>1, RecordedRows
  <2>5. ASSUME NEW d \in ok[p]
        PROVE  /\ parsed[d] = sel[p][d].c /\ row[d].c = sel[p][d].c
               /\ CutAs(d, sel[p][d].c)
    BY <1>0, <2>1 DEF ParseLists, ParseList
  <2>6. ASSUME NEW d \in ok[p]
        PROVE  /\ row'[d].cfp.c = row'[d].c /\ parsed'[d] = row'[d].pfp
               /\ parquet'[d] = NoChunks
                  \/ (parquet'[d].c = row'[d].cfp.c /\ parquet'[d].k = row'[d].cfp.k)
    <3>1. \/ parquet[d] = NoChunks
          \/ parquet[d].c = sel[p][d].c /\ parquet[d].k = chunker
      BY <2>5 DEF CutAs
    <3> QED BY <2>1, <2>4, <2>5, <3>1
  <2>7. ASSUME NEW d \in Docs
        PROVE  /\ row'[d].parse = "ready" => parsed'[d] = row'[d].pfp
               /\ row'[d].chunk = "ready" =>
                    /\ row'[d].cfp.c = row'[d].c
                    /\ \/ parquet'[d] = NoChunks
                       \/ parquet'[d].c = row'[d].cfp.c /\ parquet'[d].k = row'[d].cfp.k
    BY <1>0, <2>1, <2>2, <2>3, <2>6 DEF Artifacts
  <2>8. ASSUME NEW d \in Docs, op'[d] = "delete" PROVE row'[d].index # "ready"
    BY <1>0, <2>2, <2>3, <2>4, <2>8 DEF Artifacts
  <2> QED BY <1>0, <2>1, <2>7, <2>8 DEF Artifacts
<1>6. ASSUME NEW p \in Procs, NEW d \in Docs, RechunkWrite(p, d) PROVE Artifacts'
  <2>1. row[d].chunk # "ready"
    BY <1>0, <1>6 DEF RechunkWrite, First, ParseLists, ParseList, Listing, Unfinished
  <2> QED BY <1>0, <1>6, <2>1 DEF RechunkWrite, Artifacts, StoreType, state
<1>7. ASSUME NEW p \in Procs, NEW d \in Docs, RechunkRecord(p, d) PROVE Artifacts'
  <2>1. parsed[d] = row[d].c /\ CutAs(d, parsed[d])
    BY <1>0, <1>7 DEF RechunkRecord, First, ParseLists, ParseList, Listing
  <2>2. /\ \A e \in Docs \ {d} : row'[e] = row[e] /\ op'[e] = op[e]
        /\ row'[d].cfp = [c |-> parsed[d], k |-> chunker] /\ op'[d] = "replace"
        /\ row'[d].c = row[d].c /\ row'[d].parse = row[d].parse /\ row'[d].pfp = row[d].pfp
    BY <1>0, <1>00, <1>7 DEF RechunkRecord, Row, StoreType
  <2>3. parsed' = parsed /\ parquet' = parquet
    BY <1>7 DEF RechunkRecord, files
  <2> QED BY <1>0, <2>1, <2>2, <2>3 DEF Artifacts, CutAs
<1>8. ASSUME NEW p \in Procs, NEW d \in Docs, RechunkFails(p, d) PROVE Artifacts'
  <2>1. /\ \A e \in Docs \ {d} : row'[e] = row[e]
        /\ row'[d].chunk = "failed" /\ row'[d].index = row[d].index
        /\ row'[d].parse = row[d].parse /\ row'[d].pfp = row[d].pfp
    BY <1>0, <1>00, <1>8 DEF RechunkFails, Row, StoreType
  <2>2. op' = op /\ parsed' = parsed /\ parquet' = parquet
    BY <1>8 DEF RechunkFails, files
  <2> QED BY <1>0, <2>1, <2>2 DEF Artifacts
<1>9. ASSUME NEW p \in Procs, NEW d \in Docs, RecordIndexed(p, d) PROVE Artifacts'
  <2>1. /\ \A e \in Docs \ {d} : row'[e] = row[e] /\ op'[e] = op[e]
        /\ op'[d] = "none" /\ row'[d].c = row[d].c /\ row'[d].parse = row[d].parse
        /\ row'[d].pfp = row[d].pfp /\ row'[d].chunk = row[d].chunk /\ row'[d].cfp = row[d].cfp
    BY <1>0, <1>00, <1>9 DEF RecordIndexed, Row, StoreType
  <2>2. parsed' = parsed /\ parquet' = parquet
    BY <1>9 DEF RecordIndexed, files
  <2> QED BY <1>0, <2>1, <2>2 DEF Artifacts
<1>10. ASSUME NEW p \in Procs, NEW d \in Docs, CompleteOp(p, d) PROVE Artifacts'
  BY <1>0, <1>10 DEF CompleteOp, Artifacts, StoreType, files
<1>11. CASE UNCHANGED <<row, op, files>>
  BY <1>0, <1>11 DEF Artifacts, files
<1>12. ASSUME NEW p \in Procs,
              \/ TakeLock(p) \/ LockBusy(p) \/ ClassifyNothing(p) \/ RechunkDone(p) \/ EmbedDone(p)
              \/ ReadOps(p) \/ OpsDone(p) \/ MarkConsumed(p) \/ Finish(p) \/ FinishFull(p)
              \/ Checkpoint(p) \/ Fails(p) \/ (\E c \in Commands[p] : Select(p, c))
       PROVE  Artifacts'
  BY <1>11, <1>12 DEF TakeLock, LockBusy, ClassifyNothing, RechunkDone, EmbedDone, ReadOps, OpsDone,
     MarkConsumed, Finish, FinishFull, Checkpoint, Fails, Select, state
<1>13. ASSUME NEW p \in Procs, NEW d \in Docs,
              \/ EmbedSkips(p, d) \/ EmbedReads(p, d) \/ ReplaceDeletes(p, d) \/ UpsertBatch(p, d)
              \/ UpsertLast(p, d) \/ ApplyOp(p, d)
       PROVE  Artifacts'
  BY <1>11, <1>13 DEF EmbedSkips, EmbedReads, ReplaceDeletes, UpsertBatch, UpsertLast, ApplyOp, state
<1>14. ASSUME Configure \/ (\E d \in Docs : \E v \in Versions[d] \cup {Absent} : Publish(d, v))
              \/ UNCHANGED vars
       PROVE  Artifacts'
  BY <1>11, <1>14 DEF Configure, Publish, state, vars
<1> QED
  BY <1>1, <1>2, <1>3, <1>4, <1>5, <1>6, <1>7, <1>8, <1>9, <1>10, <1>12, <1>13, <1>14 DEF Next, Step

\* Points change only for documents that are not indexed, and the index stages
\* become "ready" only with the points the row speaks of.
LEMMA ReadyNext ==
  ASSUME NEW m, SoleWriter(m), IInv(m), [Next]_vars PROVE ReadyIsIndexed'
<1>0. StoreType /\ RunsType /\ Helpers(m) /\ ParseLists /\ EmbedLists(m) /\ Writes(m) /\ ReadyIsIndexed
  BY DEF IInv
<1>00. \A d \in Docs : row[d] \in Row /\ points[d] \in Chunks
  BY <1>0 DEF StoreType
<1>2. ASSUME NEW p \in Procs, ApplyDelta(p) \/ Prune(p) PROVE ReadyIsIndexed'
  <2>1. \A d \in Docs : row'[d] = row[d] \/ row'[d] = Unavailable(row[d])
    BY <1>0, <1>2 DEF ApplyDelta, Prune, StoreType
  <2>2. points' = points
    BY <1>2 DEF ApplyDelta, Prune
  <2> QED BY <1>0, <1>00, <2>1, <2>2, UnavailableRow DEF ReadyIsIndexed
<1>3. ASSUME NEW p \in Procs, Classify(p) PROVE ReadyIsIndexed'
  <2>1. points' = points
    BY <1>3 DEF Classify
  <2> QED BY <1>0, <1>3, <2>1, ClassifyRows DEF ReadyIsIndexed
<1>4. ASSUME NEW p \in Procs, RecordParses(p) PROVE ReadyIsIndexed'
  <2>1. pc[p] = "record" /\ points' = points /\ ok[p] \subseteq toParse[p]
    BY <1>0, <1>4 DEF RecordParses, ParseLists, ParseList
  <2>2. ASSUME NEW d \in Docs, d \notin toParse[p] PROVE row'[d] = row[d]
    BY <1>0, <1>4, <2>1, <2>2, RecordedRows
  <2>3. ASSUME NEW d \in toParse[p] PROVE row'[d].index # "ready"
    <3>1. d \in Docs /\ row[d].index # "ready"
      BY <1>0, <2>1 DEF RunsType, ParseLists, ParseList, Listing, Unfinished
    <3> QED BY <1>0, <1>4, <3>1, RecordedRows
  <2> QED BY <1>0, <2>1, <2>2, <2>3 DEF ReadyIsIndexed
<1>5. ASSUME NEW p \in Procs, NEW d \in Docs, RechunkRecord(p, d) \/ RechunkFails(p, d) PROVE ReadyIsIndexed'
  <2>1. row[d].index # "ready"
    BY <1>0, <1>5 DEF RechunkRecord, RechunkFails, First, ParseLists, ParseList, Listing, Unfinished
  <2>2. (\A e \in Docs \ {d} : row'[e] = row[e]) /\ row'[d].index = row[d].index /\ points' = points
    BY <1>0, <1>00, <1>5 DEF RechunkRecord, RechunkFails, Row, StoreType
  <2> QED BY <1>0, <2>1, <2>2 DEF ReadyIsIndexed
<1>6. ASSUME NEW p \in Procs, NEW d \in Docs, RecordIndexed(p, d) PROVE ReadyIsIndexed'
  <2>1. p = m /\ pc[m] = "indexed" /\ First(toEmbed[m], d)
    BY <1>0, <1>6, OnlyWriter DEF RecordIndexed, ParsePCs
  <2>2. /\ row[d].st = "ready" /\ vec[m].full /\ points[d] = vec[m]
        /\ vec[m].c = row[d].c /\ vec[m].k = row[d].cfp.k
    BY <1>0, <2>1 DEF EmbedLists, Writes, Unindexed, First
  <2>3. /\ \A e \in Docs \ {d} : row'[e] = row[e]
        /\ row'[d].st = row[d].st /\ row'[d].c = row[d].c /\ row'[d].cfp = row[d].cfp
        /\ points' = points
    BY <1>0, <1>00, <1>6 DEF RecordIndexed, Row, StoreType
  <2> QED BY <1>0, <2>2, <2>3 DEF ReadyIsIndexed
<1>7. ASSUME NEW p \in Procs, NEW d \in Docs,
             ReplaceDeletes(p, d) \/ UpsertBatch(p, d) \/ UpsertLast(p, d)
      PROVE  ReadyIsIndexed'
  <2>1. p = m /\ pc[m] \in {"replace", "upsert"} /\ d \in toEmbed[m]
    BY <1>0, <1>7, OnlyWriter DEF ReplaceDeletes, UpsertBatch, UpsertLast, ParsePCs, First
  <2>2. row[d].index # "ready"
    BY <1>0, <2>1 DEF EmbedLists, Unindexed
  <2>3. row' = row /\ \A e \in Docs \ {d} : points'[e] = points[e]
    BY <1>0, <1>7 DEF ReplaceDeletes, UpsertBatch, UpsertLast, StoreType, state
  <2> QED BY <1>0, <2>2, <2>3 DEF ReadyIsIndexed
<1>8. ASSUME NEW p \in Procs, NEW d \in Docs, ApplyOp(p, d) PROVE ReadyIsIndexed'
  <2>1. p = m /\ pc[m] = "apply" /\ row' = row
    BY <1>0, <1>8, OnlyWriter DEF ApplyOp, ParsePCs, state
  <2>2. \A e \in Docs \ {d} : points'[e] = points[e]
    BY <1>0, <1>8 DEF ApplyOp, StoreType
  <2>3. \/ row[d].index # "ready"
        \/ points'[d].full = points[d].full /\ points'[d].c = points[d].c /\ points'[d].k = points[d].k
    BY <1>0, <1>00, <1>8, <2>1 DEF ApplyOp, StoreType, Chunks, Writes
  <2> QED BY <1>0, <2>1, <2>2, <2>3 DEF ReadyIsIndexed
<1>9. CASE UNCHANGED <<row, points>>
  BY <1>0, <1>9 DEF ReadyIsIndexed
<1>10. ASSUME NEW p \in Procs,
              \/ TakeLock(p) \/ LockBusy(p) \/ ClassifyNothing(p) \/ RechunkDone(p) \/ EmbedDone(p)
              \/ ReadOps(p) \/ OpsDone(p) \/ MarkConsumed(p) \/ Finish(p) \/ FinishFull(p)
              \/ Checkpoint(p) \/ Fails(p) \/ (\E c \in Commands[p] : Select(p, c))
              \/ (\E good, wrote : RunParsers(p, good, wrote))
       PROVE  ReadyIsIndexed'
  BY <1>9, <1>10 DEF TakeLock, LockBusy, ClassifyNothing, RechunkDone, EmbedDone, ReadOps, OpsDone,
     MarkConsumed, Finish, FinishFull, Checkpoint, Fails, Select, RunParsers, state
<1>11. ASSUME NEW p \in Procs, NEW d \in Docs,
              RechunkWrite(p, d) \/ EmbedSkips(p, d) \/ EmbedReads(p, d) \/ CompleteOp(p, d)
       PROVE  ReadyIsIndexed'
  BY <1>9, <1>11 DEF RechunkWrite, EmbedSkips, EmbedReads, CompleteOp, state
<1>12. ASSUME Configure \/ (\E d \in Docs : \E v \in Versions[d] \cup {Absent} : Publish(d, v))
              \/ (\E d \in Docs : LoseParquet(d)) \/ UNCHANGED vars
       PROVE  ReadyIsIndexed'
  BY <1>9, <1>12 DEF Configure, Publish, LoseParquet, state, vars
<1> QED
  BY <1>2, <1>3, <1>4, <1>5, <1>6, <1>7, <1>8, <1>10, <1>11, <1>12 DEF Next, Step

---------------------------------------------------------------------------
(* The steps of one process, and what they leave to the others.            *)

Same(q) ==
  /\ pc'[q] = pc[q] /\ cmd'[q] = cmd[q] /\ sel'[q] = sel[q]
  /\ toParse'[q] = toParse[q] /\ ok'[q] = ok[q] /\ toChunk'[q] = toChunk[q]
  /\ toEmbed'[q] = toEmbed[q] /\ vec'[q] = vec[q] /\ ops'[q] = ops[q]

LEMMA OthersSame ==
  ASSUME RunsType, NEW p \in Procs, Acts(p), NEW q \in Procs \ {p} PROVE Same(q)
<1>1. CASE Ends(p)
  BY <1>1 DEF Ends, Same, RunsType
<1>2. CASE \E c \in Commands[p] : Select(p, c)
  BY <1>2 DEF Select, Same, RunsType, work
<1>3. CASE TakeLock(p) \/ Classify(p)
  BY <1>3 DEF TakeLock, Classify, Goto, Same, RunsType
<1>4. CASE \E good, wrote : RunParsers(p, good, wrote)
  BY <1>4 DEF RunParsers, Goto, Same, RunsType
<1>5. CASE ApplyDelta(p) \/ RecordParses(p)
  BY <1>5 DEF ApplyDelta, RecordParses, Goto, Same, RunsType, work
<1>6. CASE \E d \in Docs : RechunkWrite(p, d) \/ RechunkRecord(p, d) \/ RechunkFails(p, d)
  BY <1>6 DEF RechunkWrite, RechunkRecord, RechunkFails, Goto, Same, RunsType, work
<1>7. CASE \E d \in Docs : EmbedSkips(p, d) \/ EmbedReads(p, d) \/ RecordIndexed(p, d)
  BY <1>7 DEF EmbedSkips, EmbedReads, RecordIndexed, Goto, Same, RunsType
<1>8. CASE \E d \in Docs : ReplaceDeletes(p, d) \/ UpsertBatch(p, d) \/ UpsertLast(p, d)
  BY <1>8 DEF ReplaceDeletes, UpsertBatch, UpsertLast, Goto, Same, RunsType, runs, work
<1>9. CASE \E d \in Docs : ApplyOp(p, d) \/ CompleteOp(p, d)
  BY <1>9 DEF ApplyOp, CompleteOp, Goto, Same, RunsType, work
<1>10. CASE \/ ClassifyNothing(p) \/ RechunkDone(p) \/ EmbedDone(p) \/ ReadOps(p) \/ OpsDone(p)
            \/ MarkConsumed(p) \/ FinishFull(p) \/ Prune(p)
  BY <1>10 DEF ClassifyNothing, RechunkDone, EmbedDone, ReadOps, OpsDone, MarkConsumed, FinishFull,
     Prune, Goto, Same, RunsType, work
<1> QED
  BY <1>1, <1>2, <1>3, <1>4, <1>5, <1>6, <1>7, <1>8, <1>9, <1>10
  DEF Acts, Step, LockBusy, Finish, Checkpoint, Fails

\* Rows are written under the lock, except by a prune.
LEMMA RowsLocked ==
  ASSUME StoreType, RunsType, LockHeld, NEW p \in Procs, Acts(p), pc[p] \notin LockPCs
  PROVE  /\ parsed' = parsed /\ parquet' = parquet /\ chunker' = chunker
         /\ \A d \in Docs : row'[d] = row[d] \/ (pc[p] = "prune" /\ row'[d] = Unavailable(row[d]))
<1>1. CASE Prune(p)
  BY <1>1 DEF Prune, files
<1>2. CASE UNCHANGED <<row, parsed, parquet, chunker>>
  BY <1>2
<1>3. CASE \E d \in Docs : \/ RechunkWrite(p, d) \/ RechunkRecord(p, d) \/ RechunkFails(p, d)
                           \/ EmbedSkips(p, d) \/ EmbedReads(p, d) \/ ReplaceDeletes(p, d)
                           \/ UpsertBatch(p, d) \/ UpsertLast(p, d) \/ RecordIndexed(p, d)
  BY <1>3 DEF RechunkWrite, RechunkRecord, RechunkFails, EmbedSkips, EmbedReads, Embeds, ReplaceDeletes,
     UpsertBatch, UpsertLast, RecordIndexed, LockPCs, ParsePCs
<1>4. CASE \/ ApplyDelta(p) \/ Classify(p) \/ ClassifyNothing(p) \/ RecordParses(p) \/ RechunkDone(p)
           \/ EmbedDone(p) \/ MarkConsumed(p) \/ Finish(p) \/ FinishFull(p)
           \/ \E good, wrote : RunParsers(p, good, wrote)
  BY <1>4 DEF ApplyDelta, Classify, ClassifyNothing, RecordParses, RechunkDone, EmbedDone, MarkConsumed,
     Finish, FinishFull, RunParsers, LockPCs, ParsePCs
<1>5. CASE \/ TakeLock(p) \/ LockBusy(p) \/ ReadOps(p) \/ OpsDone(p) \/ Checkpoint(p) \/ Fails(p)
           \/ (\E c \in Commands[p] : Select(p, c))
           \/ (\E d \in Docs : ApplyOp(p, d) \/ CompleteOp(p, d))
  BY <1>2, <1>5 DEF TakeLock, LockBusy, ReadOps, OpsDone, Checkpoint, Fails, Select, ApplyOp, CompleteOp,
     state, files
<1> QED BY <1>1, <1>3, <1>4, <1>5 DEF Acts, Step

---------------------------------------------------------------------------
(* The documents to parse and to chunk again.                              *)

LEMMA ListKept ==
  ASSUME StoreType, NEW q \in Procs, ParseList(q),
         toParse'[q] = toParse[q], toChunk'[q] = toChunk[q], ok'[q] = ok[q],
         toParse[q] \subseteq Docs, toChunk[q] \subseteq Docs,
         pc'[q] = pc[q], sel'[q] = sel[q], parsed' = parsed, chunker' = chunker,
         \A d \in Docs : parquet'[d] \in {parquet[d], NoChunks},
         \A d \in Docs : row'[d] = row[d] \/ row'[d] = Unavailable(row[d])
  PROVE  ParseList(q)'
<1>1. \A d \in Docs : /\ row'[d].c = row[d].c
                      /\ row[d].parse # "ready" => row'[d].parse # "ready"
                      /\ Unfinished(d) => Unfinished(d)'
  BY UnavailableRow DEF StoreType, Unfinished
<1>2. \A d \in Docs : /\ CutAs(d, sel[q][d].c) => CutAs(d, sel[q][d].c)'
                      /\ CutAs(d, parsed[d]) => CutAs(d, parsed[d])'
  BY DEF CutAs
<1>3. \A d : First(toChunk'[q], d) <=> First(toChunk[q], d)
  BY DEF First
<1>4. pc[q] = "record" => \A d \in ok[q] : CutAs(d, sel[q][d].c)'
  <2> SUFFICES ASSUME pc[q] = "record", NEW d \in ok[q] PROVE CutAs(d, sel[q][d].c)'
    OBVIOUS
  <2>1. d \in Docs /\ CutAs(d, sel[q][d].c)
    BY DEF ParseList
  <2> QED BY <1>2, <2>1
<1>5. pc[q] = "rechunked" => \A d \in Docs : First(toChunk[q], d) => CutAs(d, parsed[d])'
  BY <1>2 DEF ParseList
<1> QED BY <1>1, <1>3, <1>4, <1>5 DEF ParseList, Listing

LEMMA ListsNext == ASSUME NEW m, SoleWriter(m), IInv(m), [Next]_vars PROVE ParseLists'
<1>0. StoreType /\ RunsType /\ LockHeld /\ Artifacts /\ ParseLists
  BY DEF IInv
<1>00. \A q \in Procs : toParse[q] \subseteq Docs /\ toChunk[q] \subseteq Docs /\ ParseList(q)
  BY <1>0 DEF RunsType, ParseLists
<1>000. \A d \in Docs : row[d] \in Row
  BY <1>0 DEF StoreType
<1>1. ASSUME Environment PROVE ParseLists'
  <2>1. CASE Configure
    BY <2>1 DEF Configure, ParseLists, ParseList, Listing, runs, work
  <2>2. ASSUME ~Configure, NEW q \in Procs PROVE ParseList(q)'
    <3>1. UNCHANGED <<runs, parsed, chunker, row>> /\ \A d \in Docs : parquet'[d] \in {parquet[d], NoChunks}
      BY <1>0, <1>1, <2>2 DEF Environment, Publish, LoseParquet, StoreType, vars, state, files
    <3> QED BY <1>0, <1>00, <3>1, ListKept DEF runs, work
  <2> QED BY <2>1, <2>2 DEF ParseLists
<1>2. ASSUME NEW p \in Procs, Acts(p), NEW q \in Procs \ {p} PROVE ParseList(q)'
  <2>1. Same(q)
    BY <1>0, <1>2, OthersSame
  <2>2. CASE pc[q] \notin Listing
    BY <2>1, <2>2 DEF Same, ParseList, Listing
  <2>3. CASE pc[q] \in Listing
    <3>1. pc[p] \notin LockPCs
      BY <1>0, <1>2, <2>3, OneHolder DEF Listing, LockPCs, ParsePCs
    <3>2. /\ parsed' = parsed /\ parquet' = parquet /\ chunker' = chunker
          /\ \A d \in Docs : row'[d] = row[d] \/ row'[d] = Unavailable(row[d])
      BY <1>0, <1>2, <3>1, RowsLocked
    <3> QED BY <1>0, <1>00, <2>1, <3>2, ListKept DEF Same
  <2> QED BY <2>2, <2>3
<1>3. ASSUME NEW p \in Procs, pc'[p] \notin Listing PROVE ParseList(p)'
  BY <1>3 DEF ParseList, Listing
<1>4. ASSUME NEW p \in Procs, Classify(p) PROVE ParseList(p)'
  <2>1. pc'[p] = "parse" /\ parsed' = parsed /\ sel' = sel
    BY <1>0, <1>4 DEF Classify, Goto, RunsType, files
  <2>2. \A d \in toChunk'[p] : d \in Docs /\ row[d].parse = "ready"
    <3>1. toChunk'[p] \subseteq Docs
      BY <1>0, <1>4 DEF Classify, RunsType, Picked
    <3> QED BY <1>0, <1>4, <3>1, ClassifyRows
  <2>3. \A d \in toChunk'[p] : parsed[d] = row'[d].c
    BY <1>0, <1>4, <2>2, ClassifyRows DEF Artifacts
  <2> QED BY <1>0, <1>4, <2>1, <2>3, ClassifyRows DEF ParseList, Unfinished
<1>5. ASSUME NEW p \in Procs, NEW good, NEW wrote, RunParsers(p, good, wrote) PROVE ParseList(p)'
  <2>1. /\ pc[p] = "parse" /\ pc'[p] = "record" /\ ok'[p] = good
        /\ good \subseteq wrote /\ wrote \subseteq toParse[p] /\ toParse[p] \subseteq Docs
        /\ row' = row /\ sel' = sel /\ toParse' = toParse /\ toChunk' = toChunk /\ chunker' = chunker
    BY <1>0, <1>00, <1>5 DEF RunParsers, Goto, RunsType, state
  <2>2. \A d \in Docs \ wrote : parsed'[d] = parsed[d]
    BY <1>5 DEF RunParsers
  <2>3. \A d \in wrote : parsed'[d] = sel[p][d].c /\ CutAs(d, sel[p][d].c)'
    BY <1>5, <2>1 DEF RunParsers, CutAs
  <2>4. \A d \in toChunk[p] : d \in Docs \ wrote
    BY <1>00, <2>1 DEF ParseList
  <2> QED BY <1>00, <2>1, <2>2, <2>3, <2>4 DEF ParseList, Listing, Unfinished
<1>6. ASSUME NEW p \in Procs, RecordParses(p) PROVE ParseList(p)'
  <2>1. /\ pc[p] = "record" /\ pc'[p] = "rechunk" /\ parsed' = parsed /\ toChunk' = toChunk
        /\ ok[p] \subseteq toParse[p]
    BY <1>0, <1>00, <1>6 DEF RecordParses, ParseList, Goto, RunsType, files
  <2>2. \A d \in toChunk[p] : d \in Docs /\ d \notin toParse[p] /\ row'[d] = row[d]
    BY <1>00, <1>6, <2>1 DEF RecordParses, ParseList
  <2> QED BY <1>00, <2>1, <2>2 DEF ParseList, Listing, Unfinished
<1>7. ASSUME NEW p \in Procs, NEW d \in Docs, RechunkWrite(p, d) PROVE ParseList(p)'
  <2>1. /\ pc[p] = "rechunk" /\ pc'[p] = "rechunked" /\ parsed' = parsed /\ toChunk' = toChunk
        /\ row' = row /\ First(toChunk[p], d)
    BY <1>0, <1>7 DEF RechunkWrite, Goto, RunsType, state, work
  <2>2. CutAs(d, parsed[d])'
    BY <1>0, <1>7, <2>1 DEF RechunkWrite, CutAs, StoreType
  <2>3. \A e \in Docs : First(toChunk[p], e) => e = d
    BY <1>00, <2>1, FirstIsOne
  <2> QED BY <1>00, <2>1, <2>2, <2>3 DEF ParseList, Listing, Unfinished
<1>8. ASSUME NEW p \in Procs, NEW d \in Docs, RechunkRecord(p, d) \/ RechunkFails(p, d) PROVE ParseList(p)'
  <2>1. /\ pc[p] \in {"rechunk", "rechunked"} /\ pc'[p] = "rechunk" /\ parsed' = parsed
        /\ toChunk'[p] = toChunk[p] \ {d}
    BY <1>0, <1>8 DEF RechunkRecord, RechunkFails, Goto, RunsType, files
  <2>2. \A e \in Docs \ {d} : row'[e] = row[e]
    BY <1>0, <1>8 DEF RechunkRecord, RechunkFails, StoreType
  <2> QED BY <1>00, <2>1, <2>2 DEF ParseList, Listing, Unfinished
<1>9. ASSUME NEW p \in Procs, NEW d \in Docs, EmbedSkips(p, d) \/ UpsertBatch(p, d) PROVE pc'[p] \notin Listing
  BY <1>9 DEF EmbedSkips, Embeds, UpsertBatch, runs, Listing
<1>10. ASSUME NEW p \in Procs, NEW d \in Docs,
              \/ EmbedReads(p, d) \/ ReplaceDeletes(p, d) \/ UpsertLast(p, d) \/ RecordIndexed(p, d)
              \/ ApplyOp(p, d) \/ CompleteOp(p, d)
       PROVE  pc'[p] \notin Listing
  BY <1>0, <1>10 DEF EmbedReads, ReplaceDeletes, UpsertLast, RecordIndexed, ApplyOp, CompleteOp, Goto,
     RunsType, Listing
<1>11. ASSUME NEW p \in Procs,
              \/ TakeLock(p) \/ ApplyDelta(p) \/ ClassifyNothing(p) \/ RechunkDone(p) \/ EmbedDone(p)
              \/ ReadOps(p) \/ OpsDone(p) \/ MarkConsumed(p) \/ FinishFull(p) \/ Prune(p)
              \/ Ends(p) \/ (\E c \in Commands[p] : Select(p, c))
       PROVE  pc'[p] \notin Listing
  BY <1>0, <1>11 DEF TakeLock, ApplyDelta, ClassifyNothing, RechunkDone, EmbedDone, ReadOps, OpsDone,
     MarkConsumed, FinishFull, Prune, Ends, Select, Goto, RunsType, Listing
<1>12. ASSUME NEW p \in Procs, Acts(p) PROVE ParseList(p)'
  BY <1>3, <1>4, <1>5, <1>6, <1>7, <1>8, <1>9, <1>10, <1>11, <1>12
  DEF Acts, Step, LockBusy, Finish, Checkpoint, Fails
<1> QED BY <1>1, <1>2, <1>12, NextSplits DEF ParseLists

---------------------------------------------------------------------------
(* The documents to embed, what is upserted and what is deleted.           *)

LEMMA RechunkRows ==
  ASSUME StoreType, NEW p \in Procs, NEW d \in Docs, RechunkRecord(p, d) \/ RechunkFails(p, d)
  PROVE  \A e \in Docs : row'[e].index = row[e].index /\ row'[e].st = row[e].st
<1>1. \A e \in Docs \ {d} : row'[e] = row[e]
  BY DEF RechunkRecord, RechunkFails, StoreType
<1>2. row[d] \in Row
  BY DEF StoreType
<1>3. row'[d].index = row[d].index /\ row'[d].st = row[d].st
  BY <1>2 DEF RechunkRecord, RechunkFails, StoreType, Row
<1> QED BY <1>1, <1>3

\* A parse never makes an index stage ready, and never removes a document.
LEMMA HelperActs ==
  ASSUME NEW m, SoleWriter(m), IInv(m), NEW p \in Procs \ {m}, Acts(p)
  PROVE  /\ points' = points
         /\ pc[m] \in LockPCs => row' = row
         /\ \A d \in Docs : /\ row'[d].index = "ready" => row[d].index = "ready"
                            /\ row[d].st = "ready" => row'[d].st = "ready"
<1>0. StoreType /\ RunsType /\ LockHeld /\ Helpers(m) /\ ParseLists /\ m \in Procs
  BY DEF IInv, SoleWriter
<1>00. \A d \in Docs : row[d] \in Row
  BY <1>0 DEF StoreType
<1>1. pc[p] = "idle" \/ pc[p] \in ParsePCs
  BY <1>0 DEF Helpers
<1>2. pc[m] \in LockPCs /\ pc[p] \in LockPCs => FALSE
  BY <1>0, OneHolder
<1>3. CASE pc[p] \notin LockPCs
  <2>1. \A d \in Docs : row'[d] = row[d]
    BY <1>0, <1>1, <1>3, RowsLocked DEF ParsePCs
  <2>2. row' = row /\ points' = points
    BY <1>1, <1>3 DEF Acts, Step, Select, TakeLock, LockBusy, ApplyDelta, Classify, ClassifyNothing,
       RunParsers, RecordParses, RechunkWrite, RechunkRecord, RechunkFails, RechunkDone, EmbedSkips,
       EmbedReads, Embeds, ReplaceDeletes, UpsertBatch, UpsertLast, RecordIndexed, EmbedDone, ReadOps,
       ApplyOp, CompleteOp, OpsDone, MarkConsumed, Finish, FinishFull, Prune, Checkpoint, Fails, state,
       LockPCs, ParsePCs
  <2> QED BY <2>2
<1>4. CASE Classify(p)
  <2>1. pc[p] = "classify" /\ points' = points
    BY <1>4 DEF Classify
  <2>2. ASSUME NEW d \in Docs
        PROVE  /\ row'[d].index = "ready" => row[d].index = "ready"
               /\ row[d].st = "ready" => row'[d].st = "ready"
    <3>1. CASE d \in toParse'[p]
      BY <1>0, <1>4, <3>1, ClassifyRows
    <3>2. CASE d \in toChunk'[p]
      BY <1>0, <1>4, <3>2, ClassifyRows
    <3>3. CASE d \notin toParse'[p] /\ d \notin toChunk'[p]
      BY <1>0, <1>4, <3>3, ClassifyRows
    <3> QED BY <3>1, <3>2, <3>3
  <2> QED BY <1>2, <2>1, <2>2 DEF LockPCs, ParsePCs
<1>5. CASE RecordParses(p)
  <2>1. \A d \in Docs : row'[d].index = row[d].index /\ row'[d].st = row[d].st
    BY <1>0, <1>5, RecordedRows
  <2> QED BY <1>2, <1>5, <2>1 DEF RecordParses, LockPCs, ParsePCs
<1>6. CASE \E d \in Docs : RechunkRecord(p, d) \/ RechunkFails(p, d)
  <2>1. \A d \in Docs : row'[d].index = row[d].index /\ row'[d].st = row[d].st
    BY <1>0, <1>6, RechunkRows
  <2> QED BY <1>2, <1>6, <2>1 DEF RechunkRecord, RechunkFails, LockPCs, ParsePCs
<1>7. CASE UNCHANGED <<row, points>>
  BY <1>7
<1>8. CASE \/ ClassifyNothing(p) \/ RechunkDone(p) \/ Finish(p) \/ FinishFull(p) \/ Fails(p)
           \/ \E good, wrote : RunParsers(p, good, wrote)
           \/ \E d \in Docs : RechunkWrite(p, d)
  BY <1>7, <1>8 DEF ClassifyNothing, RechunkDone, Finish, FinishFull, Fails, RunParsers, RechunkWrite, state
<1>9. CASE pc[p] \in LockPCs
  BY <1>1, <1>4, <1>5, <1>6, <1>8, <1>9
  DEF Acts, Step, Select, TakeLock, LockBusy, ApplyDelta, EmbedSkips, EmbedReads, Embeds, ReplaceDeletes,
      UpsertBatch, UpsertLast, RecordIndexed, EmbedDone, ReadOps, ApplyOp, CompleteOp, OpsDone,
      MarkConsumed, Prune, Checkpoint, LockPCs, ParsePCs
<1> QED BY <1>3, <1>9

LEMMA EmbedListsNext == ASSUME NEW m, SoleWriter(m), IInv(m), [Next]_vars PROVE EmbedLists(m)'
<1> DEFINE WithChunks == {"embed", "replace", "upsert", "indexed"}
<1>0. StoreType /\ RunsType /\ EmbedLists(m) /\ ParseLists /\ m \in Procs
  BY DEF IInv, SoleWriter
<1>00. \A d \in Docs : row[d] \in Row
  BY <1>0 DEF StoreType
<1>000. toParse[m] \subseteq Docs /\ toChunk[m] \subseteq Docs /\ toEmbed[m] \subseteq Docs
        /\ Picked(sel[m]) \subseteq Docs
  BY <1>0 DEF RunsType, Picked
\* The lists are the same, and no row is worse.
<1>1. ASSUME Same(m), \A d \in Docs : Unindexed(d) => Unindexed(d)' PROVE EmbedLists(m)'
  <2>1. Picked(sel'[m]) = Picked(sel[m])
    BY <1>1 DEF Same
  <2> QED BY <1>0, <1>000, <1>1, <2>1 DEF Same, EmbedLists, Picked
<1>2. ASSUME Environment PROVE EmbedLists(m)'
  <2>1. row' = row /\ UNCHANGED runs
    BY <1>2 DEF Environment, Publish, LoseParquet, Configure, state, vars
  <2> QED BY <1>1, <2>1 DEF Same, Unindexed, runs, work
<1>3. ASSUME NEW p \in Procs \ {m}, Acts(p) PROVE EmbedLists(m)'
  <2>1. Same(m)
    BY <1>0, <1>3, OthersSame
  <2>2. \A d \in Docs : Unindexed(d) => Unindexed(d)'
    BY <1>3, HelperActs DEF Unindexed
  <2> QED BY <1>1, <2>1, <2>2
<1>4. ASSUME NEW c \in Commands[m], Select(m, c) PROVE EmbedLists(m)'
  <2>1. c # "embed_force" /\ pc'[m] = "locking" /\ cmd'[m] = c /\ sel'[m] = Selection(c) /\ row' = row
    BY <1>0, <1>4 DEF Select, RunsType, SoleWriter, state
  <2>2. c = "embed" => \A d \in Picked(Selection(c)) : Unindexed(d)
    BY DEF Selection, Picked, Active, Unindexed, FullCommands, ParseOnly, EmbedCommands
  <2> QED BY <2>1, <2>2 DEF EmbedLists, Listing, Picked, Unindexed
<1>5. ASSUME TakeLock(m) PROVE EmbedLists(m)'
  <2>1. /\ pc[m] = "locking" /\ pc'[m] \in {"batch", "embed", "classify"} /\ cmd' = cmd /\ row' = row
        /\ pc'[m] = "embed" => cmd[m] \in EmbedCommands /\ toEmbed'[m] = Picked(sel[m])
    BY <1>0, <1>5 DEF TakeLock, Goto, RunsType, state
  <2>2. pc'[m] = "embed" => \A d \in toEmbed'[m] : Unindexed(d)
    BY <1>0, <2>1 DEF EmbedLists, EmbedCommands
  <2> QED BY <1>0, <2>1, <2>2 DEF EmbedLists, Listing, Unindexed
<1>6. ASSUME Classify(m) PROVE EmbedLists(m)'
  <2>1. /\ pc'[m] = "parse" /\ cmd' = cmd
        /\ toParse'[m] \subseteq Docs /\ toChunk'[m] \subseteq Docs /\ toEmbed'[m] \subseteq Docs
    BY <1>0, <1>6 DEF Classify, Goto, RunsType, Picked
  <2>2. \A d \in toEmbed'[m] : d \notin toParse'[m] /\ d \notin toChunk'[m]
    BY <1>0, <1>6, ClassifyRows
  <2>3. \A d \in toEmbed'[m] : row'[d].st = "ready" /\ row'[d].index # "ready"
    BY <1>0, <1>6, <2>1, <2>2, ClassifyRows
  <2>4. \A d \in toParse'[m] \cup toChunk'[m] : row'[d].st = "ready" /\ row'[d].index = "stale"
    BY <1>0, <1>6, ClassifyRows
  <2> QED BY <1>0, <2>1, <2>3, <2>4 DEF EmbedLists, Listing, Unindexed
<1>7. ASSUME NEW good, NEW wrote, RunParsers(m, good, wrote) PROVE EmbedLists(m)'
  <2>1. /\ pc[m] = "parse" /\ pc'[m] = "record" /\ row' = row
        /\ UNCHANGED <<cmd, toParse, toChunk, toEmbed>>
    BY <1>0, <1>7 DEF RunParsers, Goto, RunsType, state
  <2> QED BY <1>0, <2>1 DEF EmbedLists, Listing, Unindexed
<1>8. ASSUME RecordParses(m) PROVE EmbedLists(m)'
  <2>1. /\ pc[m] = "record" /\ pc'[m] = "rechunk" /\ UNCHANGED <<cmd, toChunk>>
        /\ toEmbed'[m] = toEmbed[m] \cup ok[m] /\ ok[m] \subseteq toParse[m]
    BY <1>0, <1>8 DEF RecordParses, Goto, RunsType, ParseLists, ParseList
  <2>2. \A d \in Docs : row'[d].index = row[d].index /\ row'[d].st = row[d].st
    BY <1>0, <1>8, RecordedRows
  <2> QED BY <1>0, <1>000, <2>1, <2>2 DEF EmbedLists, Listing, Unindexed
<1>9. ASSUME NEW d \in Docs, RechunkWrite(m, d) \/ RechunkRecord(m, d) \/ RechunkFails(m, d)
      PROVE  EmbedLists(m)'
  <2>1. /\ pc[m] \in {"rechunk", "rechunked"} /\ pc'[m] \in {"rechunk", "rechunked"} /\ cmd' = cmd
        /\ toChunk'[m] \subseteq toChunk[m] /\ toEmbed'[m] \subseteq toEmbed[m] \cup toChunk[m]
    BY <1>0, <1>9 DEF RechunkWrite, RechunkRecord, RechunkFails, First, Goto, RunsType, work
  <2>2. \A e \in Docs : row'[e].index = row[e].index /\ row'[e].st = row[e].st
    BY <1>0, <1>9, RechunkRows DEF RechunkWrite, state
  <2> QED BY <1>0, <1>000, <2>1, <2>2 DEF EmbedLists, Listing, Unindexed
<1>10. ASSUME pc[m] \in {"rechunk"} \cup WithChunks, pc'[m] \in {"done", "ops"} \cup WithChunks,
              cmd' = cmd, toEmbed'[m] \subseteq toEmbed[m],
              \A d \in toEmbed'[m] : row'[d] = row[d]
       PROVE  EmbedLists(m)'
  BY <1>0, <1>10 DEF EmbedLists, Listing, Unindexed
<1>11. ASSUME RechunkDone(m) \/ EmbedDone(m) PROVE EmbedLists(m)'
  BY <1>0, <1>10, <1>11 DEF RechunkDone, EmbedDone, Goto, RunsType, state, work
<1>12. ASSUME NEW d \in Docs, EmbedSkips(m, d) \/ EmbedReads(m, d) PROVE EmbedLists(m)'
  BY <1>0, <1>10, <1>12 DEF EmbedSkips, EmbedReads, Embeds, Goto, RunsType, state
<1>13. ASSUME NEW d \in Docs, ReplaceDeletes(m, d) \/ UpsertBatch(m, d) \/ UpsertLast(m, d)
       PROVE  EmbedLists(m)'
  BY <1>0, <1>10, <1>13 DEF ReplaceDeletes, UpsertBatch, UpsertLast, Goto, RunsType, state, runs, work
<1>14. ASSUME NEW d \in Docs, RecordIndexed(m, d) PROVE EmbedLists(m)'
  <2>1. /\ pc[m] = "indexed" /\ pc'[m] = "embed" /\ cmd' = cmd /\ toEmbed'[m] = toEmbed[m] \ {d}
        /\ \A e \in Docs \ {d} : row'[e] = row[e]
    BY <1>0, <1>14 DEF RecordIndexed, Goto, RunsType, StoreType
  <2> QED BY <1>000, <1>10, <2>1
<1>15. ASSUME pc'[m] \notin Listing \cup WithChunks \cup {"locking"}, cmd'[m] # "embed_force"
       PROVE  EmbedLists(m)'
  BY <1>15 DEF EmbedLists, Listing
<1>16. ASSUME \/ ApplyDelta(m) \/ ClassifyNothing(m) \/ ReadOps(m) \/ OpsDone(m) \/ MarkConsumed(m)
              \/ FinishFull(m) \/ Prune(m) \/ Ends(m)
              \/ \E d \in Docs : ApplyOp(m, d) \/ CompleteOp(m, d)
       PROVE  EmbedLists(m)'
  <2>1. cmd[m] # "embed_force"
    BY <1>0 DEF EmbedLists
  <2> QED
    BY <1>0, <1>15, <1>16, <2>1 DEF ApplyDelta, ClassifyNothing, ReadOps, OpsDone, MarkConsumed, FinishFull,
       Prune, Ends, ApplyOp, CompleteOp, Goto, RunsType, Listing
<1> HIDE DEF WithChunks
<1>17. ASSUME Acts(m) PROVE EmbedLists(m)'
  BY <1>4, <1>5, <1>6, <1>7, <1>8, <1>9, <1>11, <1>12, <1>13, <1>14, <1>16, <1>17
  DEF Acts, Step, LockBusy, Finish, Checkpoint, Fails
<1> QED BY <1>2, <1>3, <1>17, NextSplits

LEMMA WritesNext == ASSUME NEW m, SoleWriter(m), IInv(m), [Next]_vars PROVE Writes(m)'
<1>0. StoreType /\ RunsType /\ Artifacts /\ Writes(m) /\ m \in Procs
  BY DEF IInv, SoleWriter
<1>00. toEmbed[m] \in SUBSET Docs
  BY <1>0 DEF RunsType
<1>1. ASSUME Environment PROVE Writes(m)'
  <2>1. row' = row /\ points' = points /\ UNCHANGED runs
    BY <1>1 DEF Environment, Publish, LoseParquet, Configure, state, vars
  <2> QED BY <1>0, <2>1 DEF Writes, First, runs, work
<1>2. ASSUME NEW p \in Procs \ {m}, Acts(p) PROVE Writes(m)'
  <2>1. /\ pc'[m] = pc[m] /\ toEmbed'[m] = toEmbed[m] /\ vec'[m] = vec[m] /\ ops'[m] = ops[m]
    BY <1>0, <1>2, OthersSame DEF Same
  <2>2. points' = points /\ (pc[m] \in LockPCs => row' = row)
        /\ \A d \in Docs : row'[d].index = "ready" => row[d].index = "ready"
    BY <1>2, HelperActs
  <2>3. pc[m] \in {"replace", "upsert", "indexed"} => row' = row
    BY <2>2 DEF LockPCs
  <2> QED BY <1>0, <2>1, <2>2, <2>3 DEF Writes, First
<1>3. ASSUME NEW d \in Docs, EmbedReads(m, d) PROVE Writes(m)'
  <2>1. /\ pc'[m] = "replace" /\ toEmbed' = toEmbed /\ row' = row /\ vec'[m] = parquet[d]
        /\ First(toEmbed[m], d) /\ row[d].chunk = "ready" /\ parquet[d] # NoChunks
    BY <1>0, <1>3 DEF EmbedReads, Embeds, Goto, RunsType, state
  <2>2. parquet[d].full /\ parquet[d].c = row[d].c /\ parquet[d].k = row[d].cfp.k
    BY <1>0, <2>1 DEF Artifacts
  <2>3. \A e \in Docs : First(toEmbed[m], e) => e = d
    BY <1>00, <2>1, FirstIsOne
  <2> QED BY <2>1, <2>2, <2>3 DEF Writes, First
<1>4. ASSUME NEW d \in Docs, ReplaceDeletes(m, d) \/ UpsertBatch(m, d) PROVE Writes(m)'
  <2>1. /\ pc[m] \in {"replace", "upsert"} /\ pc'[m] = "upsert"
        /\ toEmbed' = toEmbed /\ row' = row /\ vec' = vec
    BY <1>0, <1>4 DEF ReplaceDeletes, UpsertBatch, Goto, RunsType, state, runs, work
  <2> QED BY <1>0, <2>1 DEF Writes, First
<1>5. ASSUME NEW d \in Docs, UpsertLast(m, d) PROVE Writes(m)'
  <2>1. /\ pc[m] = "upsert" /\ pc'[m] = "indexed" /\ First(toEmbed[m], d)
        /\ toEmbed' = toEmbed /\ row' = row /\ vec' = vec /\ points'[d] = vec[m]
    BY <1>0, <1>5 DEF UpsertLast, Goto, RunsType, StoreType, state, work
  <2>2. \A e \in Docs : First(toEmbed[m], e) => e = d
    BY <1>00, <2>1, FirstIsOne
  <2> QED BY <1>0, <2>1, <2>2 DEF Writes, First
<1>6. ASSUME ReadOps(m) PROVE Writes(m)'
  <2>1. /\ pc'[m] = "apply" /\ row' = row
        /\ ops'[m] = {<<d, op[d]>> : d \in {x \in Docs : op[x] \in {"delete", "payload"}}}
    BY <1>0, <1>6 DEF ReadOps, Goto, RunsType, state
  <2>2. \A d \in Docs : <<d, "delete">> \in ops'[m] => op[d] = "delete"
    BY <2>1
  <2> QED BY <1>0, <2>1, <2>2 DEF Writes, Artifacts
<1>7. ASSUME NEW d \in Docs, ApplyOp(m, d) \/ CompleteOp(m, d) PROVE Writes(m)'
  <2>1. /\ pc[m] \in {"apply", "complete"} /\ pc'[m] \in {"apply", "complete"} /\ row' = row
        /\ ops'[m] \subseteq ops[m]
    BY <1>0, <1>7 DEF ApplyOp, CompleteOp, Goto, RunsType, state, work
  <2> QED BY <1>0, <2>1 DEF Writes
<1>8. ASSUME pc'[m] \notin {"replace", "upsert", "indexed", "apply", "complete"} PROVE Writes(m)'
  BY <1>8 DEF Writes
<1>9. ASSUME \/ TakeLock(m) \/ ApplyDelta(m) \/ Classify(m) \/ ClassifyNothing(m) \/ RecordParses(m)
             \/ RechunkDone(m) \/ EmbedDone(m) \/ OpsDone(m) \/ MarkConsumed(m) \/ FinishFull(m) \/ Prune(m)
             \/ Ends(m) \/ (\E c \in Commands[m] : Select(m, c))
             \/ (\E good, wrote : RunParsers(m, good, wrote))
      PROVE  Writes(m)'
  BY <1>0, <1>8, <1>9 DEF TakeLock, ApplyDelta, Classify, ClassifyNothing, RecordParses, RechunkDone,
     EmbedDone, OpsDone, MarkConsumed, FinishFull, Prune, Ends, Select, RunParsers, Goto, RunsType
<1>10. ASSUME NEW d \in Docs, \/ RechunkWrite(m, d) \/ RechunkRecord(m, d) \/ RechunkFails(m, d)
                              \/ EmbedSkips(m, d) \/ RecordIndexed(m, d)
       PROVE  Writes(m)'
  BY <1>0, <1>8, <1>10 DEF RechunkWrite, RechunkRecord, RechunkFails, EmbedSkips, Embeds, RecordIndexed,
     Goto, RunsType
<1>11. ASSUME Acts(m) PROVE Writes(m)'
  BY <1>3, <1>4, <1>5, <1>6, <1>7, <1>9, <1>10, <1>11 DEF Acts, Step, LockBusy, Finish, Checkpoint, Fails
<1> QED BY <1>1, <1>2, <1>11, NextSplits

---------------------------------------------------------------------------

LEMMA InitInv == ASSUME NEW m, SoleWriter(m), Init PROVE IInv(m)
<1>1. StoreType
  BY ConstantTypes DEF Init, StoreType, Ops
<1>2. RunsType
  BY ConstantTypes DEF Init, RunsType
<1>3. DeltasListed /\ LockHeld /\ Helpers(m)
  BY DEF Init, DeltasListed, LockHeld, LockPCs, ParsePCs, Helpers
<1>4. Artifacts /\ ReadyIsIndexed
  BY DEF Init, Artifacts, ReadyIsIndexed, NoRow
<1>5. ParseLists
  BY DEF Init, ParseLists, ParseList, Listing
<1>6. EmbedLists(m) /\ Writes(m)
  BY DEF Init, EmbedLists, Writes, Listing, SoleWriter
<1> QED BY <1>1, <1>2, <1>3, <1>4, <1>5, <1>6 DEF IInv

LEMMA InvNext == ASSUME NEW m, SoleWriter(m), IInv(m), [Next]_vars PROVE IInv(m)'
<1>1. StoreType' /\ RunsType' /\ DeltasListed' /\ LockHeld' /\ Helpers(m)'
  BY StoreNext, RunsNext, DeltasNext, LockNext, HelpersNext DEF IInv
<1>2. Artifacts' /\ ReadyIsIndexed' /\ ParseLists' /\ EmbedLists(m)' /\ Writes(m)'
  BY ArtifactsNext, ReadyNext, ListsNext, EmbedListsNext, WritesNext
<1> QED BY <1>1, <1>2 DEF IInv

\* As long as one process issues the commands that write to the collection and
\* nobody forces an embedding, a document whose index stages are "ready" is in the
\* collection, whole, with the content and the chunks of its row: whatever fails,
\* whenever the source publishes, and whichever other processes parse.
THEOREM ReadyStaysIndexed ==
  ASSUME NEW m, SoleWriter(m) PROVE Spec => []ReadyIsIndexed
<1>1. IInv(m) => ReadyIsIndexed
  BY DEF IInv
<1> QED BY <1>1, InitInv, InvNext, PTL DEF Spec

---------------------------------------------------------------------------
(* The artifacts, while the source stands still.                           *)

FromSnapshot == FullCommands \cup ParseOnly

SnapshotHeld == \A p \in Procs : cmd[p] \in FromSnapshot => sel[p] = snapshot
PruneSelects == \A p \in Procs : pc[p] = "prune" => cmd[p] \in FullCommands
ChunkList(p) ==
  pc[p] \in Listing =>
    \A d \in toChunk[p] : sel[p][d] # Absent /\ row[d].parse = "ready" /\ row[d].pfp = row[d].c
ParsesKept == \A d \in Docs : row[d].chunk = "ready" => row[d].parse = "ready" /\ row[d].pfp = row[d].c

ArtifactInv == SnapshotHeld /\ PruneSelects /\ (\A p \in Procs : ChunkList(p)) /\ ParsesKept

LEMMA SnapshotNext ==
  ASSUME ~SourceMoves, RunsType, DeltasListed, SnapshotHeld, PruneSelects, [Next]_vars
  PROVE  SnapshotHeld' /\ PruneSelects'
<1>1. ASSUME Environment PROVE SnapshotHeld' /\ PruneSelects'
  <2>1. UNCHANGED <<pc, cmd, sel>> /\ (snapshot' = snapshot \/ ~SnapshotInUse)
    BY <1>1 DEF Environment, Publish, LoseParquet, Configure, source, runs, vars
  <2> QED BY <2>1 DEF SnapshotHeld, PruneSelects, SnapshotInUse, FromSnapshot
<1>2. ASSUME NEW p \in Procs, Acts(p) PROVE SnapshotHeld' /\ PruneSelects'
  <2>1. \A q \in Procs \ {p} : Same(q)
    BY <1>2, OthersSame
  <2>2. snapshot' = snapshot
    BY <1>2 DEF Acts, Step, Select, TakeLock, LockBusy, ApplyDelta, Classify, ClassifyNothing,
       RunParsers, RecordParses, RechunkWrite, RechunkRecord, RechunkFails, RechunkDone, EmbedSkips,
       EmbedReads, ReplaceDeletes, UpsertBatch, UpsertLast, RecordIndexed, EmbedDone, ReadOps,
       ApplyOp, CompleteOp, OpsDone, MarkConsumed, Finish, FinishFull, Prune, Checkpoint, Fails, source
  <2>3. \/ cmd'[p] \notin FromSnapshot \/ sel'[p] = snapshot
        \/ cmd'[p] = cmd[p] /\ sel'[p] = sel[p]
    <3>1. CASE Ends(p)
      BY <3>1 DEF Ends, RunsType, FromSnapshot, FullCommands, ParseOnly
    <3>2. CASE \E c \in Commands[p] : Select(p, c)
      BY <3>2 DEF Select, Selection, RunsType, FromSnapshot, FullCommands, ParseOnly, EmbedCommands
    <3>3. CASE ApplyDelta(p)
      BY <3>3 DEF ApplyDelta, DeltasListed, FromSnapshot, FullCommands, ParseOnly
    <3>4. CASE UNCHANGED <<cmd, sel>>
      BY <3>4
    <3> QED
      BY <1>2, <3>1, <3>2, <3>3, <3>4
      DEF Acts, Step, TakeLock, LockBusy, Classify, ClassifyNothing,
          RunParsers, RecordParses, RechunkWrite, RechunkRecord, RechunkFails, RechunkDone, EmbedSkips,
          EmbedReads, ReplaceDeletes, UpsertBatch, UpsertLast, RecordIndexed, EmbedDone, ReadOps,
          ApplyOp, CompleteOp, OpsDone, MarkConsumed, Finish, FinishFull, Prune, Checkpoint, Fails, runs
  <2>4. pc'[p] = "prune" => cmd'[p] \in FullCommands
    <3>1. CASE FinishFull(p)
      BY <3>1 DEF FinishFull
    <3>2. CASE pc'[p] # "prune"
      BY <3>2
    <3>3. CASE ~FinishFull(p)
      <4>1. CASE Ends(p) \/ \E c \in Commands[p] : Select(p, c)
        BY <3>2, <4>1 DEF Ends, Select, RunsType
      <4>2. CASE \E d \in Docs : EmbedSkips(p, d) \/ UpsertBatch(p, d)
        BY <3>2, <4>2 DEF EmbedSkips, Embeds, UpsertBatch, runs
      <4>3. ASSUME NEW there, Goto(p, there), there # "prune" PROVE pc'[p] # "prune"
        BY <4>3 DEF Goto, RunsType
      <4>4. CASE \/ TakeLock(p) \/ ApplyDelta(p) \/ Classify(p) \/ ClassifyNothing(p) \/ RecordParses(p)
                 \/ RechunkDone(p) \/ EmbedDone(p) \/ ReadOps(p) \/ OpsDone(p) \/ MarkConsumed(p)
                 \/ Prune(p) \/ (\E good, wrote : RunParsers(p, good, wrote))
        BY <3>2, <4>3, <4>4 DEF TakeLock, ApplyDelta, Classify, ClassifyNothing, RecordParses, RechunkDone,
           EmbedDone, ReadOps, OpsDone, MarkConsumed, Prune, RunParsers
      <4>5. CASE \E d \in Docs : \/ RechunkWrite(p, d) \/ RechunkRecord(p, d) \/ RechunkFails(p, d)
                                 \/ EmbedReads(p, d) \/ ReplaceDeletes(p, d) \/ UpsertLast(p, d)
                                 \/ RecordIndexed(p, d) \/ ApplyOp(p, d) \/ CompleteOp(p, d)
        BY <3>2, <4>3, <4>5 DEF RechunkWrite, RechunkRecord, RechunkFails, EmbedReads, ReplaceDeletes,
           UpsertLast, RecordIndexed, ApplyOp, CompleteOp
      <4> QED
        BY <1>2, <3>3, <4>1, <4>2, <4>4, <4>5 DEF Acts, Step, LockBusy, Finish, Checkpoint, Fails
    <3> QED BY <3>1, <3>3
  <2> QED BY <2>1, <2>2, <2>3, <2>4 DEF SnapshotHeld, PruneSelects, Same
<1> QED BY <1>1, <1>2, NextSplits

\* A prune leaves alone the documents another process has selected to parse.
LEMMA PruneSpares ==
  ASSUME NEW m, SoleWriter(m), IInv(m), SnapshotHeld, PruneSelects,
         NEW p \in Procs, Prune(p), NEW q \in Procs \ {p}, pc[q] # "idle",
         NEW d \in Docs, sel[q][d] # Absent
  PROVE  row'[d] = row[d]
<1>1. p = m /\ cmd[p] \in FullCommands
  BY OnlyWriter DEF IInv, Prune, ParsePCs, PruneSelects
<1>2. cmd[q] \in ParseOnly
  BY <1>1 DEF IInv, Helpers
<1>3. sel[p] = sel[q]
  BY <1>1, <1>2 DEF SnapshotHeld, FromSnapshot
<1> QED BY <1>3 DEF Prune, Picked

LEMMA ChunkListsNext ==
  ASSUME NEW m, SoleWriter(m), IInv(m), ArtifactInv, [Next]_vars
  PROVE  \A p \in Procs : ChunkList(p)'
<1>0. /\ StoreType /\ RunsType /\ LockHeld /\ ParseLists /\ SnapshotHeld /\ PruneSelects
      /\ \A q \in Procs : ChunkList(q) /\ ParseList(q) /\ toChunk[q] \subseteq Docs
  BY DEF IInv, ArtifactInv, ParseLists, RunsType
<1>1. ASSUME Environment, NEW q \in Procs PROVE ChunkList(q)'
  <2>1. row' = row /\ UNCHANGED runs
    BY <1>1 DEF Environment, Publish, LoseParquet, Configure, state, vars
  <2> QED BY <1>0, <2>1 DEF ChunkList, runs, work
<1>2. ASSUME NEW p \in Procs, Acts(p), NEW q \in Procs \ {p} PROVE ChunkList(q)'
  <2>1. pc'[q] = pc[q] /\ toChunk'[q] = toChunk[q] /\ sel'[q] = sel[q]
    BY <1>0, <1>2, OthersSame DEF Same
  <2>2. CASE pc[q] \notin Listing
    BY <2>1, <2>2 DEF ChunkList
  <2>3. CASE pc[q] \in Listing
    <3>1. pc[p] \notin LockPCs
      BY <1>0, <1>2, <2>3, OneHolder DEF Listing, LockPCs, ParsePCs
    <3>2. \A d \in toChunk[q] : row'[d] = row[d]
      <4>1. CASE pc[p] = "prune"
        <5>1. Prune(p) \/ row' = row
          BY <1>2, <4>1 DEF Acts, Step, Select, TakeLock, LockBusy, ApplyDelta, Classify, ClassifyNothing,
             RunParsers, RecordParses, RechunkWrite, RechunkRecord, RechunkFails, RechunkDone, EmbedSkips,
             EmbedReads, Embeds, ReplaceDeletes, UpsertBatch, UpsertLast, RecordIndexed, EmbedDone, ReadOps,
             ApplyOp, CompleteOp, OpsDone, MarkConsumed, Finish, FinishFull, Checkpoint, Fails, state
        <5>2. pc[q] # "idle" /\ \A d \in toChunk[q] : sel[q][d] # Absent
          BY <1>0, <2>3 DEF ChunkList, Listing
        <5> QED BY <1>0, <1>2, <5>1, <5>2, PruneSpares
      <4>2. CASE pc[p] # "prune"
        BY <1>0, <1>2, <3>1, <4>2, RowsLocked
      <4> QED BY <4>1, <4>2
    <3> QED BY <1>0, <2>1, <2>3, <3>2 DEF ChunkList
  <2> QED BY <2>2, <2>3
<1>3. ASSUME NEW p \in Procs, pc'[p] \notin Listing PROVE ChunkList(p)'
  BY <1>3 DEF ChunkList
<1>4. ASSUME NEW p \in Procs, Classify(p) PROVE ChunkList(p)'
  <2>1. sel' = sel /\ toChunk'[p] \subseteq Picked(sel[p])
    BY <1>0, <1>4 DEF Classify, RunsType
  <2> QED BY <1>0, <1>4, <2>1, ClassifyRows DEF ChunkList, Picked
<1>5. ASSUME NEW p \in Procs, sel' = sel, pc[p] \in Listing, toChunk'[p] \subseteq toChunk[p],
             \A d \in toChunk'[p] : row'[d] = row[d]
      PROVE  ChunkList(p)'
  BY <1>0, <1>5 DEF ChunkList
<1>6. ASSUME NEW p \in Procs, NEW good, NEW wrote, RunParsers(p, good, wrote) PROVE ChunkList(p)'
  BY <1>5, <1>6 DEF RunParsers, state, Listing
<1>7. ASSUME NEW p \in Procs, RecordParses(p) PROVE ChunkList(p)'
  <2>1. pc[p] = "record" /\ sel' = sel /\ toChunk' = toChunk /\ ok[p] \subseteq toParse[p]
    BY <1>0, <1>7 DEF RecordParses, ParseList
  <2>2. \A d \in toChunk[p] : d \in Docs /\ d \notin toParse[p] /\ row'[d] = row[d]
    BY <1>0, <1>7, <2>1 DEF RecordParses, ParseList
  <2> QED BY <1>5, <2>1, <2>2 DEF Listing
<1>8. ASSUME NEW p \in Procs, NEW d \in Docs, RechunkWrite(p, d) PROVE ChunkList(p)'
  BY <1>5, <1>8 DEF RechunkWrite, state, work, Listing
<1>9. ASSUME NEW p \in Procs, NEW d \in Docs, RechunkRecord(p, d) \/ RechunkFails(p, d) PROVE ChunkList(p)'
  <2>1. pc[p] \in Listing /\ sel' = sel /\ toChunk'[p] = toChunk[p] \ {d}
    BY <1>0, <1>9 DEF RechunkRecord, RechunkFails, RunsType, Listing
  <2>2. \A e \in Docs \ {d} : row'[e] = row[e]
    BY <1>0, <1>9 DEF RechunkRecord, RechunkFails, StoreType
  <2> QED BY <1>0, <1>5, <2>1, <2>2
<1>10. ASSUME NEW p \in Procs, NEW d \in Docs,
              \/ EmbedSkips(p, d) \/ EmbedReads(p, d) \/ ReplaceDeletes(p, d) \/ UpsertBatch(p, d)
              \/ UpsertLast(p, d) \/ RecordIndexed(p, d) \/ ApplyOp(p, d) \/ CompleteOp(p, d)
       PROVE  pc'[p] \notin Listing
  BY <1>0, <1>10 DEF EmbedSkips, Embeds, UpsertBatch, EmbedReads, ReplaceDeletes, UpsertLast,
     RecordIndexed, ApplyOp, CompleteOp, Goto, RunsType, runs, Listing
<1>11. ASSUME NEW p \in Procs,
              \/ TakeLock(p) \/ ApplyDelta(p) \/ ClassifyNothing(p) \/ RechunkDone(p) \/ EmbedDone(p)
              \/ ReadOps(p) \/ OpsDone(p) \/ MarkConsumed(p) \/ FinishFull(p) \/ Prune(p)
              \/ Ends(p) \/ (\E c \in Commands[p] : Select(p, c))
       PROVE  pc'[p] \notin Listing
  BY <1>0, <1>11 DEF TakeLock, ApplyDelta, ClassifyNothing, RechunkDone, EmbedDone, ReadOps, OpsDone,
     MarkConsumed, FinishFull, Prune, Ends, Select, Goto, RunsType, Listing
<1>12. ASSUME NEW p \in Procs, Acts(p) PROVE ChunkList(p)'
  BY <1>3, <1>4, <1>6, <1>7, <1>8, <1>9, <1>10, <1>11, <1>12
  DEF Acts, Step, LockBusy, Finish, Checkpoint, Fails
<1> QED BY <1>1, <1>2, <1>12, NextSplits

LEMMA ParsesKeptNext ==
  ASSUME NEW m, SoleWriter(m), IInv(m), ArtifactInv, [Next]_vars PROVE ParsesKept'
<1>0. /\ StoreType /\ RunsType /\ ParsesKept
      /\ \A q \in Procs : ChunkList(q) /\ ParseList(q) /\ toParse[q] \subseteq Docs
  BY DEF IInv, ArtifactInv, ParseLists, RunsType
<1>00. \A d \in Docs : row[d] \in Row
  BY <1>0 DEF StoreType
<1>1. ASSUME NEW p \in Procs, ApplyDelta(p) \/ Prune(p) PROVE ParsesKept'
  <2>1. \A d \in Docs : row'[d] = row[d] \/ row'[d] = Unavailable(row[d])
    BY <1>0, <1>1 DEF ApplyDelta, Prune, StoreType
  <2> QED BY <1>0, <1>00, <2>1, UnavailableRow DEF ParsesKept
<1>2. ASSUME NEW p \in Procs, Classify(p) PROVE ParsesKept'
  BY <1>0, <1>2, ClassifyRows DEF ParsesKept
<1>3. ASSUME NEW p \in Procs, RecordParses(p) PROVE ParsesKept'
  <2>1. pc[p] = "record" /\ ok[p] \subseteq toParse[p]
    BY <1>0, <1>3 DEF RecordParses, ParseList
  <2>2. \A d \in Docs : d \notin toParse[p] => row'[d] = row[d]
    BY <1>0, <1>3, <2>1, RecordedRows
  <2>3. ASSUME NEW d \in toParse[p], d \notin ok[p] PROVE row'[d].chunk # "ready"
    <3>1. d \in Docs /\ row[d].chunk # "ready"
      BY <1>0, <2>1 DEF ParseList, Unfinished
    <3> QED BY <1>0, <1>3, <2>3, <3>1, RecordedRows
  <2>4. ASSUME NEW d \in ok[p]
        PROVE  row'[d].parse = "ready" /\ row'[d].pfp = sel[p][d].c /\ row'[d].c = row[d].c
    BY <1>0, <1>3, <2>1, RecordedRows
  <2>5. \A d \in ok[p] : row[d].c = sel[p][d].c
    BY <1>0, <2>1 DEF ParseList
  <2> QED BY <1>0, <2>2, <2>3, <2>4, <2>5 DEF ParsesKept
<1>4. ASSUME NEW p \in Procs, NEW d \in Docs, RechunkRecord(p, d) \/ RechunkFails(p, d) PROVE ParsesKept'
  <2>1. row[d].parse = "ready" /\ row[d].pfp = row[d].c
    BY <1>0, <1>4 DEF RechunkRecord, RechunkFails, First, ChunkList, Listing
  <2>2. /\ \A e \in Docs \ {d} : row'[e] = row[e]
        /\ row'[d].parse = row[d].parse /\ row'[d].pfp = row[d].pfp /\ row'[d].c = row[d].c
    BY <1>0, <1>00, <1>4 DEF RechunkRecord, RechunkFails, StoreType, Row
  <2> QED BY <1>0, <2>1, <2>2 DEF ParsesKept
<1>5. ASSUME NEW p \in Procs, NEW d \in Docs, RecordIndexed(p, d) PROVE ParsesKept'
  <2>1. /\ \A e \in Docs \ {d} : row'[e] = row[e]
        /\ row'[d].parse = row[d].parse /\ row'[d].pfp = row[d].pfp /\ row'[d].c = row[d].c
        /\ row'[d].chunk = row[d].chunk
    BY <1>0, <1>00, <1>5 DEF RecordIndexed, StoreType, Row
  <2> QED BY <1>0, <2>1 DEF ParsesKept
<1>6. CASE row' = row
  BY <1>0, <1>6 DEF ParsesKept
<1>7. ASSUME NEW p \in Procs,
             \/ TakeLock(p) \/ LockBusy(p) \/ ClassifyNothing(p) \/ RechunkDone(p) \/ EmbedDone(p)
             \/ ReadOps(p) \/ OpsDone(p) \/ MarkConsumed(p) \/ Finish(p) \/ FinishFull(p)
             \/ Checkpoint(p) \/ Fails(p) \/ (\E c \in Commands[p] : Select(p, c))
             \/ (\E good, wrote : RunParsers(p, good, wrote))
      PROVE  row' = row
  BY <1>7 DEF TakeLock, LockBusy, ClassifyNothing, RechunkDone, EmbedDone, ReadOps, OpsDone,
     MarkConsumed, Finish, FinishFull, Checkpoint, Fails, Select, RunParsers, state
<1>8. ASSUME NEW p \in Procs, NEW d \in Docs,
             \/ RechunkWrite(p, d) \/ EmbedSkips(p, d) \/ EmbedReads(p, d) \/ ReplaceDeletes(p, d)
             \/ UpsertBatch(p, d) \/ UpsertLast(p, d) \/ ApplyOp(p, d) \/ CompleteOp(p, d)
      PROVE  row' = row
  BY <1>8 DEF RechunkWrite, EmbedSkips, EmbedReads, ReplaceDeletes, UpsertBatch, UpsertLast, ApplyOp,
     CompleteOp, state
<1>9. ASSUME Environment PROVE row' = row
  BY <1>9 DEF Environment, Publish, LoseParquet, Configure, state, vars
<1> QED BY <1>1, <1>2, <1>3, <1>4, <1>5, <1>6, <1>7, <1>8, <1>9, NextSplits DEF Acts, Step

\* If the source does not publish while a command has its snapshot, what a row
\* calls ready is on disk, cut from the parse of the row's content: although
\* the parsers and the chunker write outside the transactions, and a reconcile
\* prunes after it has released the lock.
THEOREM ArtifactsMatch ==
  ASSUME NEW m, SoleWriter(m), ~SourceMoves PROVE Spec => []ArtifactMatchesState
<1>1. Init => IInv(m) /\ ArtifactInv
  <2>1. Init => ArtifactInv
    BY DEF Init, ArtifactInv, SnapshotHeld, FromSnapshot, FullCommands, ParseOnly, PruneSelects, ChunkList,
       Listing, ParsesKept, NoRow
  <2> QED BY <2>1, InitInv
<1>2. IInv(m) /\ ArtifactInv /\ [Next]_vars => (IInv(m) /\ ArtifactInv)'
  <2> SUFFICES ASSUME IInv(m), ArtifactInv, [Next]_vars PROVE (IInv(m) /\ ArtifactInv)'
    OBVIOUS
  <2>1. SnapshotHeld' /\ PruneSelects'
    BY SnapshotNext DEF IInv, ArtifactInv
  <2> QED BY <2>1, InvNext, ChunkListsNext, ParsesKeptNext DEF ArtifactInv
<1>3. IInv(m) /\ ArtifactInv => ArtifactMatchesState
  BY DEF IInv, Artifacts, ArtifactInv, ParsesKept, ArtifactMatchesState
<1> QED BY <1>1, <1>2, <1>3, PTL DEF Spec

---------------------------------------------------------------------------
(* The checkpoint, while the source stands still.                          *)

\* `reconcile` is the full ingest that prunes before it checkpoints.
PrunesFirst(m) == SoleWriter(m) /\ Commands[m] \cap {"full", "full_force"} = {}

Shown(d) == IF row[d].st = "ready" THEN RowValue(d) ELSE Absent
ShownSince(d, v) == \E n \in consumed .. Len(catalog) : ValueAfter(d, n) = v

CatalogInv == consumed <= Len(catalog) /\ \A d \in Docs : snapshot[d] = ValueAfter(d, Len(catalog))

OpPCs == {"ops", "apply", "complete"}
Processed == Listing \cup {"embed", "replace", "upsert", "indexed", "mark"} \cup OpPCs

CommandInv(m) ==
  /\ \A p \in Procs : pc[p] # "idle" => cmd[p] \in Commands[p]
  /\ \A p \in Procs : pc[p] = "classify" => cmd[p] \notin EmbedCommands
  /\ pc[m] \in OpPCs /\ lock # m => cmd[m] = "reconcile"
  /\ pc[m] = "checkpoint" => cmd[m] = "reconcile"

\* An incremental run is at the first delta that is not consumed, and once it
\* has classified the document of the delta, the row shows what the delta says.
Event(m) == catalog[next[m]]
EventInv(m) ==
  cmd[m] = "incremental" =>
    /\ pc[m] \notin {"idle", "done"} => next[m] = consumed + 1
    /\ pc[m] = "classify" =>
         Event(m).val # Absent /\ sel[m] = [Nothing EXCEPT ![Event(m).doc] = Event(m).val]
    /\ pc[m] \in Processed => Shown(Event(m).doc) = Event(m).val

\* What `resume` has read of the rows is not older than the checkpoint.
ResumeInv(m) ==
  cmd[m] = "resume" /\ pc[m] \in {"locking", "classify"} =>
    \A d \in Picked(sel[m]) : ShownSince(d, sel[m][d])

\* The rows after a reconcile has classified them, and after it has pruned.
ReconcileInv(m) ==
  cmd[m] = "reconcile" =>
    /\ pc[m] \notin {"locking", "classify"} => \A d \in Picked(sel[m]) : Shown(d) = sel[m][d]
    /\ pc[m] = "checkpoint" \/ (pc[m] \in OpPCs /\ lock # m) =>
         \A d \in Docs : sel[m][d] = Absent => Shown(d) = Absent

CheckpointInv(m) ==
  /\ CatalogInv /\ ConsumedIsApplied
  /\ CommandInv(m) /\ EventInv(m) /\ ResumeInv(m) /\ ReconcileInv(m)

LEMMA GreatestExists ==
  ASSUME NEW n \in Nat, NEW S \in SUBSET (1 .. n), S # {}
  PROVE  \E x \in S : \A y \in S : y <= x
<1> DEFINE Above(x) == {y \in S : y > x}
           T == {Above(x) : x \in S}
<1>1. T \subseteq FiniteSubsetsOf(S) /\ T # {}
  <2>0. IsFiniteSet(1 .. n) /\ 1 \in Int /\ n \in Int
    BY FS_Interval
  <2>1. IsFiniteSet(S)
    BY <2>0, FS_Subset
  <2>2. \A x \in S : IsFiniteSet(Above(x)) /\ Above(x) \in SUBSET S
    BY <2>1, FS_Subset
  <2> QED BY <2>2 DEF FiniteSubsetsOf
<1>2. PICK t \in T : \A u \in T : <<u, t>> \notin StrictSubsetOrdering(S)
  BY <1>1, FS_StrictSubsetOrderingWellFounded, WFMin
<1>3. PICK x \in S : t = Above(x)
  BY <1>2
<1>4. ASSUME NEW y \in S, y > x PROVE FALSE
  <2>0. S \subseteq Int /\ x \in Int /\ y \in Int
    OBVIOUS
  <2>1. Above(y) \subseteq t /\ Above(y) \in T /\ y \in t /\ y \notin Above(y)
    <3>1. \A z \in S : z > y => z > x
      BY <1>4, <2>0
    <3>2. Above(y) \subseteq t
      BY <1>3, <3>1
    <3>3. y \in t /\ ~(y > y)
      BY <1>3, <1>4, <2>0
    <3> QED BY <3>2, <3>3
  <2>2. <<Above(y), t>> \in StrictSubsetOrdering(S)
    BY <1>3, <2>1 DEF StrictSubsetOrdering
  <2> QED BY <2>1, <2>2, <1>2
<1> QED BY <1>4

\* ValueAfter for any catalog: the last entry about the document.
ValueIn(s, d, n) ==
  LET about == {i \in 1 .. n : s[i].doc = d}
  IN IF about = {} THEN Absent ELSE s[CHOOSE i \in about : \A j \in about : j <= i].val

LEMMA ValueInLast ==
  ASSUME NEW s, NEW d, NEW n \in Nat
  PROVE  ValueIn(s, d, n + 1) = IF s[n + 1].doc = d THEN s[n + 1].val ELSE ValueIn(s, d, n)
<1> DEFINE About(k) == {i \in 1 .. k : s[i].doc = d}
<1>1. CASE s[n + 1].doc = d
  <2>1. n + 1 \in About(n + 1) /\ \A j \in About(n + 1) : j <= n + 1
    BY <1>1
  <2>2. \A i \in About(n + 1) : (\A j \in About(n + 1) : j <= i) => i = n + 1
    BY <2>1
  <2>3. (CHOOSE i \in About(n + 1) : \A j \in About(n + 1) : j <= i) = n + 1
    BY <2>1, <2>2
  <2> QED BY <1>1, <2>1, <2>3 DEF ValueIn
<1>2. CASE s[n + 1].doc # d
  <2>1. About(n + 1) = About(n)
    BY <1>2
  <2>2. ASSUME NEW k PROVE ValueIn(s, d, k) = IF About(k) = {} THEN Absent
              ELSE s[CHOOSE i \in About(k) : \A j \in About(k) : j <= i].val
    BY DEF ValueIn
  <2> HIDE DEF About
  <2>3. ValueIn(s, d, n + 1) = ValueIn(s, d, n)
    BY <2>1, <2>2
  <2> QED BY <1>2, <2>3
<1> QED BY <1>1, <1>2

LEMMA ValueInKept ==
  ASSUME NEW s, NEW t, NEW d, NEW n \in Nat, \A i \in 1 .. n : t[i] = s[i]
  PROVE  ValueIn(t, d, n) = ValueIn(s, d, n)
<1> DEFINE About(u) == {i \in 1 .. n : u[i].doc = d}
<1>1. About(t) = About(s)
  OBVIOUS
<1>2. CASE About(s) = {}
  BY <1>1, <1>2 DEF ValueIn
<1>3. CASE About(s) # {}
  <2>1. \E i \in About(s) : \A j \in About(s) : j <= i
    BY <1>3, GreatestExists
  <2>2. PICK i \in About(s) : i = CHOOSE k \in About(s) : \A j \in About(s) : j <= k
    BY <2>1
  <2>3. ValueIn(s, d, n) = s[i].val /\ ValueIn(t, d, n) = t[i].val
    BY <1>1, <1>3, <2>2 DEF ValueIn
  <2> QED BY <2>3
<1> QED BY <1>2, <1>3

LEMMA ValueAfterIn ==
  ASSUME NEW d, NEW n
  PROVE  ValueAfter(d, n) = ValueIn(catalog, d, n) /\ ValueAfter(d, n)' = ValueIn(catalog', d, n)
  BY DEF ValueAfter, ValueIn


\* The checkpoint and the source move in few steps, and only the sole writer
\* moves the checkpoint.
LEMMA SourceKept ==
  ASSUME NEW p \in Procs, Acts(p)
  PROVE  /\ UNCHANGED <<snapshot, catalog>>
         /\ ~MarkConsumed(p) /\ ~Checkpoint(p) => consumed' = consumed
<1>1. CASE \E d \in Docs : \/ RechunkWrite(p, d) \/ RechunkRecord(p, d) \/ RechunkFails(p, d)
                           \/ EmbedSkips(p, d) \/ EmbedReads(p, d) \/ ReplaceDeletes(p, d)
                           \/ UpsertBatch(p, d) \/ UpsertLast(p, d) \/ RecordIndexed(p, d)
                           \/ ApplyOp(p, d) \/ CompleteOp(p, d)
  BY <1>1 DEF RechunkWrite, RechunkRecord, RechunkFails, EmbedSkips, EmbedReads, ReplaceDeletes,
     UpsertBatch, UpsertLast, RecordIndexed, ApplyOp, CompleteOp, source, state
<1>2. CASE \/ TakeLock(p) \/ LockBusy(p) \/ ApplyDelta(p) \/ Classify(p) \/ ClassifyNothing(p)
           \/ RecordParses(p) \/ RechunkDone(p) \/ EmbedDone(p) \/ ReadOps(p) \/ OpsDone(p)
           \/ MarkConsumed(p) \/ Checkpoint(p)
  BY <1>2 DEF TakeLock, LockBusy, ApplyDelta, Classify, ClassifyNothing, RecordParses, RechunkDone,
     EmbedDone, ReadOps, OpsDone, MarkConsumed, Checkpoint, source, state
<1>3. CASE \/ Finish(p) \/ FinishFull(p) \/ Prune(p) \/ Fails(p)
           \/ (\E c \in Commands[p] : Select(p, c)) \/ (\E good, wrote : RunParsers(p, good, wrote))
  BY <1>3 DEF Finish, FinishFull, Prune, Fails, Select, RunParsers, source, state
<1> QED BY <1>1, <1>2, <1>3 DEF Acts, Step

\* A document shows another value only after these three steps.
LEMMA ShownKept ==
  ASSUME StoreType, RunsType, NEW p \in Procs, Acts(p), ~ApplyDelta(p), ~Classify(p), ~Prune(p),
         NEW d \in Docs
  PROVE  Shown(d)' = Shown(d)
<1>0. row \in [Docs -> Row] /\ row[d] \in Row
  BY DEF StoreType
<1>1. CASE row' = row
  BY <1>1 DEF Shown, RowValue
<1>2. CASE row'[d].st = row[d].st /\ row'[d].c = row[d].c /\ row'[d].m = row[d].m
  BY <1>2 DEF Shown, RowValue
<1>3. CASE RecordParses(p)
  <2>1. \/ row'[d] = ParseReady(row[d], sel[p][d].c) \/ row'[d] = ParseFailed(row[d]) \/ row'[d] = row[d]
    BY <1>3 DEF RecordParses
  <2> QED BY <1>0, <1>2, <2>1 DEF ParseReady, ParseFailed, Row
<1>4. CASE \E e \in Docs : RechunkRecord(p, e) \/ RechunkFails(p, e) \/ RecordIndexed(p, e)
  BY <1>0, <1>2, <1>4 DEF RechunkRecord, RechunkFails, RecordIndexed, Row
<1>5. CASE \E e \in Docs : \/ RechunkWrite(p, e) \/ EmbedSkips(p, e) \/ EmbedReads(p, e)
                           \/ ReplaceDeletes(p, e) \/ UpsertBatch(p, e) \/ UpsertLast(p, e)
                           \/ ApplyOp(p, e) \/ CompleteOp(p, e)
  BY <1>1, <1>5 DEF RechunkWrite, EmbedSkips, EmbedReads, ReplaceDeletes, UpsertBatch, UpsertLast,
     ApplyOp, CompleteOp, state
<1>6. CASE \/ TakeLock(p) \/ LockBusy(p) \/ ClassifyNothing(p) \/ RechunkDone(p) \/ EmbedDone(p)
           \/ ReadOps(p) \/ OpsDone(p) \/ MarkConsumed(p) \/ Checkpoint(p)
  BY <1>1, <1>6 DEF TakeLock, LockBusy, ClassifyNothing, RechunkDone, EmbedDone, ReadOps, OpsDone,
     MarkConsumed, Checkpoint, state
<1>7. CASE \/ Finish(p) \/ FinishFull(p) \/ Fails(p)
           \/ (\E c \in Commands[p] : Select(p, c)) \/ (\E good, wrote : RunParsers(p, good, wrote))
  BY <1>1, <1>7 DEF Finish, FinishFull, Fails, Select, RunParsers, state
<1> QED BY <1>3, <1>4, <1>5, <1>6, <1>7 DEF Acts, Step

LEMMA ClassifyShows ==
  ASSUME StoreType, RunsType, NEW p \in Procs, Classify(p), NEW d \in Docs
  PROVE  Shown(d)' = IF sel[p][d] # Absent THEN sel[p][d] ELSE Shown(d)
<1>0. row[d] \in Row /\ sel[p][d] \in Value
  BY DEF StoreType, RunsType
<1> DEFINE u == Upserted(row[d], sel[p][d])
<1>1. CASE sel[p][d] = Absent
  <2>1. row'[d] = row[d]
    BY <1>1 DEF Classify, Picked
  <2> QED BY <1>1, <2>1 DEF Shown, RowValue
<1>2. CASE sel[p][d] # Absent
  <2>1. row'[d] = ContentInvalid(u) \/ row'[d] = ChunksInvalid(u) \/ row'[d] = u
    BY <1>2 DEF Classify, Picked
  <2>2. row'[d].st = "ready" /\ row'[d].c = sel[p][d].c /\ row'[d].m = sel[p][d].m
    BY <1>0, <2>1 DEF Upserted, ContentInvalid, ChunksInvalid, Row
  <2>3. [c |-> sel[p][d].c, m |-> sel[p][d].m] = sel[p][d]
    BY <1>0 DEF Value
  <2> QED BY <1>2, <2>2, <2>3 DEF Shown, RowValue
<1> QED BY <1>1, <1>2

LEMMA PruneShows ==
  ASSUME StoreType, RunsType, NEW p \in Procs, Prune(p), NEW d \in Docs
  PROVE  Shown(d)' = IF sel[p][d] = Absent THEN Absent ELSE Shown(d)
<1>0. row[d] \in Row
  BY DEF StoreType
<1>1. CASE d \in Active \ Picked(sel[p])
  <2>1. row'[d] = Unavailable(row[d]) /\ sel[p][d] = Absent
    BY <1>1 DEF Prune, Picked
  <2> QED BY <1>0, <2>1 DEF Unavailable, Shown, Row
<1>2. CASE d \notin Active \ Picked(sel[p])
  <2>1. row'[d] = row[d] /\ (sel[p][d] = Absent => row[d].st # "ready")
    BY <1>2 DEF Prune, Picked, Active
  <2> QED BY <2>1 DEF Shown, RowValue
<1> QED BY <1>1, <1>2

LEMMA DeltaShows ==
  ASSUME StoreType, NEW p \in Procs, ApplyDelta(p), NEW d \in Docs
  PROVE  Shown(d)' = IF d = Event(p).doc /\ Event(p).val = Absent THEN Absent ELSE Shown(d)
<1>0. row \in [Docs -> Row] /\ row[d] \in Row
  BY DEF StoreType
<1>1. CASE d = Event(p).doc /\ Event(p).val = Absent
  <2>1. row'[d] = Unavailable(row[d])
    BY <1>0, <1>1 DEF ApplyDelta, Event
  <2> QED BY <1>0, <1>1, <2>1 DEF Unavailable, Shown, Row
<1>2. CASE ~(d = Event(p).doc /\ Event(p).val = Absent)
  <2>1. row'[d] = row[d]
    BY <1>0, <1>2 DEF ApplyDelta, Event
  <2> QED BY <1>2, <2>1 DEF Shown, RowValue
<1> QED BY <1>1, <1>2

\* The delta an incremental run is at.
LEMMA EventTypes ==
  ASSUME StoreType, RunsType, DeltasListed, NEW p \in Procs,
         cmd[p] = "incremental", pc[p] \notin {"idle", "done"}
  PROVE  next[p] \in 1 .. Len(catalog) /\ Event(p) \in [doc : Docs, val : Value]
<1>1. next[p] \in 1 .. Len(catalog)
  BY DEF StoreType, RunsType, DeltasListed
<1> QED BY <1>1, ElementOfSeq DEF StoreType, Event

\* What holds of the runs before each step.
Before(m) == PrunesFirst(m) /\ IInv(m) /\ SnapshotHeld /\ PruneSelects /\ CheckpointInv(m)

LEMMA BeforeFacts ==
  ASSUME NEW m, Before(m)
  PROVE  /\ m \in Procs /\ StoreType /\ RunsType /\ DeltasListed /\ LockHeld /\ Helpers(m)
         /\ SnapshotHeld /\ PruneSelects /\ CatalogInv /\ ConsumedIsApplied
         /\ CommandInv(m) /\ EventInv(m) /\ ResumeInv(m) /\ ReconcileInv(m)
         /\ Len(catalog) \in Nat /\ consumed \in Nat
         /\ Commands[m] \subseteq {"reconcile", "embed", "incremental", "resume", "parse", "parse_force"}
         /\ \A q \in Procs \ {m} : Commands[q] \subseteq ParseOnly
  BY DEF Before, PrunesFirst, SoleWriter, IInv, CheckpointInv, StoreType, AllCommands, FullCommands,
     EmbedCommands

\* A published delta adds to the history what the snapshot now shows.
LEMMA PublishKeepsCheckpoint ==
  ASSUME NEW m, Before(m), NEW e \in Docs, NEW v \in Value, Publish(e, v)
  PROVE  CheckpointInv(m)'
<1>0. /\ catalog \in Seq([doc : Docs, val : Value]) /\ snapshot \in [Docs -> Value]
      /\ Len(catalog) \in Nat /\ consumed \in Nat /\ m \in Procs
  BY BeforeFacts DEF StoreType
<1>1. /\ Len(catalog') = Len(catalog) + 1 /\ catalog'[Len(catalog) + 1] = [doc |-> e, val |-> v]
      /\ \A i \in 1 .. Len(catalog) : catalog'[i] = catalog[i]
  BY <1>0, AppendProperties DEF Publish
<1>2. UNCHANGED <<row, consumed, pc, cmd, sel, next, lock>>
  BY DEF Publish, state, runs
<1>3. ASSUME NEW d \in Docs, NEW n \in 0 .. Len(catalog) PROVE ValueAfter(d, n)' = ValueAfter(d, n)
  BY <1>0, <1>1, ValueInKept, ValueAfterIn
<1>4. CatalogInv'
  <2>1. ASSUME NEW d \in Docs PROVE snapshot'[d] = ValueIn(catalog', d, Len(catalog) + 1)
    <3>1. CASE d = e
      <4>1. snapshot'[d] = v /\ catalog'[Len(catalog) + 1].doc = d /\ catalog'[Len(catalog) + 1].val = v
        BY <1>0, <1>1, <3>1 DEF Publish
      <4> QED BY <1>0, <4>1, ValueInLast
    <3>2. CASE d # e
      <4>1. ValueIn(catalog', d, Len(catalog) + 1) = ValueIn(catalog', d, Len(catalog))
        BY <1>0, <1>1, <3>2, ValueInLast
      <4>2. ValueIn(catalog', d, Len(catalog)) = ValueAfter(d, Len(catalog))
        BY <1>0, <1>1, ValueInKept, ValueAfterIn
      <4>3. snapshot'[d] = snapshot[d]
        BY <1>0, <3>2 DEF Publish
      <4> QED BY <4>1, <4>2, <4>3, BeforeFacts DEF CatalogInv
    <3> QED BY <3>1, <3>2
  <2> QED BY <1>0, <1>1, <1>2, <2>1, ValueAfterIn, BeforeFacts DEF CatalogInv
<1>5. \A d \in Docs : Shown(d)' = Shown(d)
  BY <1>2 DEF Shown, RowValue
<1>6. ASSUME NEW d \in Docs, NEW w, ShownSince(d, w) PROVE ShownSince(d, w)'
  <2>1. PICK n \in consumed .. Len(catalog) : ValueAfter(d, n) = w
    BY <1>6 DEF ShownSince
  <2>2. n \in consumed' .. Len(catalog') /\ ValueAfter(d, n)' = w
    BY <1>0, <1>1, <1>2, <1>3, <2>1
  <2> QED BY <2>2 DEF ShownSince
<1>7. ConsumedIsApplied'
  <2>1. \A d \in Docs : ShownSince(d, Shown(d))
    BY BeforeFacts DEF ConsumedIsApplied, ShownSince, Shown
  <2>2. \A d \in Docs : ShownSince(d, Shown(d))'
    <3> SUFFICES ASSUME NEW d \in Docs PROVE ShownSince(d, Shown(d))'
      OBVIOUS
    <3>1. PICK w : w = Shown(d)
      OBVIOUS
    <3>2. ShownSince(d, w)' /\ Shown(d)' = w
      BY <1>5, <1>6, <2>1, <3>1
    <3> QED BY <3>2 DEF ShownSince
  <2> QED BY <2>2 DEF ConsumedIsApplied, ShownSince, Shown
<1>8. CommandInv(m)'
  BY <1>2, BeforeFacts DEF CommandInv
<1>9. EventInv(m)'
  <2>1. ASSUME cmd[m] = "incremental", pc[m] \notin {"idle", "done"}
        PROVE  Event(m) \in [doc : Docs, val : Value] /\ Event(m)' = Event(m)
    BY <1>0, <1>1, <1>2, <2>1, EventTypes, BeforeFacts DEF Event
  <2> QED BY <1>2, <1>5, <2>1, BeforeFacts DEF EventInv, Processed, Listing, OpPCs
<1>10. ResumeInv(m)'
  <2> SUFFICES ASSUME cmd[m] = "resume", pc[m] \in {"locking", "classify"}, NEW d \in Picked(sel[m])
               PROVE  ShownSince(d, sel[m][d])'
    BY <1>2 DEF ResumeInv, Picked
  <2>1. d \in Docs /\ ShownSince(d, sel[m][d])
    BY BeforeFacts DEF ResumeInv, Picked
  <2>2. PICK w : w = sel[m][d] /\ w = sel'[m][d]
    BY <1>2
  <2>3. ShownSince(d, w)'
    BY <1>6, <2>1, <2>2
  <2> QED BY <2>2, <2>3 DEF ShownSince
<1>11. ReconcileInv(m)'
  BY <1>2, <1>5, BeforeFacts DEF ReconcileInv, Picked
<1> QED BY <1>4, <1>7, <1>8, <1>9, <1>10, <1>11 DEF CheckpointInv

\* ConsumedIsApplied holds after a step that leaves the source and the checkpoint alone, if
\* every document then shows a value the catalog has had since the checkpoint.
LEMMA HistoryKept ==
  ASSUME NEW m, Before(m), UNCHANGED <<snapshot, catalog, consumed>>
  PROVE  /\ CatalogInv'
         /\ (\A d \in Docs : \E w : Shown(d)' = w /\ ShownSince(d, w)) => ConsumedIsApplied'
         /\ \A d \in Docs : \A v : ShownSince(d, v) => ShownSince(d, v)'
         /\ \A d \in Docs : ShownSince(d, Shown(d)) /\ ShownSince(d, snapshot[d])
<1>0. \A d, n : ValueAfter(d, n)' = ValueAfter(d, n)
  BY ValueAfterIn
<1>1. CatalogInv'
  BY <1>0, BeforeFacts DEF CatalogInv
<1>2. ASSUME NEW d \in Docs PROVE ShownSince(d, Shown(d)) /\ ShownSince(d, snapshot[d])
  <2>1. ShownSince(d, Shown(d))
    BY BeforeFacts DEF ConsumedIsApplied, ShownSince, Shown
  <2>2. Len(catalog) \in consumed .. Len(catalog)
    BY BeforeFacts DEF CatalogInv
  <2> QED BY <2>1, <2>2, BeforeFacts DEF CatalogInv, ShownSince
<1>3. ASSUME NEW d \in Docs, NEW v, ShownSince(d, v) PROVE ShownSince(d, v)'
  BY <1>0, <1>3 DEF ShownSince
<1>4. ASSUME \A d \in Docs : \E w : Shown(d)' = w /\ ShownSince(d, w) PROVE ConsumedIsApplied'
  <2> SUFFICES ASSUME NEW d \in Docs
               PROVE  (\E n \in consumed .. Len(catalog) :
                         ValueAfter(d, n) = IF row[d].st = "ready" THEN RowValue(d) ELSE Absent)'
    BY DEF ConsumedIsApplied
  <2>1. PICK w : Shown(d)' = w /\ ShownSince(d, w)
    BY <1>4
  <2> QED BY <1>0, <2>1 DEF ShownSince, Shown
<1> QED BY <1>1, <1>2, <1>3, <1>4


\* What a step of one process does to the deltas of another, to the lock it
\* holds, and to its own command.
LEMMA OthersNext ==
  ASSUME RunsType, NEW p \in Procs, Acts(p), NEW q \in Procs \ {p} PROVE next'[q] = next[q]
<1>1. CASE Ends(p) \/ MarkConsumed(p) \/ (\E c \in Commands[p] : Select(p, c))
  BY <1>1 DEF Ends, MarkConsumed, Select, RunsType
<1>2. CASE next' = next
  BY <1>2
<1>3. CASE \E d \in Docs : \/ RechunkWrite(p, d) \/ RechunkRecord(p, d) \/ RechunkFails(p, d)
                           \/ EmbedSkips(p, d) \/ EmbedReads(p, d) \/ ReplaceDeletes(p, d)
                           \/ UpsertBatch(p, d) \/ UpsertLast(p, d) \/ RecordIndexed(p, d)
                           \/ ApplyOp(p, d) \/ CompleteOp(p, d)
  BY <1>2, <1>3 DEF RechunkWrite, RechunkRecord, RechunkFails, EmbedSkips, EmbedReads, ReplaceDeletes,
     UpsertBatch, UpsertLast, RecordIndexed, ApplyOp, CompleteOp, runs
<1>4. CASE \/ TakeLock(p) \/ ApplyDelta(p) \/ Classify(p) \/ ClassifyNothing(p) \/ RecordParses(p)
           \/ RechunkDone(p) \/ EmbedDone(p) \/ ReadOps(p) \/ OpsDone(p) \/ FinishFull(p) \/ Prune(p)
           \/ (\E good, wrote : RunParsers(p, good, wrote))
  BY <1>2, <1>4 DEF TakeLock, ApplyDelta, Classify, ClassifyNothing, RecordParses, RechunkDone,
     EmbedDone, ReadOps, OpsDone, FinishFull, Prune, RunParsers
<1> QED BY <1>1, <1>3, <1>4, RunEnds DEF Acts, Step

LEMMA OthersLock ==
  ASSUME LockHeld, NEW p \in Procs, Acts(p), NEW q \in Procs \ {p} PROVE lock' = q <=> lock = q
<1>0. None # q
  BY ConstantsAssumption
<1>1. CASE Ends(p)
  BY <1>0, <1>1 DEF Ends
<1>2. CASE TakeLock(p) \/ FinishFull(p)
  BY <1>0, <1>2 DEF TakeLock, FinishFull, LockHeld, LockPCs, ParsePCs
<1>3. CASE lock' = lock
  BY <1>3
<1>4. CASE \E d \in Docs : \/ RechunkWrite(p, d) \/ RechunkRecord(p, d) \/ RechunkFails(p, d)
                           \/ EmbedSkips(p, d) \/ EmbedReads(p, d) \/ ReplaceDeletes(p, d)
                           \/ UpsertBatch(p, d) \/ UpsertLast(p, d) \/ RecordIndexed(p, d)
                           \/ ApplyOp(p, d) \/ CompleteOp(p, d)
  BY <1>3, <1>4 DEF RechunkWrite, RechunkRecord, RechunkFails, EmbedSkips, EmbedReads, ReplaceDeletes,
     UpsertBatch, UpsertLast, RecordIndexed, ApplyOp, CompleteOp
<1>5. CASE \/ ApplyDelta(p) \/ Classify(p) \/ ClassifyNothing(p) \/ RecordParses(p)
           \/ RechunkDone(p) \/ EmbedDone(p) \/ ReadOps(p) \/ OpsDone(p) \/ Prune(p) \/ MarkConsumed(p)
           \/ (\E good, wrote : RunParsers(p, good, wrote)) \/ (\E c \in Commands[p] : Select(p, c))
  BY <1>3, <1>5 DEF ApplyDelta, Classify, ClassifyNothing, RecordParses, RechunkDone,
     EmbedDone, ReadOps, OpsDone, Prune, MarkConsumed, RunParsers, Select
<1> QED BY <1>1, <1>2, <1>4, <1>5, RunEnds DEF Acts, Step

LEMMA CommandKept ==
  ASSUME RunsType, NEW p \in Procs, Acts(p), pc[p] # "idle" => cmd[p] \in Commands[p], pc'[p] # "idle"
  PROVE  cmd'[p] \in Commands[p]
<1>1. ~Ends(p)
  BY DEF Ends, RunsType
<1>2. CASE \E c \in Commands[p] : Select(p, c)
  BY <1>2 DEF Select, RunsType
<1>3. CASE pc[p] # "idle" /\ cmd' = cmd
  BY <1>3
<1>4. CASE \E d \in Docs : \/ RechunkWrite(p, d) \/ RechunkRecord(p, d) \/ RechunkFails(p, d)
                           \/ EmbedSkips(p, d) \/ EmbedReads(p, d) \/ ReplaceDeletes(p, d)
                           \/ UpsertBatch(p, d) \/ UpsertLast(p, d) \/ RecordIndexed(p, d)
                           \/ ApplyOp(p, d) \/ CompleteOp(p, d)
  BY <1>3, <1>4 DEF RechunkWrite, RechunkRecord, RechunkFails, EmbedSkips, EmbedReads, Embeds,
     ReplaceDeletes, UpsertBatch, UpsertLast, RecordIndexed, ApplyOp, CompleteOp, runs
<1>5. CASE \/ TakeLock(p) \/ ApplyDelta(p) \/ Classify(p) \/ ClassifyNothing(p) \/ RecordParses(p)
           \/ RechunkDone(p) \/ EmbedDone(p) \/ ReadOps(p) \/ OpsDone(p) \/ FinishFull(p) \/ Prune(p)
           \/ MarkConsumed(p) \/ (\E good, wrote : RunParsers(p, good, wrote))
  BY <1>3, <1>5 DEF TakeLock, ApplyDelta, Classify, ClassifyNothing, RecordParses, RechunkDone,
     EmbedDone, ReadOps, OpsDone, FinishFull, Prune, MarkConsumed, RunParsers
<1> QED BY <1>1, <1>2, <1>4, <1>5, RunEnds DEF Acts, Step

\* The others may only bring a row to the snapshot, which is what a reconcile
\* shows too; and only while the sole writer does not hold the lock.
LEMMA HelpersKeepCheckpoint ==
  ASSUME NEW m, Before(m), NEW p \in Procs \ {m}, Acts(p)
  PROVE  CheckpointInv(m)'
<1>0. /\ m \in Procs /\ StoreType /\ RunsType /\ LockHeld /\ Helpers(m)
      /\ SnapshotHeld /\ CommandInv(m) /\ EventInv(m) /\ ResumeInv(m) /\ ReconcileInv(m)
  BY BeforeFacts
<1>1. /\ UNCHANGED <<snapshot, catalog>> /\ consumed' = consumed
      /\ ~ApplyDelta(p) /\ ~Prune(p) /\ ~FinishFull(p)
  <2>1. pc[p] # "idle" => pc[p] \in ParsePCs /\ cmd[p] \in ParseOnly
    BY <1>0 DEF Helpers
  <2>2. ~MarkConsumed(p) /\ ~Checkpoint(p) /\ ~ApplyDelta(p) /\ ~Prune(p) /\ ~FinishFull(p)
    BY <2>1 DEF MarkConsumed, Checkpoint, ApplyDelta, Prune, FinishFull, ParsePCs, ParseOnly, FullCommands
  <2> QED BY <2>2, SourceKept
<1>2. pc'[m] = pc[m] /\ cmd'[m] = cmd[m] /\ sel'[m] = sel[m]
  BY <1>0, OthersSame DEF Same
<1>3. next'[m] = next[m]
  BY <1>0, <1>1, OthersNext
<1>4. lock' = m <=> lock = m
  BY <1>0, OthersLock
<1>5. ASSUME NEW d \in Docs
      PROVE  Shown(d)' = Shown(d) \/ (Classify(p) /\ Shown(d)' = snapshot[d] /\ snapshot[d] # Absent)
  <2>1. CASE Classify(p)
    <3>1. sel[p] = snapshot
      BY <1>0, <2>1 DEF Classify, Helpers, SnapshotHeld, FromSnapshot
    <3> QED BY <1>0, <2>1, <3>1, ClassifyShows
  <2>2. CASE ~Classify(p)
    BY <1>0, <1>1, <2>2, ShownKept
  <2> QED BY <2>1, <2>2
<1>6. CatalogInv' /\ ConsumedIsApplied' /\ \A d \in Docs : \A v : ShownSince(d, v) => ShownSince(d, v)'
  BY <1>1, <1>5, HistoryKept
<1>7. CommandInv(m)'
  <2>1. \A q \in Procs \ {p} : pc'[q] = pc[q] /\ cmd'[q] = cmd[q]
    BY <1>0, OthersSame DEF Same
  <2>2. pc'[p] # "idle" => cmd'[p] \in Commands[p]
    BY <1>0, CommandKept DEF CommandInv
  <2>3. pc'[p] # "idle" => cmd'[p] \notin EmbedCommands
    BY <2>2, BeforeFacts DEF ParseOnly, EmbedCommands
  <2> QED BY <1>0, <1>2, <1>4, <2>1, <2>2, <2>3 DEF CommandInv
<1>8. EventInv(m)'
  <2>1. ASSUME cmd[m] = "incremental", pc[m] \in Processed PROVE ~Classify(p)
    <3>1. lock = m
      BY <1>0, <2>1 DEF Processed, OpPCs, LockHeld, LockPCs, ParsePCs, Listing, CommandInv
    <3> QED BY <1>0, <3>1 DEF Classify, LockHeld, LockPCs, ParsePCs
  <2>2. Event(m)' = Event(m)
    BY <1>1, <1>3 DEF Event
  <2>3. ASSUME cmd[m] = "incremental", pc[m] \in Processed
        PROVE  Shown(Event(m).doc)' = Shown(Event(m).doc)
    <3>1. Event(m).doc \in Docs
      BY <2>3, EventTypes, BeforeFacts DEF Processed, OpPCs, Listing
    <3>2. PICK x \in Docs : x = Event(m).doc
      BY <3>1
    <3>3. Shown(x)' = Shown(x)
      BY <1>5, <2>1, <2>3
    <3> QED BY <2>2, <3>2, <3>3 DEF Shown, RowValue
  <2>4. ASSUME cmd[m] = "incremental", pc[m] \in Processed
        PROVE  Shown(Event(m).doc)' = Event(m).val
    BY <1>0, <2>3, <2>4 DEF EventInv
  <2> QED BY <1>0, <1>1, <1>2, <1>3, <2>2, <2>4 DEF EventInv, Event, Shown, RowValue
<1>9. ResumeInv(m)'
  BY <1>0, <1>2, <1>6 DEF ResumeInv, Picked, ShownSince
<1>10. ReconcileInv(m)'
  <2>1. ASSUME cmd[m] = "reconcile", NEW d \in Docs
        PROVE  Shown(d)' = Shown(d) \/ (Shown(d)' = sel[m][d] /\ sel[m][d] # Absent)
    BY <1>0, <1>5, <2>1 DEF SnapshotHeld, FromSnapshot, FullCommands
  <2> QED BY <1>0, <1>2, <1>4, <2>1 DEF ReconcileInv, Picked
<1> QED BY <1>6, <1>7, <1>8, <1>9, <1>10 DEF CheckpointInv

\* Steps of the sole writer.
LEMMA OwnCommand ==
  ASSUME NEW m, Before(m), Acts(m), pc'[m] = "classify" => cmd'[m] \notin EmbedCommands,
         (pc'[m] \in OpPCs /\ lock' # m) => cmd'[m] = "reconcile",
         pc'[m] = "checkpoint" => cmd'[m] = "reconcile"
  PROVE  CommandInv(m)'
<1>0. m \in Procs /\ RunsType /\ CommandInv(m)
  BY BeforeFacts
<1>1. \A q \in Procs \ {m} : pc'[q] = pc[q] /\ cmd'[q] = cmd[q]
  BY <1>0, OthersSame DEF Same
<1>2. pc'[m] # "idle" => cmd'[m] \in Commands[m]
  BY <1>0, CommandKept DEF CommandInv
<1> QED BY <1>0, <1>1, <1>2 DEF CommandInv

LEMMA EndsKeepsRuns ==
  ASSUME NEW m, Before(m), Acts(m), Ends(m)
  PROVE  CommandInv(m)' /\ EventInv(m)' /\ ResumeInv(m)' /\ ReconcileInv(m)'
<1>0. m \in Procs /\ RunsType
  BY BeforeFacts
<1>1. pc'[m] = "idle" /\ cmd'[m] = "none"
  BY <1>0 DEF Ends, RunsType
<1>2. CommandInv(m)'
  BY <1>1, OwnCommand DEF OpPCs
<1> QED BY <1>1, <1>2 DEF EventInv, ResumeInv, ReconcileInv

LEMMA EndKeepsCheckpoint ==
  ASSUME NEW m, Before(m), Acts(m), LockBusy(m) \/ Finish(m) \/ Fails(m) PROVE CheckpointInv(m)'
<1>0. m \in Procs
  BY BeforeFacts
<1>1. Ends(m) /\ UNCHANGED <<snapshot, catalog, consumed, row>>
  BY DEF LockBusy, Finish, Fails, source, state
<1>2. \A d \in Docs : Shown(d)' = Shown(d)
  BY <1>1 DEF Shown, RowValue
<1>3. CatalogInv' /\ ConsumedIsApplied'
  BY <1>1, <1>2, HistoryKept
<1> QED BY <1>1, <1>3, EndsKeepsRuns DEF CheckpointInv

\* A reconcile checkpoints when every row shows the snapshot.
LEMMA CheckpointKeepsCheckpoint ==
  ASSUME NEW m, Before(m), Acts(m), Checkpoint(m) PROVE CheckpointInv(m)'
<1>0. m \in Procs /\ CommandInv(m) /\ ReconcileInv(m) /\ SnapshotHeld /\ CatalogInv /\ Len(catalog) \in Nat
  BY BeforeFacts
<1>1. Ends(m) /\ UNCHANGED <<snapshot, catalog, row>> /\ consumed' = Len(catalog) /\ pc[m] = "checkpoint"
  BY <1>0, SourceKept DEF Checkpoint
<1>2. cmd[m] = "reconcile" /\ sel[m] = snapshot
  BY <1>0, <1>1 DEF CommandInv, SnapshotHeld, FromSnapshot, FullCommands
<1>3. \A d \in Docs : Shown(d) = snapshot[d]
  BY <1>0, <1>1, <1>2 DEF ReconcileInv, Picked
<1>4. \A d \in Docs : Shown(d)' = ValueAfter(d, Len(catalog))
  BY <1>0, <1>1, <1>3 DEF Shown, RowValue, CatalogInv
<1>5. \A d, n : ValueAfter(d, n)' = ValueAfter(d, n)
  BY <1>1, ValueAfterIn
<1>6. CatalogInv'
  BY <1>0, <1>1, <1>5 DEF CatalogInv
<1>7. ConsumedIsApplied'
  <2>1. Len(catalog) \in consumed' .. Len(catalog')
    BY <1>0, <1>1
  <2> QED BY <1>1, <1>4, <1>5, <2>1 DEF ConsumedIsApplied, Shown
<1> QED BY <1>1, <1>6, <1>7, EndsKeepsRuns DEF CheckpointInv

\* What a command selects is not older than the checkpoint.
LEMMA SelectKeepsCheckpoint ==
  ASSUME NEW m, Before(m), Acts(m), NEW c \in Commands[m], Select(m, c) PROVE CheckpointInv(m)'
<1>0. m \in Procs /\ RunsType
  BY BeforeFacts
<1>1. UNCHANGED <<snapshot, catalog, consumed, row>>
  BY DEF Select, source, state
<1>2. /\ pc'[m] = "locking" /\ cmd'[m] = c /\ sel'[m] = Selection(c)
      /\ next'[m] = IF c = "incremental" THEN consumed + 1 ELSE 0
  BY <1>0 DEF Select, RunsType
<1>3. \A d \in Docs : Shown(d)' = Shown(d)
  BY <1>1 DEF Shown, RowValue
<1>4. /\ CatalogInv' /\ ConsumedIsApplied'
      /\ \A d \in Docs : ShownSince(d, Shown(d)) /\ \A v : ShownSince(d, v) => ShownSince(d, v)'
  BY <1>1, <1>3, HistoryKept
<1>5. CommandInv(m)'
  BY <1>2, OwnCommand DEF OpPCs
<1>6. EventInv(m)'
  BY <1>1, <1>2 DEF EventInv, Processed, OpPCs, Listing
<1>7. ResumeInv(m)'
  <2> SUFFICES ASSUME c = "resume", NEW d \in Picked(sel'[m]) PROVE ShownSince(d, sel[m][d])'
    BY <1>2 DEF ResumeInv, Picked
  <2>1. d \in Docs /\ sel'[m][d] = IF d \in Active THEN RowValue(d) ELSE Absent
    BY <1>2 DEF Picked, Selection, FullCommands, ParseOnly
  <2>2. sel'[m][d] = Shown(d)
    BY <2>1 DEF Picked, Active, Shown
  <2>3. PICK w : w = Shown(d)
    OBVIOUS
  <2>4. ShownSince(d, w)'
    BY <1>4, <2>1, <2>3
  <2> QED BY <2>2, <2>3, <2>4 DEF ShownSince
<1>8. ReconcileInv(m)'
  BY <1>2 DEF ReconcileInv, OpPCs
<1> QED BY <1>4, <1>5, <1>6, <1>7, <1>8 DEF CheckpointInv

LEMMA TakeLockKeepsCheckpoint ==
  ASSUME NEW m, Before(m), Acts(m), TakeLock(m) PROVE CheckpointInv(m)'
<1>0. m \in Procs /\ RunsType /\ EventInv(m) /\ ResumeInv(m)
  BY BeforeFacts
<1>1. UNCHANGED <<snapshot, catalog, consumed, row, sel, next, cmd>> /\ pc[m] = "locking"
  BY DEF TakeLock, source, state
<1>2. pc'[m] = IF cmd[m] = "incremental" THEN "batch"
               ELSE IF cmd[m] \in EmbedCommands THEN "embed" ELSE "classify"
  BY <1>0 DEF TakeLock, Goto, RunsType
<1>3. \A d \in Docs : Shown(d)' = Shown(d)
  BY <1>1 DEF Shown, RowValue
<1>4. /\ CatalogInv' /\ ConsumedIsApplied'
      /\ \A d \in Docs : ShownSince(d, Shown(d)) /\ \A v : ShownSince(d, v) => ShownSince(d, v)'
  BY <1>1, <1>3, HistoryKept
<1>5. CommandInv(m)'
  BY <1>1, <1>2, OwnCommand DEF OpPCs
<1>6. EventInv(m)'
  BY <1>0, <1>1, <1>2 DEF EventInv, Processed, OpPCs, Listing
<1>7. ResumeInv(m)'
  BY <1>0, <1>1, <1>4 DEF ResumeInv, Picked, ShownSince
<1>8. ReconcileInv(m)'
  BY <1>1, <1>2 DEF ReconcileInv, OpPCs, EmbedCommands
<1> QED BY <1>4, <1>5, <1>6, <1>7, <1>8 DEF CheckpointInv

\* One delta: a disappearance reaches the row at once, a value with Classify.
LEMMA ApplyDeltaKeepsCheckpoint ==
  ASSUME NEW m, Before(m), Acts(m), ApplyDelta(m) PROVE CheckpointInv(m)'
<1>0. /\ m \in Procs /\ StoreType /\ RunsType /\ LockHeld /\ EventInv(m) /\ DeltasListed
      /\ Len(catalog) \in Nat /\ consumed \in Nat
  BY BeforeFacts
<1>1. /\ UNCHANGED <<snapshot, catalog, consumed, next, cmd, lock>> /\ pc[m] = "batch"
      /\ lock = m /\ cmd[m] = "incremental"
  BY <1>0 DEF ApplyDelta, source, LockHeld, LockPCs, ParsePCs, DeltasListed
<1>2. /\ pc'[m] = IF Event(m).val = Absent THEN "ops" ELSE "classify"
      /\ sel'[m] = [Nothing EXCEPT ![Event(m).doc] = Event(m).val]
  BY <1>0 DEF ApplyDelta, Goto, RunsType, Event
<1>3. next[m] = consumed + 1 /\ next[m] \in 1 .. Len(catalog) /\ Event(m) \in [doc : Docs, val : Value]
  BY <1>0, <1>1, EventTypes DEF EventInv
<1>4. Event(m)' = Event(m)
  BY <1>1 DEF Event
<1>5. ShownSince(Event(m).doc, Event(m).val)
  <2>1. ValueAfter(Event(m).doc, consumed + 1) = Event(m).val
    <3>1. catalog[consumed + 1] = Event(m)
      BY <1>3 DEF Event
    <3>2. ValueIn(catalog, Event(m).doc, consumed + 1) = Event(m).val
      BY <1>0, <3>1, ValueInLast
    <3> QED BY <3>2, ValueAfterIn
  <2>2. consumed + 1 \in consumed .. Len(catalog)
    BY <1>0, <1>3
  <2> QED BY <2>1, <2>2 DEF ShownSince
<1>6. CatalogInv' /\ ConsumedIsApplied'
  <2>1. \A d \in Docs : ShownSince(d, Shown(d))
    BY <1>1, HistoryKept
  <2>2. \A d \in Docs : Shown(d)' = IF d = Event(m).doc /\ Event(m).val = Absent THEN Absent ELSE Shown(d)
    BY <1>0, DeltaShows
  <2>3. \A d \in Docs : \E w : Shown(d)' = w /\ ShownSince(d, w)
    BY <1>5, <2>1, <2>2
  <2> QED BY <1>1, <2>3, HistoryKept
<1>7. CommandInv(m)'
  BY <1>1, <1>2, OwnCommand DEF OpPCs, EmbedCommands
<1>8. EventInv(m)'
  <2>1. ASSUME Event(m).val = Absent PROVE Shown(Event(m).doc)' = Absent
    <3>1. PICK x \in Docs : x = Event(m).doc
      BY <1>3
    <3>2. Shown(x)' = Absent
      BY <1>0, <2>1, <3>1, DeltaShows
    <3> QED BY <1>4, <3>1, <3>2 DEF Shown, RowValue
  <2> QED BY <1>1, <1>2, <1>3, <1>4, <2>1 DEF EventInv, Processed, OpPCs, Listing
<1>9. ResumeInv(m)' /\ ReconcileInv(m)'
  BY <1>1 DEF ResumeInv, ReconcileInv
<1> QED BY <1>6, <1>7, <1>8, <1>9 DEF CheckpointInv

\* Whatever a command classifies is not older than the checkpoint: the snapshot,
\* what resume has read, or the next delta.
LEMMA ClassifyKeepsCheckpoint ==
  ASSUME NEW m, Before(m), Acts(m), Classify(m) PROVE CheckpointInv(m)'
<1>0. /\ m \in Procs /\ StoreType /\ RunsType /\ LockHeld /\ CommandInv(m) /\ EventInv(m) /\ ResumeInv(m)
      /\ SnapshotHeld
  BY BeforeFacts
<1>1. /\ UNCHANGED <<snapshot, catalog, consumed, next, cmd, sel, lock>> /\ pc[m] = "classify"
      /\ pc'[m] = "parse"
  BY <1>0 DEF Classify, Goto, RunsType, source
<1>2. cmd[m] \in FromSnapshot \cup {"resume", "incremental"}
  <2>1. cmd[m] \in Commands[m] /\ cmd[m] \notin EmbedCommands
    BY <1>0, <1>1 DEF CommandInv
  <2> QED BY <2>1, BeforeFacts DEF FromSnapshot, FullCommands, ParseOnly, EmbedCommands
<1>3. \A d \in Docs : Shown(d)' = IF sel[m][d] # Absent THEN sel[m][d] ELSE Shown(d)
  BY <1>0, ClassifyShows
<1>4. cmd[m] = "incremental" =>
        /\ Event(m).doc \in Docs /\ next[m] = consumed + 1 /\ next[m] \in 1 .. Len(catalog)
        /\ Event(m).val # Absent /\ sel[m] = [Nothing EXCEPT ![Event(m).doc] = Event(m).val]
  BY <1>0, <1>1, EventTypes, BeforeFacts DEF EventInv
<1>5. ASSUME NEW d \in Docs, sel[m][d] # Absent PROVE ShownSince(d, sel[m][d])
  <2>1. CASE cmd[m] \in FromSnapshot
    BY <1>0, <1>1, <2>1, HistoryKept DEF SnapshotHeld
  <2>2. CASE cmd[m] = "resume"
    BY <1>0, <1>1, <1>5, <2>2 DEF ResumeInv, Picked
  <2>3. CASE cmd[m] = "incremental"
    <3>1. d = Event(m).doc /\ sel[m][d] = Event(m).val
      BY <1>4, <1>5, <2>3 DEF Nothing
    <3>2. catalog[consumed + 1] = Event(m)
      BY <1>4, <2>3 DEF Event
    <3>3. ValueIn(catalog, d, consumed + 1) = sel[m][d]
      BY <3>1, <3>2, ValueInLast, BeforeFacts
    <3>4. consumed + 1 \in consumed .. Len(catalog)
      BY <1>4, <2>3, BeforeFacts
    <3> QED BY <3>3, <3>4, ValueAfterIn DEF ShownSince
  <2> QED BY <1>2, <2>1, <2>2, <2>3
<1>6. CatalogInv' /\ ConsumedIsApplied'
  <2>1. \A d \in Docs : ShownSince(d, Shown(d))
    BY <1>1, HistoryKept
  <2>2. \A d \in Docs : \E w : Shown(d)' = w /\ ShownSince(d, w)
    BY <1>3, <1>5, <2>1
  <2> QED BY <1>1, <2>2, HistoryKept
<1>7. CommandInv(m)'
  BY <1>1, OwnCommand DEF OpPCs
<1>8. EventInv(m)'
  <2>1. Event(m)' = Event(m)
    BY <1>1 DEF Event
  <2>2. ASSUME cmd[m] = "incremental" PROVE Shown(Event(m).doc)' = Event(m).val
    <3>1. PICK x \in Docs : x = Event(m).doc
      BY <1>4, <2>2
    <3>2. sel[m][x] = Event(m).val
      BY <1>4, <2>2, <3>1 DEF Nothing
    <3>3. Shown(x)' = Event(m).val
      BY <1>3, <1>4, <2>2, <3>1, <3>2
    <3> QED BY <2>1, <3>1, <3>3 DEF Shown, RowValue
  <2> QED BY <1>1, <1>4, <2>1, <2>2 DEF EventInv
<1>9. ResumeInv(m)'
  BY <1>1 DEF ResumeInv
<1>10. ReconcileInv(m)'
  BY <1>1, <1>3 DEF ReconcileInv, OpPCs, Picked
<1> QED BY <1>6, <1>7, <1>8, <1>9, <1>10 DEF CheckpointInv

\* Each batch is marked alone, after its document shows what it says.
LEMMA MarkKeepsCheckpoint ==
  ASSUME NEW m, Before(m), Acts(m), MarkConsumed(m) PROVE CheckpointInv(m)'
<1>0. /\ m \in Procs /\ StoreType /\ RunsType /\ EventInv(m) /\ DeltasListed /\ CatalogInv
      /\ Len(catalog) \in Nat /\ consumed \in Nat
  BY BeforeFacts
<1>1. /\ UNCHANGED <<snapshot, catalog, row, cmd, lock>> /\ pc[m] = "mark" /\ cmd[m] = "incremental"
      /\ pc'[m] \in {"done", "batch"} /\ next'[m] = next[m] + 1
  BY <1>0, SourceKept DEF MarkConsumed, Goto, RunsType, DeltasListed
<1>2. next[m] = consumed + 1 /\ next[m] \in 1 .. Len(catalog) /\ Event(m) \in [doc : Docs, val : Value]
  BY <1>0, <1>1, EventTypes DEF EventInv
<1>3. consumed' = consumed + 1
  BY <1>0, <1>2 DEF MarkConsumed, Later, Marked
<1>4. \A d, n : ValueAfter(d, n)' = ValueAfter(d, n)
  BY <1>1, ValueAfterIn
<1>5. CatalogInv'
  BY <1>0, <1>1, <1>2, <1>3, <1>4 DEF CatalogInv
<1>6. ASSUME NEW d \in Docs
      PROVE  \E n \in consumed + 1 .. Len(catalog) : ValueAfter(d, n) = Shown(d)
  <2>1. catalog[consumed + 1] = Event(m) /\ consumed + 1 \in consumed + 1 .. Len(catalog)
    BY <1>0, <1>2 DEF Event
  <2>2. CASE d = Event(m).doc
    <3>1. ValueIn(catalog, d, consumed + 1) = Event(m).val
      BY <1>0, <2>1, <2>2, ValueInLast
    <3>2. Shown(d) = Event(m).val
      BY <1>0, <1>1, <2>2 DEF EventInv, Processed
    <3> QED BY <2>1, <3>1, <3>2, ValueAfterIn
  <2>3. CASE d # Event(m).doc
    <3>1. PICK n \in consumed .. Len(catalog) : ValueAfter(d, n) = Shown(d)
      BY BeforeFacts DEF ConsumedIsApplied, Shown
    <3>2. CASE n = consumed
      <4>1. ValueIn(catalog, d, consumed + 1) = ValueIn(catalog, d, consumed)
        BY <1>0, <2>1, <2>3, ValueInLast
      <4> QED BY <2>1, <3>1, <3>2, <4>1, ValueAfterIn
    <3>3. CASE n # consumed
      <4>1. n \in consumed + 1 .. Len(catalog)
        BY <1>0, <3>1, <3>3
      <4> QED BY <3>1, <4>1
    <3> QED BY <3>2, <3>3
  <2> QED BY <2>2, <2>3
<1>7. ConsumedIsApplied'
  BY <1>1, <1>3, <1>4, <1>6 DEF ConsumedIsApplied, Shown, RowValue
<1>8. CommandInv(m)'
  BY <1>1, OwnCommand DEF OpPCs
<1>9. EventInv(m)'
  BY <1>1, <1>2, <1>3 DEF EventInv, Processed, OpPCs, Listing
<1>10. ResumeInv(m)' /\ ReconcileInv(m)'
  BY <1>1 DEF ResumeInv, ReconcileInv
<1> QED BY <1>5, <1>7, <1>8, <1>9, <1>10 DEF CheckpointInv

LEMMA PruneKeepsCheckpoint ==
  ASSUME NEW m, Before(m), Acts(m), Prune(m) PROVE CheckpointInv(m)'
<1>0. /\ m \in Procs /\ StoreType /\ RunsType /\ CommandInv(m) /\ ReconcileInv(m)
      /\ SnapshotHeld /\ PruneSelects
  BY BeforeFacts
<1>1. /\ UNCHANGED <<snapshot, catalog, consumed, cmd, sel, lock>> /\ pc[m] = "prune"
      /\ pc'[m] \in {"ops", "checkpoint"}
  BY <1>0 DEF Prune, Goto, RunsType, source
<1>2. cmd[m] = "reconcile" /\ sel[m] = snapshot
  <2>1. cmd[m] \in FullCommands \cap Commands[m]
    BY <1>0, <1>1 DEF CommandInv, PruneSelects
  <2> QED BY <1>0, <2>1, BeforeFacts DEF FullCommands, SnapshotHeld, FromSnapshot
<1>3. \A d \in Docs : Shown(d)' = IF sel[m][d] = Absent THEN Absent ELSE Shown(d)
  BY <1>0, PruneShows
<1>4. CatalogInv' /\ ConsumedIsApplied'
  <2>1. \A d \in Docs : ShownSince(d, Shown(d)) /\ ShownSince(d, snapshot[d])
    BY <1>1, HistoryKept
  <2>2. \A d \in Docs : \E w : Shown(d)' = w /\ ShownSince(d, w)
    BY <1>2, <1>3, <2>1
  <2> QED BY <1>1, <2>2, HistoryKept
<1>5. CommandInv(m)'
  BY <1>1, <1>2, OwnCommand
<1>6. EventInv(m)' /\ ResumeInv(m)'
  BY <1>1, <1>2 DEF EventInv, ResumeInv
<1>7. ReconcileInv(m)'
  BY <1>0, <1>1, <1>2, <1>3 DEF ReconcileInv, Picked
<1> QED BY <1>4, <1>5, <1>6, <1>7 DEF CheckpointInv

\* All other steps of a run: no row shows another value, and the run goes on
\* to where the same holds.
LEMMA MoveKeepsCheckpoint ==
  ASSUME NEW m, Before(m), Acts(m), ~ApplyDelta(m), ~Classify(m), ~Prune(m), ~MarkConsumed(m),
         ~Checkpoint(m), UNCHANGED <<cmd, sel, next>>,
         \/ lock' = lock /\ pc[m] \in Processed
         \/ pc[m] = "done" /\ pc'[m] = "prune" /\ cmd[m] # "incremental"
         \/ pc[m] = "classify" /\ pc'[m] = "done" /\ Picked(sel[m]) = {},
         pc'[m] \in Processed \cup {"done", "prune", "checkpoint"},
         pc'[m] \in OpPCs => pc[m] \in OpPCs \/ lock = m,
         pc'[m] = "checkpoint" => pc[m] \in OpPCs /\ lock # m
  PROVE  CheckpointInv(m)'
<1>0. m \in Procs /\ StoreType /\ RunsType /\ CommandInv(m) /\ EventInv(m) /\ ReconcileInv(m)
  BY BeforeFacts
<1>1. UNCHANGED <<snapshot, catalog, consumed>>
  BY <1>0, SourceKept
<1>2. \A d \in Docs : Shown(d)' = Shown(d)
  BY <1>0, ShownKept
<1>3. CatalogInv' /\ ConsumedIsApplied'
  BY <1>1, <1>2, HistoryKept
<1>4. CommandInv(m)'
  BY <1>0, OwnCommand DEF CommandInv, Processed, OpPCs, Listing
<1>5. EventInv(m)'
  <2>1. Event(m)' = Event(m)
    BY <1>1 DEF Event
  <2>2. ASSUME cmd[m] = "incremental", pc[m] \in Processed
        PROVE  Shown(Event(m).doc)' = Event(m).val
    <3>1. Event(m).doc \in Docs
      BY <2>2, EventTypes, BeforeFacts DEF Processed, OpPCs, Listing
    <3>2. PICK x \in Docs : x = Event(m).doc
      BY <3>1
    <3>3. Shown(x)' = Event(m).val
      BY <1>0, <1>2, <2>2, <3>2 DEF EventInv
    <3> QED BY <2>1, <3>2, <3>3 DEF Shown, RowValue
  <2> QED BY <1>0, <1>1, <2>1, <2>2 DEF EventInv, Processed, OpPCs, Listing
<1>6. ResumeInv(m)'
  BY DEF ResumeInv, Processed, OpPCs, Listing
<1>7. ReconcileInv(m)'
  BY <1>0, <1>2 DEF ReconcileInv, Processed, OpPCs, Listing, Picked
<1> QED BY <1>3, <1>4, <1>5, <1>6, <1>7 DEF CheckpointInv

LEMMA RunKeepsCheckpoint ==
  ASSUME NEW m, Before(m), Acts(m) PROVE CheckpointInv(m)'
<1>0. m \in Procs /\ StoreType /\ RunsType /\ LockHeld /\ CommandInv(m) /\ PruneSelects
  BY BeforeFacts
<1>1. CASE \/ \E c \in Commands[m] : Select(m, c)
           \/ LockBusy(m) \/ Finish(m) \/ Fails(m) \/ Checkpoint(m) \/ TakeLock(m) \/ ApplyDelta(m)
           \/ Classify(m) \/ MarkConsumed(m) \/ Prune(m)
  BY <1>1, SelectKeepsCheckpoint, EndKeepsCheckpoint, CheckpointKeepsCheckpoint,
     TakeLockKeepsCheckpoint, ApplyDeltaKeepsCheckpoint, ClassifyKeepsCheckpoint,
     MarkKeepsCheckpoint, PruneKeepsCheckpoint
<1>2. ASSUME NEW there, Goto(m, there) PROVE pc'[m] = there
  BY <1>0, <1>2 DEF Goto, RunsType
<1>3. pc[m] \in LockPCs => lock = m
  BY <1>0 DEF LockHeld
<1>4. CASE \/ ClassifyNothing(m) \/ RecordParses(m) \/ RechunkDone(m) \/ EmbedDone(m) \/ ReadOps(m)
           \/ (\E good, wrote : RunParsers(m, good, wrote))
  <2>1. ~ApplyDelta(m) /\ ~Classify(m) /\ ~Prune(m) /\ ~MarkConsumed(m) /\ ~Checkpoint(m)
    <3>1. pc[m] \in {"parse", "record", "rechunk", "embed", "ops"} \/ ClassifyNothing(m)
      BY <1>4 DEF RecordParses, RechunkDone, EmbedDone, ReadOps, RunParsers
    <3> QED BY <3>1 DEF ClassifyNothing, ApplyDelta, Classify, Prune, MarkConsumed, Checkpoint
  <2>2. UNCHANGED <<cmd, sel, next, lock>>
    BY <1>4 DEF ClassifyNothing, RecordParses, RechunkDone, EmbedDone, ReadOps, RunParsers
  <2>3. \/ pc[m] \in Processed
        \/ pc[m] = "classify" /\ pc'[m] = "done" /\ Picked(sel[m]) = {}
    BY <1>2, <1>4 DEF ClassifyNothing, RecordParses, RechunkDone, EmbedDone, ReadOps, RunParsers,
       Processed, OpPCs, Listing
  <2>4. pc'[m] \in Processed \cup {"done"} /\ (pc'[m] \in OpPCs => pc[m] \in OpPCs \/ lock = m)
    BY <1>2, <1>3, <1>4 DEF ClassifyNothing, RecordParses, RechunkDone, EmbedDone, ReadOps, RunParsers,
       Processed, OpPCs, Listing, LockPCs
  <2>5. pc'[m] # "checkpoint"
    BY <2>4 DEF Processed, OpPCs, Listing
  <2> QED BY <2>1, <2>2, <2>3, <2>4, <2>5, MoveKeepsCheckpoint
<1>5. CASE OpsDone(m)
  <2>1. ~ApplyDelta(m) /\ ~Classify(m) /\ ~Prune(m) /\ ~MarkConsumed(m) /\ ~Checkpoint(m)
    BY <1>5 DEF OpsDone, ApplyDelta, Classify, Prune, MarkConsumed, Checkpoint
  <2>2. UNCHANGED <<cmd, sel, next, lock>> /\ pc[m] = "apply" /\ pc'[m] \in {"checkpoint", "mark", "done"}
        /\ (pc'[m] = "checkpoint" => lock # m)
    BY <1>2, <1>5 DEF OpsDone
  <2> QED BY <2>1, <2>2, MoveKeepsCheckpoint DEF Processed, OpPCs, Listing
<1>6. CASE FinishFull(m)
  <2>1. ~ApplyDelta(m) /\ ~Classify(m) /\ ~Prune(m) /\ ~MarkConsumed(m) /\ ~Checkpoint(m)
    BY <1>6 DEF FinishFull, ApplyDelta, Classify, Prune, MarkConsumed, Checkpoint
  <2>2. cmd[m] = "reconcile"
    BY <1>0, <1>6, BeforeFacts DEF FinishFull, CommandInv, FullCommands
  <2>3. UNCHANGED <<cmd, sel, next>> /\ pc[m] = "done" /\ pc'[m] = "prune"
    BY <1>2, <1>6, <2>2 DEF FinishFull
  <2> QED BY <2>1, <2>2, <2>3, MoveKeepsCheckpoint DEF Processed, OpPCs, Listing
<1>7. ASSUME NEW d \in Docs,
             \/ RechunkWrite(m, d) \/ RechunkRecord(m, d) \/ RechunkFails(m, d)
             \/ EmbedSkips(m, d) \/ EmbedReads(m, d) \/ ReplaceDeletes(m, d)
             \/ UpsertBatch(m, d) \/ UpsertLast(m, d) \/ RecordIndexed(m, d)
             \/ ApplyOp(m, d) \/ CompleteOp(m, d)
      PROVE  CheckpointInv(m)'
  <2>1. /\ UNCHANGED <<cmd, sel, next, lock>>
        /\ pc[m] \in {"rechunk", "rechunked", "embed", "replace", "upsert", "indexed", "apply", "complete"}
    BY <1>7 DEF RechunkWrite, RechunkRecord, RechunkFails, EmbedSkips, EmbedReads, Embeds, ReplaceDeletes,
       UpsertBatch, UpsertLast, RecordIndexed, ApplyOp, CompleteOp, runs
  <2>2. /\ pc'[m] \in {"rechunk", "rechunked", "embed", "replace", "upsert", "indexed", "apply", "complete"}
        /\ pc'[m] \in OpPCs => pc[m] \in OpPCs
    BY <1>2, <1>7 DEF RechunkWrite, RechunkRecord, RechunkFails, EmbedSkips, EmbedReads, Embeds, ReplaceDeletes,
       UpsertBatch, UpsertLast, RecordIndexed, ApplyOp, CompleteOp, runs, OpPCs
  <2>3. ~ApplyDelta(m) /\ ~Classify(m) /\ ~Prune(m) /\ ~MarkConsumed(m) /\ ~Checkpoint(m)
    BY <2>1 DEF ApplyDelta, Classify, Prune, MarkConsumed, Checkpoint
  <2> QED BY <2>1, <2>2, <2>3, MoveKeepsCheckpoint DEF Processed, OpPCs, Listing
<1> QED BY <1>1, <1>4, <1>5, <1>6, <1>7 DEF Acts, Step

LEMMA CheckpointNext ==
  ASSUME NEW m, Before(m), [Next]_vars PROVE CheckpointInv(m)'
<1>0. m \in Procs
  BY BeforeFacts
<1>1. CASE \E d \in Docs : \E v \in Versions[d] \cup {Absent} : Publish(d, v)
  <2>1. PICK d \in Docs : \E w \in Versions[d] \cup {Absent} : Publish(d, w)
    BY <1>1
  <2>3. PICK v \in Versions[d] \cup {Absent} : Publish(d, v)
    BY <2>1
  <2>2. v \in Value
    BY ConstantTypes
  <2> QED BY <2>2, <2>3, PublishKeepsCheckpoint
<1>2. CASE Configure \/ (\E d \in Docs : LoseParquet(d)) \/ UNCHANGED vars
  <2>1. UNCHANGED <<snapshot, catalog, row, consumed, lock, pc, cmd, sel, next>>
    BY <1>2 DEF Configure, LoseParquet, source, state, runs, vars
  <2>2. \A d \in Docs : Shown(d)' = Shown(d)
    BY <2>1 DEF Shown, RowValue
  <2>3. /\ CatalogInv' /\ ConsumedIsApplied'
        /\ \A d \in Docs : ShownSince(d, Shown(d)) /\ \A v : ShownSince(d, v) => ShownSince(d, v)'
    BY <2>1, <2>2, HistoryKept
  <2>4. CommandInv(m)'
    BY <2>1, BeforeFacts DEF CommandInv
  <2>5. EventInv(m)'
    BY <2>1, BeforeFacts DEF EventInv, Event, Shown, RowValue
  <2>6. ResumeInv(m)'
    <3> SUFFICES ASSUME cmd[m] = "resume", pc[m] \in {"locking", "classify"}, NEW d \in Picked(sel[m])
                 PROVE  ShownSince(d, sel[m][d])'
      BY <2>1 DEF ResumeInv, Picked
    <3>1. d \in Docs /\ ShownSince(d, sel[m][d])
      BY BeforeFacts DEF ResumeInv, Picked
    <3>2. PICK w : w = sel[m][d] /\ w = sel'[m][d]
      BY <2>1
    <3>3. ShownSince(d, w)'
      BY <2>3, <3>1, <3>2
    <3> QED BY <3>2, <3>3 DEF ShownSince
  <2>7. ReconcileInv(m)'
    BY <2>1, <2>2, BeforeFacts DEF ReconcileInv, Picked
  <2> QED BY <2>3, <2>4, <2>5, <2>6, <2>7 DEF CheckpointInv
<1>3. CASE \E p \in Procs : Acts(p)
  BY <1>3, RunKeepsCheckpoint, HelpersKeepCheckpoint
<1> QED BY <1>1, <1>2, <1>3, NextSplits DEF Environment

LEMMA CheckpointInit == ASSUME NEW m, PrunesFirst(m), Init PROVE CheckpointInv(m)
<1>1. m \in Procs /\ Len(catalog) = 0 /\ consumed = 0
  BY DEF Init, PrunesFirst, SoleWriter
<1>2. \A d \in Docs : snapshot[d] = Absent /\ Shown(d) = Absent
  BY DEF Init, Nothing, Shown, NoRow
<1>3. \A d : ValueAfter(d, 0) = Absent
  BY DEF ValueAfter
<1>4. CatalogInv /\ ConsumedIsApplied
  BY <1>1, <1>2, <1>3 DEF CatalogInv, ConsumedIsApplied, Shown
<1>5. \A p \in Procs : pc[p] = "idle" /\ cmd[p] = "none"
  BY DEF Init
<1> QED
  BY <1>1, <1>4, <1>5 DEF CheckpointInv, CommandInv, EventInv, ResumeInv, ReconcileInv, OpPCs

\* If the source does not publish while a command has its snapshot, and full
\* ingests prune, no row is ever older than the checkpoint: a delta marked as
\* consumed, one by one or by the checkpoint of a reconcile, has reached the row
\* of its document, whatever fails, whatever resume read before a helper moved
\* the row on, and whichever other processes parse.
THEOREM ConsumedStaysApplied ==
  ASSUME NEW m, PrunesFirst(m), ~SourceMoves PROVE Spec => []ConsumedIsApplied
<1> DEFINE Whole == IInv(m) /\ ArtifactInv /\ CheckpointInv(m)
<1>0. SoleWriter(m)
  BY DEF PrunesFirst
<1>1. Init => Whole
  <2>1. Init => ArtifactInv
    BY DEF Init, ArtifactInv, SnapshotHeld, FromSnapshot, FullCommands, ParseOnly, PruneSelects, ChunkList,
       Listing, ParsesKept, NoRow
  <2> QED BY <1>0, <2>1, InitInv, CheckpointInit
<1>2. Whole /\ [Next]_vars => Whole'
  <2> SUFFICES ASSUME IInv(m), ArtifactInv, CheckpointInv(m), [Next]_vars
               PROVE  IInv(m)' /\ ArtifactInv' /\ CheckpointInv(m)'
    OBVIOUS
  <2>1. SnapshotHeld' /\ PruneSelects'
    BY SnapshotNext DEF IInv, ArtifactInv
  <2>2. Before(m)
    BY DEF Before, ArtifactInv
  <2> QED BY <1>0, <2>1, <2>2, InvNext, ChunkListsNext, ParsesKeptNext, CheckpointNext DEF ArtifactInv
<1>3. Whole => ConsumedIsApplied
  BY DEF CheckpointInv
<1> QED BY <1>1, <1>2, <1>3, PTL DEF Spec
================================================================================
