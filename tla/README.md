# KnowledgeHub: specifications, model checking and proofs

KnowledgeHub is a Python package (`src/src/knowledgehub`, about 40,000 lines)
that synchronises a Zotero library into versioned manifest files, turns the
documents into parse artifacts, chunks and vectors in Qdrant, builds further
collections from code repositories and from writing material that a language
model extracted and people reviewed, and serves all of them to command-line
tools and an MCP server. There is no central server process: commands run by
systemd timers and by operators share SQLite databases, files, lock files and
Qdrant collections. What makes it hard is protocol: several short-lived
processes, each of which can be killed or see a call fail between any two
effects, and which must leave state that the next process can complete.

This directory holds TLA+ models of the parts where that matters, TLC
configurations for them, and TLAPS proofs. `tasks.py` and so on are paths below
`src/src/knowledgehub`.

## 1. Inventory

| Component | State it keeps | Operations | What is hard | What makes it correct |
|---|---|---|---|---|
| Task store and executor, `governance/tasks.py` | tables `tasks`, `attempts`, `locks`; a heartbeat thread per execution | `begin`, `finish`, `acquire`, `renew`, `release`, `TaskExecutor.execute`, `task unlock --force` | expiring leases, stale recovery of live processes, crashes | mutual exclusion; an outcome goes to the attempt that produced it; attempts are append-only; crashed tasks are recovered |
| WebDAV cache, `sources/zotero/webdav_cache.py` | mirrored files, index, progress index | list, download, adopt, prune, write index | the collection changes under the listing; interrupted refreshes; weak servers | an entry never claims more than the file holds |
| Zotero attachments, `sources/zotero/attachments.py`, `sync.py` | `attachments` and `mapping_validation` rows, extracted and staged PDF files | scan, observe twice, hash, select, extract, stage, commit | reads files that a refresh replaces under another lock | a ready attachment has the PDF of one archive |
| Zotero client, records, deltas, `sources/zotero/client.py`, `sync.py`, `manifest.py`, `rebuild.py` | object tables, `library_version`, `documents` | listings, batches, deletions, merge, record, delta, rebuild | the library is edited between the requests of one sync | one version of the library is committed; the deltas add up |
| Zotero publication, `sources/zotero/sync.py`, `manifests/catalog.py` | `library_state`, `sync_runs`, published files, backups, staging, intent | prepare, publish, commit, rollback, recover | files and database must change together; recovery of recovery | the files are what the database committed, nothing is lost |
| RAG pipeline, `pipeline/*`, `indexing/qdrant.py` | `pipeline_documents`, `index_operations`, `consumed_deltas`, Parquet files, points, `rag.lock` | incremental, full, reconcile, resume, parse, embed | four stores without a common transaction; selection before the lock | "ready" is really indexed; checkpoints follow effects; the collection converges |
| Writing material extraction, `writing_rag/extract.py` | `extraction.sqlite3`, `runs/<run_id>/` with manifest, pilot gate and approval | extract, dry run, pilot, resume, retry | crash at any write; sources move without a common lock; refused answers | rows never outrun checkpoints; a resumed run forgets no failure |
| Writing material review, `writing_rag/review.py`, `pilot.py` | event log, immutable snapshots, pointer, packets, receipts | apply, render, materialize, audit, packet, import, reconcile, candidate build | crash between two files; index builds without the lock | an index holds one reviewed state; a crash is repairable |
| Writing material release, `writing_rag/release.py`, `governance/snapshots.py` | candidate collections, reports, manifests, alias, `staged.json`, `current.json`, `transaction.json` | build, stage, promote, roll back, recover | the alias is in Qdrant, its record in a file | alias and files agree; a switch is one step |
| Writing material retention, `writing_rag/retention.py`, `release_retention.py`, `retention_coordinator.py` | intents and receipts of six stages, quarantine, cache scopes | migrate, purge, decommission, quarantine, dispose, purge | long irreversible operations repeated after a death | what is served or shared is never deleted |
| Code RAG, domain index, snapshots and releases, `code_rag/*`, `indexing/incremental.py`, `governance/releases.py`, `validation.py`, `snapshots.py`, `maintenance.py` | checkouts and markers, data directories, release manifests, collections, snapshot manifests | sync, build, diff, validate, stage, promote, snapshot, clone, recover, clean, prune | `index`, `clean` and `prune` commands take no lock | a verified and a served release is complete |
| Embedding endpoint pool, `embeddings/endpoint_pool.py` | health, backoff, in-flight count per endpoint | acquire, success, failure, retry | threads, timers, all endpoints down | each batch is answered once and in order |
| MCP server, `mcp/*` | token files, circuit breakers, limits | issue and revoke, tool calls | breaker and limiter races | limits hold; a breaker closes again |
| Project registry and context, `project/*` | registry file, locks | register, edit, lock versions | concurrent editors | locked versions are reported |
| Query side, workflows, evaluation, parsing, chunking, argument parsing, hashing | none, or output files | ranking, text and report generation | text processing by libraries | outside the reach of a state model |

How they interact. A WebDAV refresh mirrors archives that an attachment sync
reads, each under a lock of its own. A sync reads the library request by
request, resolves its attachments and publishes files and database together. The
pipeline reads the published files without a lock, by name; the catalog's
sequence numbers are the only protocol between them. Extraction reads the rows
of the pipeline, again without a common lock. Review reads the run that
extraction left; a release build reads the accepted snapshot; promotion moves
the alias; retention takes all of it away. Code, writing and governance tasks
run inside `TaskExecutor.execute`; source and pipeline use lock files
(`core/locking.py`); `index`, `clean` and `prune` commands use neither.

`PROJECT.json` lists every component with its sources and status, and under
`hazards` what tests of this code would hardly reach, with the properties that
would notice.

## 2. The modules

| Module | Code | Extends or instantiates |
|---|---|---|
| `TaskStore`, `MCTaskStore`, `TaskStoreProofs` | `governance/tasks.py` | |
| `Mirror` | abstract: what readers of the WebDAV mirror rely on | |
| `WebDavCache`, `MCWebDavCache`, `MirrorProofs` | `sources/zotero/webdav_cache.py` | extends `Mirror` and implements it |
| `AttachmentSync`, `MCAttachmentSync`, `MirrorProofs` | `sources/zotero/attachments.py`, `sync.py` | composed with `Mirror`: the mirror's steps interleave with the sync's |
| `LibrarySync`, `MCLibrarySync`, `LibrarySyncProofs` | `sources/zotero/client.py`, `sync.py`, `manifest.py`, `state.py`, `fingerprints.py`, `rebuild.py` | |
| `ZoteroPublication`, `MCZoteroPublication`, `ZoteroPublicationProofs` | `sources/zotero/sync.py`, `manifests/catalog.py` | |
| `RagPipeline`, `MCRagPipeline`, `RagPipelineProofs` | `pipeline/*`, `indexing/qdrant.py`, `core/locking.py` | |
| `WritingExtraction`, `WritingMaterialProofs` | `writing_rag/extract.py`, pilot gate of `pilot.py` | |
| `WritingReview`, `WritingMaterialProofs` | `writing_rag/review.py`, `pilot.py`, `materials.py` | |
| `AliasRegister` | abstract: what promotion promises | |
| `CollectionPromotion` | `writing_rag/release.py`, `governance/snapshots.py` | `INSTANCE AliasRegister WITH served <- Served, fallback <- FallbackNow` |
| `WritingRetention`, `WritingRetentionProofs` | `writing_rag/retention.py`, `release_retention.py`, `retention_coordinator.py` | extends `CollectionPromotion`: retirement rolls back the same alias |
| `CodeRelease`, `MCCodeRelease`, `CodeReleaseProofs` | `code_rag/*`, `indexing/incremental.py`, `governance/*` | |

Modules without an `MC` module take their constants from the `.cfg` alone.

### TaskStore

Each SQLite transaction is one action: `Begin` (with the stale recovery it
contains), `Acquire`/`AcquireRefused` for each lock in sorted order, `Heartbeat`
and `HeartbeatLost` for `renew`, `RecordResult`, the exception path
(`ReadFailedTask`, a separate transaction from `FinishFailed`), `Release` in
reverse order. The join of the heartbeat thread has a timeout, so
`OperationReturns` may leave it running. `Crash`, `ForceUnlock` and `Tick` are
the environment. `status`, `age` and `retry` are the task row, `attempts[k]` the
rows of a task's attempts, `lockTask` and `lockLeft` a lock row; `held`, `hb`,
`result`, `pc` and `key` are the local variables of `execute`; `lockBy` and `att`
are history. Time is kept as remaining or elapsed ticks, cut off where the code
no longer tells them apart, so the clock needs no bound. `reuse_completed=True`
and empty `lock_keys` are left out: no caller of `execute` uses them.

### Mirror, WebDavCache

`Mirror` says what a reader of the mirrored files may rely on: one file at a time
is replaced by complete content that is no older, or removed, and every change
shows in its inode and mtime (`stamp`). `WebDavCache` is `refresh_webdav_cache`:
`ListPage` per object (pages may repeat one), `SkipObject`, `AdoptObject`,
`Download` with the validation of headers and length, `Checkpoint` of the
progress index, `PruneObject`, `WriteIndex`, `RemoveProgress`. `RefreshFails` may
happen anywhere and stands for a failed request and for a death; `Upload` and
`RemoveRemote` change the collection at any time. A version stands for content
and validators; `Size` gives several versions the same length, because a server
without ETags leaves only the length to compare, and `Servers` lists what a
server tells. `trusted` (files adopted unseen) and `quiet` are history.

### AttachmentSync

`_resolve_attachments` for one archive: the scan that decides which archives to
look at (mode, mapping, location, missing extraction), the first and the second
observation of the archive's signature, the hash, the reuse of an earlier
extraction, the choice of a member by name, extraction and staging, and the rows
that the sync commits. Between any two of these the mirror takes a step of
`Mirror`: the sync may rely on nothing else. An archive version has a set of
member names (`Members`) or is not a readable ZIP (`Broken`). A PDF is the pair
of the archive version and the member it came from. `look` is what the sync
remembers, `found` and `staged` what it will commit; `lost` and `calm` are
history.

### LibrarySync

The library is edited (`past` remembers each version) between any two requests of
a sync: version listing, object batch, deletion log. `seen` collects the
`Last-Modified-Version` of every answer; a sync whose answers disagree starts
again, up to `Attempts` times. The merge into the tables, the document record, the
change reason and the delta follow, and one step commits (the parts of that step
are `ZoteroPublication`). Incremental, full and rebuild syncs differ in the
version they read from. What the attachment resolves to is an input of each sync
(`Resolutions`). `replay` applies the published deltas as the pipeline does, and
`chunked` remembers the PDF of the last delta that asked for chunking.

### ZoteroPublication

| Code | Model |
|---|---|
| `library_state.active_sync_id`, `.library_version`, `sync_runs.status` | `active`, `version`, `runs` |
| a published file; its backup; the staging directory | `target`, `backup`, `staged`; the content of a file is the sync that wrote it |
| `runs/<sync_id>/publish-intent.json` | `intent`; with status `"none"` it is only the entries list in memory |
| `delta-catalog.jsonl` | one of the files; `chain[s]` is what run `s` wrote in it |
| `_PublicationSession` in use by the run or by recovery | `ses`, `todo`, `published`, `ret` |

Every rename, unlink and write that recovery can observe is an action, and eight
actions put a failure between any two (`PrepareFails`, `IntentWriteRaisesLate`,
`TransactionFails`, `CommitRaisesLate`, `HandleErrorBlind`, `SessionFails`,
`FailureNotRecorded`, `Crash`). `truth` is history: the content that committed
runs gave each file. `undone` records that the error handler rolled back a
committed publication because it could not read `library_state`; the properties
are claimed until then. Files come in the three kinds the code distinguishes:
rewritten by every run (the catalog), rewritten when changed or missing
(`documents.jsonl`, `collections.json`), and named after the sync
(`deltas/<sync_id>.jsonl`). Left out: `bind_library`, and `summary.json` of a
failed run, which nothing reads.

### RagPipeline

| Code | Model |
|---|---|
| `documents.jsonl`, the catalog with its deltas | `snapshot`, `catalog` |
| a row of `pipeline_documents` | `row[d]`: source status, content and metadata fingerprints, parse, chunk and index stages with the fingerprints they were made from |
| the pending row of `index_operations` | `op[d]` |
| `consumed_deltas` | `consumed`, its last sequence |
| parse artifact, Parquet file, Qdrant points | `parsed`, `parquet`, `points` |
| `rag.lock` | `lock` |
| a command in progress | `pc`, `cmd`, `sel` and the work lists |

The actions follow `_process_documents` in order: classify and invalidate, run
the parser processes, record, re-chunk, embed, replace in Qdrant (a delete and
upserts in batches), record, apply pending index operations, mark the delta.
`full` and `reconcile` go on after `rag.lock` was released, as the code does.
`Fails` stands for an exception and for a crash: both leave the same rows,
artifacts and points, and the kernel frees the lock. A document is what its
fingerprints tell apart: content `c`, metadata `m`, chunker configuration `k`;
`Versions` lists the pairs the source may publish. One document in a delta; the
chunker's configuration stands for those of parser and embedding model; the
audit tables `work_queue` and `pipeline_runs`, which no command reads back, are
left out.

### WritingExtraction

The `extract` command: selection (pinned source versions), the plan (what is new,
stale, failed or current), dry run, fixture pilot, the gate report and its signed
approval, and per document: load, ask, keep or refuse, write the assets file by
file, write the manifest, write the row. `--resume-run-id` reads the checkpoint
back, and `--retry-failed` plans failures again. Meanwhile a source moves
(`SourceMoves`), a delta is consumed, or the configuration changes. What a
document yields is named by the source version it was made from; what the model
answers is one of a few result classes. `drifted` and `torn` are history: sources
that moved between selection and load, and commands that died inside a
checkpoint.

### WritingReview

Every write of `apply` is a step: the snapshot directory, its files, its marker,
the event log, the status file, the pointer. `Render`, `AuditQuality`,
`RenderPacket`, `ApplyQuality` with `WriteReceipt`, and `Reconcile` are the other
commands under the lock of the run; the candidate index build (`IndexValidate`,
`IndexResolve`, `IndexRead`) takes no lock and interleaves with all of them. The
hash of an event log is the log. `stuck` is history: a crash fell in one of the
two windows of `Unrepairable`.

### AliasRegister, CollectionPromotion, WritingRetention

`AliasRegister` has two variables, what is served and what a rollback returns to,
which change together in one step. `CollectionPromotion` has the durable writes:
`transaction.json` prepared, the alias request, the journal's second status,
`current.json`, the commit, and `recover-promotion` for a journal that a death
left pending; and the release build that makes what is promoted (clone, merge,
report, manifest). `step` is the next write of the running command; it may die
before each. `WritingRetention` extends it with the stages that end a run, each
an intent, effects and a receipt (`scopeFile`, `cacheFile`, `retireFile`,
`refFile`, `runFile`, `coordFile`), with cache entries and their scopes, with
quarantine, a clock, and the coordinator that calls the stages in order
(`disposing`). A retirement performs the rollback of `CollectionPromotion`
(`RollbackThen("rolled")`) and goes on. Commands run one after the other (section 5 says what the code does about that); the releases
are those of one run.

### CodeRelease

Two processes: `job`, the task that holds the library and index locks (a sync, a
candidate build or a version diff), and `op`, an `index`, `clean` or `prune`
command, which takes no lock. A document is a library's files or the diff that a
checkout brings; `rel[c]` is the manifest and data directory of a candidate with
what the artifacts say (`norm`, `rows`, `chunks`, `runs`), `coll[c]` its points.
The indexer's chunk write, delete, upsert (in `Pieces` batches) and row, the
validation over the three and its seal (checksums taken after the checks), stage,
promote, snapshot, clone file by file, and recovery are separate steps, any of
which may be the last of its process. Promotion is one step here, which is what
`CollectionPromotion` is shown to implement.

## 3. The runs

| Run | Instance | What it shows |
|---|---|---|
| `taskstore_leased` | 2 processes, 2 tasks, 2 locks, TTL 2, one crash, leases kept; 485,000 states | `MutualExclusion`, `RunnerOwnsAttempt`, `RetryCount`, `CrashRecovered` |
| `taskstore_unleased` | 2 processes, 1 task, leases may expire at any moment, forced unlocks; 1.6 million states | `AttemptLedger`, `AttemptsAppendOnly` |
| `taskstore_stolen_lease` | as above, no crash | `RenewsOnlyOwnLease` is violated (section 5) |
| `publication` | 3 files (one of each kind), 3 syncs, 3 faults; 158,000 states | `FilesMatchDatabase`, `NothingLost`, `CatalogIsHistory`, `IntentResolved` |
| `pipeline` | 2 documents, a process with four commands and one that parses beside it, 2 publications, one fault, one change of configuration; 570,000 states | `ReadyIsIndexed`, `ArtifactMatchesState`, `ConsumedIsApplied`, `Converges` |
| `webdav` | 1 attachment (2 objects), 4 uploads, 3 refreshes, 2 faults, 4 kinds of server | `IndexNeverAhead`, `RefreshMirrors`, `RefreshIsMirror` |
| `attachments` | 1 attachment, 3 archive versions of which one is broken and one ambiguous, 3 syncs, 4 changes of the mirror | `ReadyIsFromArchive`, `ReadyHasFile`, `ScanIsComplete` |
| `library` | 1 collection, 1 item, 1 attachment, 5 edits, 2 attempts, one fault, 5 resolutions; any number of syncs | `CommittedIsLibrary`, `DeltasTellAll`, `CatchesUp` |
| `extraction` | 2 documents, 2 runs, 2 source versions and configurations, any two upsets | `RecordedIsCheckpointed`, `MarkerNeverAhead`, `SuccessIsComplete`, `MadeFromSelection`, `RunsFinish` |
| `review` | 1 evidence and its material, 3 events, one crash | `MarkedIsWhole`, `IndexedIsReviewed`, `RepairableAtRest`, `AcknowledgedIsCurrent` |
| `retention` | 3 collections (base, an older release, one candidate), 1 cache entry with any scopes, one death; 5.1 million states | `AliasHasItsFiles`, `ServedExists`, `SwitchIsAtomic`, `QuarantinedIsUnreferenced`, `SharedAnswersKept` |
| `code_release` | 1 library, 2 candidates, 2 tasks, 5 unlocked commands, one fault, symmetric; 2.2 million states | `VerifiedIsComplete`, `ServedIsComplete`, `EligibleHasAllLibraries` |

Deadlock is checked where a process can always go on (`taskstore_*`, `pipeline`,
`library`, `review`); in the other runs the system stops once a bound is used up,
and the `.cfg` says `CHECK_DEADLOCK FALSE`.

Why the bounds are enough for the cases meant.

- A stolen lease needs two executions and one expiry; stale recovery needs
  `age > TTL`, which TTL 2 reaches after a first lock and before it. `MaxAttempts`
  bounds attempts *beside* one for every crash, so that recovery is always
  possible.
- Three faults in a publication let a rollback be interrupted twice after the
  failure that caused it; three syncs give recovery a committed predecessor and a
  successor.
- Two documents are what `_embed_and_index` and `_apply_index_operations` need to
  fail between documents. The first changes content or metadata, the second comes
  and goes. One process issues `reconcile`, `resume`, `incremental` and `embed`,
  the other parses whenever it likes; two processes that both read deltas violate
  `ConsumedIsApplied` (section 5).
- Four uploads of two lengths give each of `.prop` and `.zip` an old and a new
  version, of equal and of different length; a third refresh meets the index and
  the progress index that two interrupted ones left.
- In `library` the number of syncs is not bounded: five edits are what one sync
  with two attempts can be disturbed by and the next one catch up with.
- Two upsets in `extraction` are a crash during the resumption of a crashed run,
  or a crash and a source that moved. Three review events are a decision, its
  revision and a quality decision.
- Three collections are the smallest number with a rollback target that is
  neither the base nor the candidate. `code_release` needs two candidates so that
  a release is served while another is built, and five unlocked commands for
  validate, stage, promote and two more beside a second task.

Each property of a passing run has a mutant in `PROJECT.json`: a definition
(marked as such in the module) that changes one mapped definition as a plausible
bug would, and makes TLC report that property.

## 4. Fairness

- TaskStore: weak fairness of each execution's steps (the scheduler runs
  processes, and operations terminate), of heartbeats, of time, and of some
  process asking for each task again, as the timers and operators do.
- ZoteroPublication: weak fairness of the run's own steps, which include the start
  of the next run by `deploy/systemd/knowledgehub-zotero-sync.timer`. Faults are
  bounded, so they stop.
- LibrarySync: weak fairness of starting an incremental sync (the same timer) and
  of a running sync's steps (requests have timeouts and bounded retries).
- RagPipeline: weak fairness of the steps of a started command; strong fairness of
  issuing `incremental` and `resume`, because with other commands running they are
  not continuously enabled: the timer fires again and again and so does the
  operator. `Converges` is stated for behaviours in which some process is
  eventually left alone, because commands that overlap for ever can undo each
  other's work.
- WritingExtraction: weak fairness of a started command, strong fairness of
  resuming each run: an operator continues an interrupted run as often as the
  command is free and admits it.

## 5. Where the code and its documents disagree, and other exposures

One disagreement has a run of its own. A renewal can succeed on somebody else's
lease: `renew` matches rows by `task_id`, which a retry shares with the execution
it replaced (`governance/tasks.py:239`), while `docs/v2_architecture.md:60` says
that a stolen lease fails the task. TLC finds both executions operating in
`taskstore_stolen_lease`.

The models also show the following. No passing run claims the contrary; where a
constant or a choice of commands keeps a run away from one, it is named.

Source and pipeline:

- A reader can miss a published name: `publish` renames the target away before it
  renames the staged file there (`sync.py:1010`); `docs/manifests.md:30` promises
  the previous or the new complete file.
- When the commit raised late *and* `library_state` cannot be read afterwards, the
  handler rolls back the files of a committed run (`HandleErrorBlind`). The
  properties of ZoteroPublication are claimed until that event (`undone`).
- `full` without `--prune` checkpoints deletions it did not apply
  (`orchestrator.py:170`; `docs/manifests.md:287`, `:289`). The `pipeline` run
  issues `reconcile`, which prunes.
- An incremental run that waited for the lock applies old deltas over newer ones
  (`orchestrator.py:174`; `docs/manifests.md:282`). In the run one process reads
  deltas.
- With `SourceMoves = TRUE` a `reconcile` checkpoints a delta published after it
  read the snapshot, and `ConsumedIsApplied` is violated.
- A payload update is completed without having been applied when an embedding of
  older chunks finishes first (`orchestrator.py:649`).
- `prune` outside `rag.lock`, and two `embed` commands (one of them `--force`),
  can undo each other's points; after the last document of a library was pruned, a
  failed index delete is not retried (the condition in `Converges`).

Writing material:

- A resumed pilot goes on past a failure that was recorded before its process
  died, while a pilot that did not die stops there
  (`docs/writing_material_extraction_followup_plan.md:422`).
- Two windows of `apply` (`Unrepairable` in `WritingReview`) leave a run that no
  command repairs; the review properties are claimed outside them (`stuck`).
- A release built for a run on top of an earlier release of the same run fails its
  point count: the evidence identifiers replace one another instead of adding up.
- A `dispose` that dies between the quarantine intent and the rename is refused by
  every repetition, because the repeated plan carries another time
  (`retention.py:357`); `docs/writing_material_retention_runbook.md:52` says that
  repeating the command recovers.

Code knowledge base:

- `build diff` writes into the data directory of the active release and through the
  alias; `docs/code_rag.md:36` calls a validated release immutable. `ServedIsComplete`
  says what remains true.
- `clean source` during a sync can remove a checkout that was renamed into place
  and not yet named by its marker, and the next build takes the missing directory
  for an empty library. With `CleanRaces = TRUE` TLC finds the violation of
  `EligibleHasAllLibraries`, in about twenty steps; the run has `FALSE`.
- Release notes carry no commit, which the validator asks of every row, so a
  release that contains one does not validate.
- The incremental indexer skips a document whose row is as before: after a
  replacement that failed between the delete and the row, returning to the earlier
  content leaves its points missing
  (`docs/multi_rag_extension_design.md:26` calls the replacement atomic).

Release and retention:

- `release build` holds only the lock of its candidate, and `stage`, `promote` and
  `rollback` hold none (`cli/writing_material.py:867`, `:876`), while retention
  commands hold `index:writing:promotion`. Nothing in the code keeps an operator
  from promoting during a retirement, from promoting twice at once, or from ending
  a build after the run it validated has been quarantined. `CollectionPromotion`
  and `WritingRetention` are about commands that run one after the other, each of
  which may die at any write; their properties and theorems say nothing of
  overlapping ones.

## 6. What is proved

TLAPS checks these theorems for every value of the constants that satisfies the
named assumptions of the modules (`ConstantsAssumption`, `LibraryAssumption`, `MirrorAssumption`,
`WebDavAssumption`, `PromotionConstants`, `RetentionConstants`,
`ExtractionConstants`, `CodeReleaseConstants`, `AbsentIsNoValue`), which TLC
evaluates in the runs. `MirrorProofs` holds the proofs of the two models that extend
`Mirror`, the mirrored directories (WebDavCache and AttachmentSync), and
`WritingMaterialProofs` those of the two models of writing materials
(WritingExtraction and WritingReview), which share nothing.

| Module | Theorem | States | Under |
|---|---|---|---|
| `TaskStoreProofs` | `TypeCorrect` | `Spec => []TypeOK` | |
| | `AttemptLedgerHolds` | `Spec => []AttemptLedger` | |
| | `AttemptsAreAppendOnly` | `Spec => AttemptsAppendOnly` | |
| | `LocksExclude` | `Spec => []MutualExclusion` | `LeaseKept`, no forced unlock |
| | `OutcomesGoToTheirAttempt` | `Spec => []RunnerOwnsAttempt` | `LeaseKept`, no forced unlock |
| | `RetriesAreCounted` | `Spec => []RetryCount` | `LeaseKept`, no forced unlock |
| `ZoteroPublicationProofs` | `FilesMatch` | `Spec => []FilesMatchDatabase` | |
| | `ContentIsNeverLost` | `Spec => []NothingLost` | |
| | `CatalogTellsHistory` | `Spec => []CatalogIsHistory` | |
| `MirrorProofs` | `IndexIsNeverAhead` | `CacheSpec => []IndexNeverAhead` | |
| | `RefreshLeavesMirror` | `CacheSpec => []RefreshMirrors` | |
| | `RefreshImplementsMirror` | `CacheSpec => RefreshIsMirror` | |
| | `ReadyStaysFromArchive` | `AttachmentSpec => []ReadyIsFromArchive` | |
| | `ReadyKeepsFile` | `AttachmentSpec => []ReadyHasFile` | |
| | `ScansAreComplete` | `AttachmentSpec => []ScanIsComplete` | |
| `LibrarySyncProofs` | `SyncCommitsLibrary` | `Spec => []CommittedIsLibrary` | |
| | `DeltasAddUp` | `Spec => []DeltasTellAll` | |
| `RagPipelineProofs` | `ReadyStaysIndexed` | `Spec => []ReadyIsIndexed` | `SoleWriter` |
| | `ArtifactsMatch` | `Spec => []ArtifactMatchesState` | `SoleWriter`, `SourceMoves = FALSE` |
| | `ConsumedStaysApplied` | `Spec => []ConsumedIsApplied` | `PrunesFirst`, `SourceMoves = FALSE` |
| `WritingMaterialProofs` | `RowsAreCheckpointed` | `ExtractSpec => []RecordedIsCheckpointed` | |
| | `MarkerStaysBehind` | `ExtractSpec => []MarkerNeverAhead` | |
| | `SuccessStaysComplete` | `ExtractSpec => []SuccessIsComplete` | |
| | `RunsUseTheirSelection` | `ExtractSpec => []MadeFromSelection` | |
| | `MarkedStaysWhole` | `ReviewSpec => []MarkedIsWhole` | |
| | `IndexStaysReviewed` | `ReviewSpec => []IndexedIsReviewed` | |
| | `CrashIsRepairable` | `ReviewSpec => []RepairableAtRest` | |
| | `ReceiptsStayCurrent` | `ReviewSpec => []AcknowledgedIsCurrent` | |
| `CodeReleaseProofs` | `VerifiedStaysComplete` | `Spec => []VerifiedIsComplete` | |
| | `ServedStaysComplete` | `Spec => []ServedIsComplete` | |
| | `EligibleStaysWhole` | `Spec => []EligibleHasAllLibraries` | `CleanRaces = FALSE` |
| `WritingRetentionProofs` | `ReaderGetsItsFiles` | `RetentionSpec => []AliasHasItsFiles` | |
| | `AliasNeverDangles` | `RetentionSpec => []ServedExists` | |
| | `SwitchIsOneStep` | `RetentionSpec => SwitchIsAtomic` | |
| | `QuarantineIsLast` | `RetentionSpec => []QuarantinedIsUnreferenced` | |
| | `AnswersStayShared` | `RetentionSpec => SharedAnswersKept` | |

**TaskStore.** `Typed` is `TypeOK` and that an idle process holds nothing.
`Ledger` adds `AttemptLedger`, which is inductive once it is known that
`CloseRunning` and `RecordOutcome` keep the length of a sequence and touch only
running entries (lemmas `CloseRunningRows`, `RecordOutcomeRows`); it needs no
assumption about leases. `MutualExclusion` is not inductive: that `held[e]` and
`held[f]` are disjoint follows from what the lock *rows* say. `LeaseHeld` (a lock a
process believes in is a live row it inserted for its own task) is, together with
`RunnerOwnsAttempt` (no other active process has the same task, so that stale
recovery deletes nobody's rows) and `RecentStart` (a process without a lock began
at most a TTL ago, so that it is not taken for stale). Their conjunction with
`Ledger` is `Leased`; it is kept by every step when `Tick` is timely. `RetryInv`
adds the counter to it; its lemmas say that `begin` counts the attempt before the
new row and that `finish` changes only the last row, which is not counted.

**Publication.** The invariant `PubInv` is `Typed` and, until the event `undone` of
section 5, `FilesInv` and `RunInv`. `FilesInv` says of the durable state alone that
at most one intent is open (`OneOpen`); that without one the files are those the
database names and no backup is left (`Undisturbed`); and that each file of an open
publication is where its kind allows: before the commit (`Undecided`) every entry
is `Kept` in the target, `Aside` in the backup, or `Replaced` with the old file in
the backup, so rollback can restore it; after the commit (`Decided`) every entry is
the new file and the database says so. `RunInv` ties that to the position of
the running or recovering process: what is still in `todo`, and which of the three
each file before and after that position is in. Neither half is inductive alone: a
crash forgets the position and keeps `FilesInv`, and the next move needs the
position. Each file move is one of four lemmas (`FilesStay`, `EntryMoves`,
`IntentAppears`, `IntentVanishes`) and the commit a fifth (`CommitDecides`).

**Delta catalog.** `CatInv` speaks of the catalogs the runs wrote (`chain`) and not
of the file that holds one: the catalog of the run `library_state` names is
continuous, lists the successful runs and ends in `library_state` (`IsHistory`);
what a run between `prepare` and the commit is going to record is that catalog with
one entry appended (`NextCatalog`); every open publication has a continuous one. So
no file move matters to it. `PubInv` closes the gap: with nothing open the file is
the recorded catalog, otherwise it is that one, absent, or the open run's.
`AppendedFacts` is the lemma about `append_delta_catalog`.

**WebDAV cache.** `CacheInv` is `Typed`, `NothingNewer` (no file, listing or
index entry is newer than the object of the collection, nor than the last upload),
`WalkedHasListed` (an object the loop has
passed has in the mirror at least the version that the listing named) and
`IndexNeverAhead`. The last is not inductive alone: the index is written from the
listing after the loop, so its rows are not ahead only because of
`WalkedHasListed`, and a download is not older than what it replaces because of
`NothingNewer`. The refinement follows step by step: each step that changes a file
is one of the mirror's, and all others leave it alone. `RefreshMirrors` is about one
refresh during which nobody uploads; `QuietWalk` is what such a refresh has done up
to each of its steps: the listing is the collection as far as it has come, an object
the loop has passed is as listed (unless its stored validator was trusted), and
before the index is written what was not listed has been pruned.

**Attachments.** What a row says of its archive must survive the next download of
that archive. `RowIsFromArchive` ties the file of a row to the contents it was taken
from, whatever is there now; `RowKnowsArchive` says that the contents are still those
as long as the stamp the row was resolved with is the stamp of the archive. The rows
keep both (`RowsInv`), and so do the resolutions of the running sync, with the files
it has staged (`FoundInv`), the signatures it has observed (`LookInv`) and the archive
it is reading (`CurrentInv`). `ScanIsComplete` then needs the reuse of rows: while
nothing moves below a sync (`CalmInv`), what it does not ask for and what it has
resolved so far already tells what the mirror holds, because a row with the same
stamp is of the same archive. `ReadyHasFile` is inductive with them: the commit
writes the file of a resolution that is staged, and finds in place that of one that
is not.

**Library sync.** `HistoryInv` says of the library that what was neither edited nor
deleted after a version is as it was then, and that nothing disappears without an
entry in the deletion log; `AnswersInv` what each answer of a sync says *if* the
library still has the target version (`Answered`), which is all that the check
before the commit establishes. `AppliedIsLibrary` then shows for each mode that the
merge is the library: incremental from the base version, full with the deletion
log, rebuild from nothing. `DeltaInv` needs only `ReasonFacts`: a change without a
reason is none, and a ready document that is not chunked again had the same PDF.

**RAG pipeline.** `SoleWriter(m)`: process `m` issues any command but
`embed --force`, all others `parse` and `parse --force`. The condition is needed:
index operations are applied and pruned documents removed after `rag.lock` was
released, and `embed` chooses its documents before it takes it (section 5), so two
writers can delete each other's points. `ReadyIsIndexed` is not inductive; `IInv`
adds what a row, an artifact and the work lists say of each other: the lock's
holder is at a step of its own (`LockHeld`); what is on disk fits the row wherever
the chunk stage is ready (`Artifacts`); a document still to be parsed or chunked is
neither chunked nor indexed in its row (`ParseLists`); what `m` still has to embed
is not indexed (`EmbedLists`), what it upserts fits the row, and what it deletes is
not indexed (`Writes`). `OthersSame`, `RowsLocked` and `HelperActs` say what the
step of one process leaves to the others, so each lemma has one case per action of
the process concerned. `ArtifactsMatch` needs that a prune, which writes rows
without the lock, spares what another process is about to chunk (`PruneSpares`):
true because both have selected from the same snapshot. With `SourceMoves = TRUE`
TLC finds the violation (a row with ready chunks and a stale parse).
`ConsumedIsApplied` compares the rows with the history of a document, which is an
operator on the catalog (`ValueInLast`: what one more delta changes; `ValueInKept`:
what a later one does not). `CheckpointInv` adds to it what each command is about to
write: an incremental run is at the first delta after the checkpoint, and from its
classification to the mark the row shows what the delta says, because nobody else
classifies while it holds the lock (`EventInv`); what `resume` has read of the rows is
a value since the checkpoint, which nobody moves meanwhile (`ResumeInv`); after a
reconcile has classified and then pruned, all rows show the snapshot
(`ReconcileInv`), and a helper that parses beside it writes the same snapshot.
`PrunesFirst(m)` is `SoleWriter(m)` without `full` and `full --force`: these checkpoint
delete deltas they have not applied (section 5). TLC finds the invariant violated with
them, and with `SourceMoves = TRUE` (a helper's old snapshot overwrites a newer row).

**Extraction.** `ExtractInv` follows an asset on its way: what the process has in
memory contains the run's files, which contain what the manifest counts (`MemoryInv`,
`StoreInv`), and each write makes the next inclusion an equality. Hence
`DocumentInv`, that when a row is about to be recorded the manifest counts exactly
the memory, and `RecordedIsCheckpointed`. `Balanced` (if no document has failed, the
evidence and the materials are of the same documents) gives `SuccessIsComplete`; `MadeFrom` relates
events to the selection of the run until the run has drifted. `PlanInv` says what a
resume has loaded before it plans. That the run takes *some* planned document next is
`LeastExists`: a set of numbers has a least one.

**Review.** The log a running `apply` has decided on extends the recorded events and,
once it shows anything, is equal to them (`ApplyInv`); a snapshot has the completeness
of its log and, once it is marked, its records (`SnapsInv`). `RestInv` extends
`RepairableAtRest` to the steps of an `apply` at which the events still have, or have
again, their snapshot and pointer (`AtRest`). An index is built without the lock, so `IndexInv` says only that what it has read
is a prefix of the log and was complete; that suffices for `IndexedIsReviewed` because
a snapshot is never changed. A receipt speaks of a prefix of the log, too
(`ReceiptInv`).

**Code releases.** Three processes meet in `CodeInv`: a job (sync, build, diff), a
release operation (snapshot, validation, stage, promote, clone, recover, clean,
prune) and the deaths of either. `PlanInv` is the heart of the build: as long as no
document has failed, each normalized file of a library is indexed, or planned, or at
hand, so that an empty plan means a complete index; `LibrariesInv` adds that the
libraries done with have been normalized at all. When the build seals its manifest
they become `SettledInv`, which belongs to the release and not to the job, and
`PublishedInv` says that what was validated, staged or served is settled and complete.
A clone or a recovery copies part after part: `SourceInv` says that its source is not
being changed, `CopyInv` that each part already copied is that of the source.
`DiffInv` and `OpMakes => op.dir # job.dir` keep the other actors off these files.
`SourcesInv` (a marker names a checkout that exists) is what a cleanup beside a sync
breaks, so `EligibleStaysWhole` assumes `CleanRaces = FALSE`; the other two theorems
do not.

**Promotion and retention.** Three invariants build on one another. `JournalInv`
says what the three durable records tell of each other: with no journal pending
`current.json` names what the alias serves (`RecordAgrees`); a pending journal
holds either the old pair or the new one (`JournalAgrees`, `NotSwitchedYet`); and
the next write of the running command is the one its journal calls for
(`StepAgrees`). `AliasHasItsFiles` and the refinement to `AliasRegister` follow:
every step is a stutter or the one that moves the alias. `ExistInv` adds that what
is served or named by a journal exists, and that a retirement deletes only after
its own rollback has committed. `AbsentInv` is what quarantine leaves behind: no
reference, no cache scope of the run, and no step of any command that adds one.
Most steps touch none of this; the lemmas `KeepsJournal`, `KeepsServed` and
`KeepsAbsent` deal with them in one line each.

Every safety invariant, action property and refinement that a passing run checks is
stated by one of these theorems. Only model-checked are the liveness properties
(`CrashRecovered`, `IntentResolved`, `Converges`, `CatchesUp`, `RunsFinish`): liveness
under fairness and `ENABLED` are beyond the installed provers. So are induction over
data through the library's induction theorems and modules that reach a `RECURSIVE`
operator, neither of which these theorems need. Before each proof TLC checked the
inductive invariant itself on a small instance, `CodeInv` on one library with two
candidates, on two libraries, and with `CleanRaces`; `CheckpointInv` on the run's
instance with three deltas (7 million states).

## 7. What the plan has left

1. `EndpointPool` (`embeddings/endpoint_pool.py`): threads, backoff and recovery,
   implementing an abstract specification "each batch is answered once, in order".
   To look at there: the synchronous `embed` releases `outstanding` only for an
   `EmbeddingServiceError`, `aembed` for every error.
2. `McpRuntime` (`mcp/resilience.py`, `tokens.py`): limiter, circuit breaker,
   issuing and revoking of tokens; and the project registry with concurrent editors.
3. Source and pipeline composed: the catalog as an append-only log with a cursor
   that ZoteroPublication writes and RagPipeline reads; `derive writing` with its
   pruning, on the indexer of CodeRelease.
4. Proofs: the refinement of an abstract source by LibrarySync, and of an abstract
   checkpointed log by RagPipeline, in the manner of `Mirror` and `AliasRegister`.

## 8. What is not modelled

- The components marked `not_modelled` in `PROJECT.json`, with the reason there.
- Text: extraction from PDFs, chunking, prompts, JSON schemas, span arithmetic,
  quality heuristics, the wording of reports, argument parsing and configuration
  files. They enter as inputs or as the classes of result that the code tells
  apart. Hashes and fingerprints are equality of what is hashed.
- Query side and evaluation: ranking and metrics only read, and are floating point.
- The guarantees of SQLite, the file system and Qdrant, which are taken to be
  atomic per transaction, rename and request. Losing written data on power failure
  is not modelled.
- The nested archive layout of attachments, the collection paths of documents, the
  cleanup of old snapshots and of the cache directory, and the documents that `governance/release.py`
  and `governance/schema.py` check.
- Two commands at once in WritingExtraction, WritingReview and WritingRetention.
  Extraction and retention commands exclude one another by task locks
  (`derive:writing-materials`), and so do the review commands of one run; that this
  works is `TaskStore`'s `MutualExclusion`. Release commands are different, see the
  last item of section 5.
