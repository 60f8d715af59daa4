----------------------------- MODULE CodeRelease -----------------------------
(***************************************************************************)
(* The Code knowledge base: official sources are synchronized              *)
(* (code_rag/sync.py), normalized and indexed into a new candidate release *)
(* (code_rag/build.py, indexing/incremental.py), validated against the     *)
(* collection (governance/validation.py, governance/releases.py),          *)
(* snapshotted, cloned and recovered (governance/snapshots.py), and        *)
(* cleaned up (governance/maintenance.py).                                 *)
(*                                                                         *)
(* Two processes act.  `job` is the task that holds the library and index  *)
(* locks of the task store: a sync, a candidate build or a version diff.   *)
(* `op` is an `index`, `clean` or `prune` command; these take no lock, so  *)
(* their steps interleave with the job's.  Each process may die between    *)
(* two steps.  Promotion is the one-step switch of AliasRegister, which    *)
(* CollectionPromotion implements.                                         *)
(***************************************************************************)
EXTENDS Integers, FiniteSets, Sequences

CONSTANTS
    Libraries,   \* the enabled libraries of the registry
    Candidates,  \* candidate collection names
    Prod,        \* the configured collection and its data directory
    None,        \* an absent name
    Pieces,      \* upsert batches of one document
    MaxRev,      \* bound: checkouts a library may have
    MaxRuns,     \* bound: indexer runs in one data directory
    MaxSnaps,    \* bound: snapshots kept
    MaxFaults,   \* bound: crashes and failed requests
    MaxJobs,     \* bound: tasks started
    MaxOps,      \* bound: index, clean and prune commands started
    CleanRaces   \* whether clean and prune may run beside a job

ASSUME CodeReleaseConstants ==
    /\ Prod \notin Candidates
    /\ None \notin Candidates \cup {Prod}
    /\ Pieces \in Nat \ {0} /\ MaxRev \in Nat \ {0}
    /\ {MaxRuns, MaxSnaps, MaxFaults, MaxJobs, MaxOps} \subseteq Nat
    /\ CleanRaces \in BOOLEAN

Names == Candidates \cup {Prod}
Revs == 1 .. MaxRev

\* A library stands for one version of it.  A diff document is named after the
\* commits it compares, so a new checkout makes a new document.
Docs == ({"file", "note"} \X Libraries) \cup ({"diff"} \X Libraries \X Revs)
NoDocs == [d \in Docs |-> 0]
Points == Docs \X Revs \X (1 .. Pieces)
NoColl == {None}

ASSUME AbsentIsNoValue == None \notin Docs \cup Points

VARIABLES
    checkouts,  \* complete checkouts on disk, by library
    marker,     \* the revision current.json names; 0 before the first sync
    notes,      \* libraries whose GitHub releases were fetched
    rel,        \* release manifests and data directories, by collection
    coll,       \* the points of each collection, NoColl if there is none
    current,    \* current.json of the promotion: active and previous
    staged,     \* staged.json
    snaps,      \* snapshot manifests, oldest first
    job,        \* the locked task
    op,         \* the unlocked command
    left        \* what remains of the bounds on faults and starts

sources == <<checkouts, marker, notes>>
served == <<current, staged>>
vars == <<checkouts, marker, notes, rel, coll, current, staged, snaps, job, op,
          left>>

\* The files checksummed into a manifest.
Artifacts(r) == [norm |-> r.norm, rows |-> r.rows, chunks |-> r.chunks,
                 runs |-> r.runs]

\* No manifest and no files; a document is at revision 0 where it is absent.
NoRelease == [status |-> "absent", eligible |-> FALSE, scope |-> {None},
              norm |-> NoDocs, rows |-> NoDocs, chunks |-> NoDocs, runs |-> 0,
              seal |-> {}, count |-> 0]

NoJob == [kind |-> "idle", pc |-> "idle", dir |-> None, lib |-> None, rev |-> 0,
          todo |-> {}, plan |-> {}, doc |-> None, piece |-> 1, failed |-> FALSE,
          fresh |-> FALSE]

NoOp == [kind |-> "idle", pc |-> "idle", dir |-> None, src |-> None,
         parts |-> {}, points |-> {}, valid |-> FALSE, dirs |-> {}]

\* Every library is synchronized once, and the configured collection holds
\* what the direct builds of the first version left.
Init ==
    LET files == [d \in Docs |-> IF d[1] = "file" THEN 1 ELSE 0] IN
    /\ checkouts = [l \in Libraries |-> {1}]
    /\ marker = [l \in Libraries |-> 1]
    /\ notes = {}
    /\ rel = [c \in Names |-> IF c # Prod THEN NoRelease
                 ELSE [NoRelease EXCEPT !.norm = files, !.rows = files,
                                        !.chunks = files, !.runs = 1]]
    /\ coll = [c \in Names |-> IF c # Prod THEN NoColl
                 ELSE {p \in Points : p[1][1] = "file" /\ p[2] = 1}]
    /\ current = [active |-> None, prev |-> None]
    /\ staged = None
    /\ snaps = <<>>
    /\ job = NoJob
    /\ op = NoOp
    /\ left = [faults |-> MaxFaults, jobs |-> MaxJobs, ops |-> MaxOps]

\* active_release_data_dir and active_collection: the promoted release, or the
\* configured directory and collection.
Active == IF current.active = None THEN Prod ELSE current.active

Spend(what) == left[what] > 0 /\ left' = [left EXCEPT ![what] = @ - 1]
Fault == Spend("faults")
Quiet == UNCHANGED left
Step(pc) == job' = [job EXCEPT !.pc = pc]

-----------------------------------------------------------------------------
(* Synchronization of one library at one version.                          *)

\* The marker names the tag and the configuration, and the checkout is there.
UpToDate(l, v) == v = marker[l] /\ v \in checkouts[l]

SyncStart(l, v) ==
    /\ job = NoJob
    /\ CleanRaces \/ op.kind # "clean_source"
    /\ job' = [NoJob EXCEPT !.kind = "sync", !.lib = l, !.rev = v,
                            !.pc = IF UpToDate(l, v) THEN "notes" ELSE "checkout"]
    /\ Spend("jobs") /\ UNCHANGED <<sources, rel, coll, served, snaps, op>>

\* The checkout is built in .staging and renamed unless it exists.
SyncCheckout ==
    /\ job.pc = "checkout"
    /\ checkouts' = [checkouts EXCEPT ![job.lib] = @ \cup {job.rev}]
    /\ job' = [job EXCEPT !.pc = "marker"]
    /\ Quiet /\ UNCHANGED <<marker, notes, rel, coll, served, snaps, op>>

SyncMarker ==
    /\ job.pc = "marker"
    /\ marker' = [marker EXCEPT ![job.lib] = job.rev]
    /\ job' = [job EXCEPT !.pc = "notes"]
    /\ Quiet /\ UNCHANGED <<checkouts, notes, rel, coll, served, snaps, op>>

\* A git command fails max_retries times: the sync raises and only the staging
\* directory, which is removed, was written.
SyncFails ==
    /\ job.pc = "checkout"
    /\ Fault
    /\ job' = NoJob
    /\ UNCHANGED <<sources, rel, coll, served, snaps, op>>

\* GitHub releases, where the registry enables them.
FetchedNotes(l) == notes \cup {l}

\* An HTTP error makes the sync partial and leaves the old file.
SyncNotes ==
    /\ job.pc = "notes"
    /\ notes' \in {notes, FetchedNotes(job.lib)}
    /\ job' = NoJob
    /\ Quiet /\ UNCHANGED <<checkouts, marker, rel, coll, served, snaps, op>>

-----------------------------------------------------------------------------
(* Candidate build.                                                        *)

\* prepare refuses a release root that exists.
Prepared(c, eligible, scope) ==
    /\ rel[c].status = "absent"
    /\ rel' = [rel EXCEPT ![c] = [NoRelease EXCEPT !.status = "building",
                                    !.eligible = eligible, !.scope = scope]]

\* `build code`: only a complete build (--all with source expansion) is
\* eligible for promotion.
BuildStart(c, libs, expand) ==
    /\ job = NoJob
    /\ Prepared(c, libs = Libraries /\ expand, {None})
    /\ job' = [NoJob EXCEPT !.kind = "build", !.pc = "libs", !.dir = c,
                            !.todo = libs, !.fresh = TRUE]
    /\ Spend("jobs") /\ UNCHANGED <<sources, coll, served, snaps, op>>

\* The documents of a library: what its current checkout holds, and its
\* release notes.  A missing source_path yields no file and no error.
Inputs(l) ==
    {<<"file", l>> : i \in {marker[l]} \cap checkouts[l]}
        \cup {<<"note", l>> : i \in notes \cap {l}}

Revision(d) == CASE d[1] = "note" -> 1
                 [] d[1] = "file" -> marker[d[2]]
                 [] d[1] = "diff" -> d[3]

\* A document whose row has the same content, metadata, processor and
\* embedding hashes is skipped.
Changed(r, docs) == {d \in docs : r.rows[d] # Revision(d)}

\* Only a prepared release whose build is not recorded is written.
Building(r) == r.status = "building"

\* The normalized manifest of a library replaces the one before.
Normalize(c, l) ==
    rel' = [rel EXCEPT ![c].norm =
               [d \in Docs |-> IF d \in Inputs(l) THEN Revision(d) ELSE @[d]]]

\* ensure_collection(require_new): a new candidate collection must not exist.
EnsureCollection(c, new) ==
    /\ new => coll[c] = NoColl
    /\ coll' = [coll EXCEPT ![c] = IF @ = NoColl THEN {} ELSE @]

BuildLibrary(l) ==
    /\ job.kind = "build" /\ job.pc = "libs" /\ l \in job.todo
    /\ Building(rel[job.dir])
    /\ Normalize(job.dir, l)
    /\ EnsureCollection(job.dir, job.fresh)
    /\ job' = [job EXCEPT !.pc = "docs", !.lib = l, !.fresh = FALSE,
                          !.plan = Changed(rel[job.dir], Inputs(l))]
    /\ Quiet /\ UNCHANGED <<sources, served, snaps, op>>

\* The normalized manifest is already written when ensure_collection refuses.
BuildRefused(l) ==
    /\ job.kind = "build" /\ job.pc = "libs" /\ l \in job.todo
    /\ job.fresh /\ coll[job.dir] # NoColl
    /\ Normalize(job.dir, l)
    /\ Step("error")
    /\ Quiet /\ UNCHANGED <<sources, coll, served, snaps, op>>

\* Anything else a build may raise, an interrupt included.
BuildRaises ==
    /\ job.kind = "build" /\ job.pc # "error"
    /\ Fault
    /\ Step("error")
    /\ UNCHANGED <<sources, rel, coll, served, snaps, op>>

\* A diff is refused unless its checkouts are on disk.
DiffSource(l) == marker[l] \in checkouts[l]

DiffDocument(l) == <<"diff", l, marker[l]>>

\* `build diff`: the document joins the normalized root of the configured
\* directory, the index state and chunks of the active release, and the
\* collection the stable alias points to.
DiffStart(l) ==
    /\ job = NoJob
    /\ CleanRaces \/ op.kind # "prune"
    /\ DiffSource(l) /\ rel[Active].runs < MaxRuns
    /\ rel' = [rel EXCEPT ![Prod].norm =
                  [d \in Docs |-> CASE d = DiffDocument(l) -> Revision(d)
                                    [] d[1] = "diff" /\ d[2] = l /\ d[3] # marker[l] -> 0
                                    [] OTHER -> @[d]]]
    /\ job' = [NoJob EXCEPT !.kind = "diff", !.pc = "docs", !.dir = Active,
                            !.lib = l, !.plan = Changed(rel[Active], {DiffDocument(l)})]
    /\ Spend("jobs") /\ UNCHANGED <<sources, coll, served, snaps, op>>

\* The collection a request of the job reaches: the alias is resolved by
\* Qdrant at the time of the request.
Target == IF job.kind = "diff" /\ current.active # None THEN Active ELSE job.dir

\* Embed, then write the chunks file.
WriteChunks(d) ==
    /\ job.pc = "docs" /\ d \in job.plan
    /\ rel' = [rel EXCEPT ![job.dir].chunks[d] = Revision(d)]
    /\ job' = [job EXCEPT !.pc = "delete", !.doc = d, !.plan = @ \ {d}]
    /\ Quiet /\ UNCHANGED <<sources, coll, served, snaps, op>>

\* Mutant: the filter takes the library for the document.
OfLibrary(p, d) == p[1][2] = d[2]

\* The filter of delete_document.
OfDocument(p, d) == p[1] = d

\* replace_document removes the document's points,
DeletePoints ==
    /\ job.pc = "delete"
    /\ coll' = [coll EXCEPT ![Target] = {p \in @ : ~OfDocument(p, job.doc)}]
    /\ job' = [job EXCEPT !.pc = "upsert", !.piece = 1]
    /\ Quiet /\ UNCHANGED <<sources, rel, served, snaps, op>>

\* and upserts the new ones in batches.
UpsertPoints ==
    /\ job.pc = "upsert"
    /\ coll' = [coll EXCEPT ![Target] =
                    @ \cup {<<job.doc, Revision(job.doc), job.piece>>}]
    /\ job' = IF job.piece = Pieces THEN [job EXCEPT !.pc = "row"]
                                    ELSE [job EXCEPT !.piece = @ + 1]
    /\ Quiet /\ UNCHANGED <<sources, rel, served, snaps, op>>

\* The row that lets the next build skip the document.
UpsertRow ==
    /\ job.pc = "row"
    /\ rel' = [rel EXCEPT ![job.dir].rows[job.doc] = Revision(job.doc)]
    /\ Step("docs")
    /\ Quiet /\ UNCHANGED <<sources, coll, served, snaps, op>>

\* An embedding or a Qdrant request fails: the failure is kept and the build
\* goes on with the next document.
DocumentFails ==
    /\ Fault
    /\ \/ /\ job.pc \in {"delete", "upsert", "row"}
          /\ job' = [job EXCEPT !.pc = "docs", !.failed = TRUE]
       \/ \E d \in job.plan :
            /\ job.pc = "docs"
            /\ job' = [job EXCEPT !.plan = @ \ {d}, !.failed = TRUE]
    /\ UNCHANGED <<sources, rel, coll, served, snaps, op>>

\* The summary of one indexer run.
BuildSummary ==
    /\ job.pc = "docs" /\ job.plan = {}
    /\ rel' = [rel EXCEPT ![job.dir].runs = @ + 1]
    /\ job' = IF job.kind = "diff" THEN NoJob
              ELSE [job EXCEPT !.pc = "libs", !.todo = @ \ {job.lib}]
    /\ Quiet /\ UNCHANGED <<sources, coll, served, snaps, op>>

\* Mutant: failed documents are only reported.
AlwaysBuilt == "built"

\* record_build.
RecordedStatus == IF job.failed THEN "failed" ELSE "built"

RecordBuild ==
    /\ job.kind = "build" /\ job.pc = "libs" /\ job.todo = {}
    /\ rel' = [rel EXCEPT ![job.dir].status = RecordedStatus]
    /\ job' = NoJob
    /\ Quiet /\ UNCHANGED <<sources, coll, served, snaps, op>>

\* record_failure.
RecordFailure ==
    /\ job.pc = "error"
    /\ rel' = [rel EXCEPT ![job.dir].status = "failed"]
    /\ job' = NoJob
    /\ Quiet /\ UNCHANGED <<sources, coll, served, snaps, op>>

\* The process is killed; the task store releases its locks in time.
JobDies ==
    /\ job # NoJob
    /\ Fault
    /\ job' = NoJob
    /\ UNCHANGED <<sources, rel, coll, served, snaps, op>>

-----------------------------------------------------------------------------
(* Validation of a candidate against its own files and its collection.     *)

\* The documents a file or table names.
Present(f) == {d \in Docs : f[d] # 0}

\* normalized: every document names its library, version, source and commit;
\* a release note has no commit.
NormalizedValid(r) == \A l \in Libraries : r.norm[<<"note", l>>] = 0

\* The documents of the index state, and the records they come from.
IndexedDocs(r) == Present(r.rows)
SourceRecord(r, d) == r.norm[d]

\* index, offline part: chunk files and rows name the same documents,
ChunksValid(r) == Present(r.chunks) = IndexedDocs(r)

\* chunks name their library, version, source and commit,
MetadataValid(r) == \A l \in Libraries : r.chunks[<<"note", l>>] = 0

\* and every row has the hashes of its normalized record.
RowsValid(r) == \A d \in IndexedDocs(r) : r.rows[d] = SourceRecord(r, d)

\* index, online part: a chunk id is a hash of the document and its text, so
\* equal id sets are equal revisions.
ChunkIds(r) == {p \in Points : r.chunks[p[1]] = p[2]}
CollectionValid(r, points) == points = ChunkIds(r)

IndexValid(r, points) ==
    /\ NormalizedValid(r)
    /\ ChunksValid(r) /\ MetadataValid(r)
    /\ RowsValid(r)
    /\ CollectionValid(r, points)

ScopeValid(r) == r.scope = {None} \/ Present(r.norm) = r.scope

\* verify_validated: the status, the eligibility and the checksums.
Verified(r) ==
    /\ r.status = "validated"
    /\ r.eligible
    /\ r.seal = {Artifacts(r)}

OpStep(pc) == op' = [op EXCEPT !.pc = pc]

\* A command that refuses to start, or raises outside its try block, leaves
\* nothing behind.
OpEnds == op' = NoOp

\* `index validate-candidate`
ValidateStart(c) ==
    /\ op = NoOp
    /\ rel[c].status \in {"built", "validated"}
    /\ op' = [NoOp EXCEPT !.kind = "validate", !.pc = "vindex", !.dir = c]
    /\ Spend("ops") /\ UNCHANGED <<sources, rel, coll, served, snaps, job>>

\* The checks run first; a collection that is unreachable or not green makes
\* the candidate invalid like any other error.
ValidateIndex ==
    /\ op.pc = "vindex"
    /\ \/ /\ Quiet
          /\ op' = [op EXCEPT !.pc = "vseal",
                              !.valid = IndexValid(rel[op.dir], coll[op.dir])]
       \/ /\ Fault
          /\ op' = [op EXCEPT !.pc = "vseal", !.valid = FALSE]
    /\ UNCHANGED <<sources, rel, coll, served, snaps, job>>

\* The checksums are taken afterwards and written with the verdict.  A
\* recovery that is not validated raises.
ValidateSeal ==
    LET r == rel[op.dir]
        valid == op.valid /\ ScopeValid(r) /\ r.runs > 0
    IN  /\ op.pc = "vseal"
        /\ rel' = [rel EXCEPT ![op.dir] =
              [r EXCEPT !.status = IF valid THEN "validated" ELSE "invalid",
                        !.seal = {Artifacts(r)},
                        !.count = IF coll[op.dir] = NoColl THEN 0
                                  ELSE Cardinality(coll[op.dir])]]
        /\ IF op.kind = "stage" THEN OpStep("stage") ELSE OpEnds
        /\ Quiet /\ UNCHANGED <<sources, coll, served, snaps, job>>

\* `index stage` verifies, validates again, verifies again,
StageStart(c) ==
    /\ op = NoOp
    /\ Verified(rel[c])
    /\ op' = [NoOp EXCEPT !.kind = "stage", !.pc = "vindex", !.dir = c]
    /\ Spend("ops") /\ UNCHANGED <<sources, rel, coll, served, snaps, job>>

\* and stages a collection whose points are as many as were validated.
Stageable(c) ==
    /\ Verified(rel[c])
    /\ coll[c] \notin {NoColl, {}}
    /\ Cardinality(coll[c]) = rel[c].count

Stage ==
    /\ op.pc = "stage"
    /\ staged' = IF Stageable(op.dir) THEN op.dir ELSE staged
    /\ OpEnds
    /\ Quiet /\ UNCHANGED <<sources, rel, coll, current, snaps, job>>

\* `index promote`: the staged release is not looked at again.
Promote ==
    /\ op = NoOp
    /\ staged # None /\ coll[staged] \notin {NoColl, {}}
    /\ current' = [active |-> staged, prev |-> Active]
    /\ Spend("ops") /\ UNCHANGED <<sources, rel, coll, staged, snaps, job, op>>

\* `index rollback-alias`
RollbackAlias ==
    /\ op = NoOp
    /\ current.prev # None
    /\ current' = [active |-> current.prev, prev |-> current.active]
    /\ Spend("ops") /\ UNCHANGED <<sources, rel, coll, staged, snaps, job, op>>

-----------------------------------------------------------------------------
(* Snapshots, clones and recovery.                                         *)

\* A snapshot manifest; `of` is the release it is cross-store complete with.
Snapshot(c, of, seal) == [coll |-> c, points |-> coll[c], of |-> of, seal |-> seal]

\* `index snapshot` of the active collection; a promoted release must verify.
SnapshotStart ==
    /\ op = NoOp /\ Len(snaps) < MaxSnaps
    /\ Active # Prod => Verified(rel[Active])
    /\ op' = [NoOp EXCEPT !.kind = "snapshot", !.pc = "snapshot", !.src = Active]
    /\ Spend("ops") /\ UNCHANGED <<sources, rel, coll, served, snaps, job>>

SnapshotTake ==
    LET c == op.src
    IN  /\ op.kind = "snapshot" /\ op.pc = "snapshot"
        /\ snaps' = Append(snaps, IF c = Prod THEN Snapshot(c, None, {})
                                  ELSE Snapshot(c, c, rel[c].seal))
        /\ OpEnds
        /\ Quiet /\ UNCHANGED <<sources, rel, coll, served, job>>

\* `index rollback` into a new collection.
RecoverStart(i, c) ==
    LET s == snaps[i]
    IN  /\ op = NoOp
        /\ c # s.coll /\ coll[c] = NoColl
        /\ s.of # None => /\ Verified(rel[s.of]) /\ rel[s.of].seal = s.seal
                          /\ rel[c].status = "absent"
        /\ op' = [NoOp EXCEPT !.kind = "recover", !.pc = "recover", !.dir = c,
                              !.src = s.of, !.points = s.points]
        /\ Spend("ops") /\ UNCHANGED <<sources, rel, coll, served, snaps, job>>

\* recover_snapshot creates the collection.  A snapshot without a release ends
\* there; the clone of the active release then records its build.
RecoverCollection ==
    /\ op.pc = "recover"
    /\ coll' = [coll EXCEPT ![op.dir] = op.points]
    /\ IF op.kind = "clone" THEN OpStep("record")
       ELSE IF op.src = None THEN OpEnds ELSE OpStep("prepare")
    /\ Quiet /\ UNCHANGED <<sources, rel, served, snaps, job>>

\* A recovered release has the scope of its source; a build that prepared the
\* name meanwhile makes prepare raise.
RecoverPrepare ==
    /\ op.pc = "prepare"
    /\ \/ /\ Prepared(op.dir, TRUE, rel[op.src].scope)
          /\ op' = [op EXCEPT !.pc = "copy", !.parts = {"norm"}]
       \/ /\ rel[op.dir].status # "absent"
          /\ OpEnds
          /\ UNCHANGED rel
    /\ Quiet /\ UNCHANGED <<sources, coll, served, snaps, job>>

\* `index bootstrap-candidate` clones the active files and collection; the
\* scope is the normalized documents it finds before it starts.
CloneStart(c) ==
    /\ op = NoOp /\ Len(snaps) < MaxSnaps
    /\ Prepared(c, TRUE, Present(rel[Active].norm))
    /\ op' = [NoOp EXCEPT !.kind = "clone", !.pc = "copy", !.dir = c,
                          !.src = Active, !.parts = {"norm"}]
    /\ Spend("ops") /\ UNCHANGED <<sources, coll, served, snaps, job>>

\* The normalized root is copied, then the data directory, whose files come in
\* the order of the directory.
CopyPart(part) ==
    LET r == rel[op.src]
    IN  /\ op.pc = "copy" /\ part \in op.parts
        /\ rel' = [rel EXCEPT ![op.dir] =
              CASE part = "norm" -> [@ EXCEPT !.norm = r.norm]
                [] part = "rows" -> [@ EXCEPT !.rows = r.rows]
                [] part = "chunks" -> [@ EXCEPT !.chunks = r.chunks]
                [] part = "runs" -> [@ EXCEPT !.runs = r.runs]]
        /\ op' = [op EXCEPT !.parts = IF part = "norm" THEN {"rows", "chunks", "runs"}
                                      ELSE @ \ {part}]
        /\ Quiet /\ UNCHANGED <<sources, coll, served, snaps, job>>

CopyEnds ==
    /\ op.pc = "copy" /\ op.parts = {}
    /\ OpStep(IF op.kind = "clone" THEN "snapshot" ELSE "record")
    /\ Quiet /\ UNCHANGED <<sources, rel, coll, served, snaps, job>>

\* The clone's snapshot covers Qdrant only, and its target must be new.
CloneSnapshot ==
    /\ op.kind = "clone" /\ op.pc = "snapshot"
    /\ snaps' = Append(snaps, Snapshot(op.src, None, {}))
    /\ op' = IF coll[op.dir] = NoColl
             THEN [op EXCEPT !.pc = "recover", !.points = coll[op.src]]
             ELSE [op EXCEPT !.pc = "error"]
    /\ Quiet /\ UNCHANGED <<sources, rel, coll, served, job>>

CloneRecord ==
    /\ op.pc = "record"
    /\ rel' = [rel EXCEPT ![op.dir].status = "built"]
    /\ OpStep("vindex")
    /\ Quiet /\ UNCHANGED <<sources, coll, served, snaps, job>>

\* An exception after prepare is recorded in the manifest.
CloneFails ==
    /\ \/ op.pc = "error" /\ Quiet
       \/ op.kind \in {"clone", "recover"} /\ op.pc \in {"copy", "record", "vindex"}
             /\ Fault
    /\ rel' = [rel EXCEPT ![op.dir].status = "failed"]
    /\ OpEnds
    /\ UNCHANGED <<sources, coll, served, snaps, job>>

OpDies ==
    /\ op # NoOp
    /\ Fault
    /\ OpEnds
    /\ UNCHANGED <<sources, rel, coll, served, snaps, job>>

-----------------------------------------------------------------------------
(* Cleanup: plan, then remove.                                             *)

\* Mutant: the marker is not read.
EveryCheckout(l) == checkouts[l]

\* The checkouts of a library other than the marker's.
Removable(l) == checkouts[l] \ {marker[l]}

\* `clean source`
CleanSourcePlan(l) ==
    /\ op = NoOp
    /\ CleanRaces \/ job.kind # "sync"
    /\ marker[l] # 0 /\ Removable(l) # {}
    /\ op' = [NoOp EXCEPT !.kind = "clean_source", !.pc = "remove", !.src = l,
                          !.dirs = Removable(l)]
    /\ Spend("ops") /\ UNCHANGED <<sources, rel, coll, served, snaps, job>>

CleanSource ==
    /\ op.kind = "clean_source"
    /\ checkouts' = [checkouts EXCEPT ![op.src] = @ \ op.dirs]
    /\ OpEnds
    /\ Quiet /\ UNCHANGED <<marker, notes, rel, coll, served, snaps, job>>

\* `prune unreferenced`: chunk files of the configured directory no row names.
PrunePlan ==
    /\ op = NoOp
    /\ CleanRaces \/ job.kind # "diff"
    /\ Present(rel[Prod].chunks) # Present(rel[Prod].rows)
    /\ op' = [NoOp EXCEPT !.kind = "prune", !.pc = "remove",
                 !.dirs = Present(rel[Prod].chunks) \ Present(rel[Prod].rows)]
    /\ Spend("ops") /\ UNCHANGED <<sources, rel, coll, served, snaps, job>>

Prune ==
    /\ op.kind = "prune"
    /\ rel' = [rel EXCEPT ![Prod].chunks =
                    [d \in Docs |-> IF d \in op.dirs THEN 0 ELSE @[d]]]
    /\ OpEnds
    /\ Quiet /\ UNCHANGED <<sources, coll, served, snaps, job>>

-----------------------------------------------------------------------------
JobNext ==
    \/ \E l \in Libraries, v \in Revs : SyncStart(l, v)
    \/ SyncCheckout \/ SyncMarker \/ SyncFails \/ SyncNotes
    \/ \E c \in Candidates, e \in BOOLEAN : BuildStart(c, Libraries, e)
    \/ \E c \in Candidates, l \in Libraries : BuildStart(c, {l}, FALSE)
    \/ \E l \in Libraries : BuildLibrary(l) \/ BuildRefused(l) \/ DiffStart(l)
    \/ \E d \in Docs : WriteChunks(d)
    \/ DeletePoints \/ UpsertPoints \/ UpsertRow \/ DocumentFails
    \/ BuildSummary \/ RecordBuild \/ BuildRaises \/ RecordFailure \/ JobDies

OpNext ==
    \/ \E c \in Candidates : ValidateStart(c) \/ StageStart(c) \/ CloneStart(c)
    \/ ValidateIndex \/ ValidateSeal \/ Stage \/ Promote \/ RollbackAlias
    \/ SnapshotStart \/ SnapshotTake
    \/ \E i \in DOMAIN snaps, c \in Candidates : RecoverStart(i, c)
    \/ RecoverCollection \/ RecoverPrepare
    \/ \E part \in {"norm", "rows", "chunks", "runs"} : CopyPart(part)
    \/ CopyEnds \/ CloneSnapshot \/ CloneRecord \/ CloneFails \/ OpDies

CleanNext ==
    \/ \E l \in Libraries : CleanSourcePlan(l)
    \/ CleanSource \/ PrunePlan \/ Prune

Next == JobNext \/ OpNext \/ CleanNext

Spec == Init /\ [][Next]_vars

-----------------------------------------------------------------------------
(* Properties.                                                             *)

\* Every repository file of the normalized manifests is in the index rows, the
\* chunks and the collection, at one revision and with all its points.
Complete(c) ==
    \A l \in Libraries :
        LET d == <<"file", l>>  n == rel[c].norm[d] IN
        n # 0 => /\ rel[c].rows[d] = n /\ rel[c].chunks[d] = n
                 /\ \A i \in 1 .. Pieces : <<d, n, i>> \in coll[c]
                 /\ \A p \in coll[c] : p[1] = d => p[2] = n

\* A release that verify_validated accepts is complete, although only
\* record_build looks at failed documents (the validator does not ask that
\* every normalized document has a row), files are copied while a diff writes
\* them, and the checksums are taken after the checks.
VerifiedIsComplete == \A c \in Candidates : Verified(rel[c]) => Complete(c)

\* What the alias serves is complete although promote does not look at the
\* release again after stage, and diffs go on writing into the served release.
ServedIsComplete == Active # Prod => Complete(Active)

\* An eligible build that verifies holds every library: no checkout a marker
\* names may be missing when the build reads it, because a missing directory is
\* an empty one to the build.
EligibleHasAllLibraries ==
    \A c \in Candidates : Verified(rel[c]) /\ rel[c].scope = {None} =>
        \A l \in Libraries : rel[c].norm[<<"file", l>>] # 0
=============================================================================
