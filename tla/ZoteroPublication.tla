------------------------- MODULE ZoteroPublication -------------------------
(***************************************************************************)
(* sources/zotero/sync.py: how one source run publishes its manifest files *)
(* together with the SQLite commit of library_state, and how the next run  *)
(* completes or restores an interrupted publication (recover_publications, *)
(* _PublicationSession).  manifests/catalog.py: the delta catalog, one of  *)
(* the published files.                                                    *)
(*                                                                         *)
(* One run at a time holds zotero.lock.  A run can die, or one of its file *)
(* or database calls can raise, between any two effects on the disk.  The  *)
(* content of a file is the sync that wrote it (0: the file is absent).    *)
(***************************************************************************)
EXTENDS Naturals, Sequences, FiniteSets

CONSTANTS
  NFiles,      \* the published files are 1 .. NFiles, in publication order
  PerSync,     \* those whose name holds the sync_id (deltas/<sync_id>.jsonl)
  Optional,    \* those a run may leave alone (documents.jsonl, collections.json)
  Catalog,     \* the number of delta-catalog.jsonl
  MaxSyncs,    \* bound: runs started
  MaxFaults    \* bound: crashes and raised errors

Files == 1 .. NFiles
Syncs == 1 .. MaxSyncs

ASSUME ConstantsAssumption ==
  /\ NFiles \in Nat /\ MaxSyncs \in Nat /\ MaxFaults \in Nat
  /\ PerSync \subseteq Files /\ Optional \subseteq Files \ PerSync
  /\ Catalog \in Files \ (PerSync \cup Optional)

VARIABLES
  active, version,  \* library_state.active_sync_id (0: NULL) and library_version
  runs,             \* sync_runs.status
  target, backup, staged,  \* the files
  chain,            \* chain[s]: the catalog that run s wrote
  intent,           \* runs/<sync_id>/publish-intent.json; with status "none" there
                    \* is no file, and the record is the entries list in memory
  pc, cur,          \* the run: where it is, its sync_id
  ses, todo, published, ret, \* the open _PublicationSession; where it returns to
  faults,
  truth,            \* history: the content the committed runs gave each file
  undone            \* history: a committed publication was rolled back

db    == <<active, version, runs>>
disk  == <<target, backup, staged, chain, intent>>
run   == <<pc, cur, ses, todo, published, ret>>
hist  == <<truth, undone>>
vars  == <<db, disk, run, faults, hist>>

\* The entry that a loop over the entries, or over them reversed, is at.
First(f) == f \in todo /\ \A g \in todo : f <= g
Last(f) == f \in todo /\ \A g \in todo : f >= g

Slots == Files \X (0 .. MaxSyncs)
Slot(f, s) == <<f, IF f \in PerSync THEN s ELSE 0>>

NoIntent == [status |-> "none", entries |-> {}, had |-> {}, version |-> 0]
Open(s) == intent[s].status # "none"

Init ==
  /\ active = 0 /\ version = 0 /\ runs = [s \in Syncs |-> "none"]
  /\ target = [x \in Slots |-> 0] /\ truth = target
  /\ backup = [s \in Syncs |-> [f \in Files |-> 0]]
  /\ staged = [s \in Syncs |-> {}] /\ chain = [s \in Syncs |-> <<>>]
  /\ intent = [s \in Syncs |-> NoIntent]
  /\ pc = "down" /\ cur = 0 /\ ses = 0 /\ todo = {} /\ published = FALSE
  /\ ret = "down" /\ faults = 0 /\ undone = FALSE

---------------------------------------------------------------------------
(* manifests/catalog.py.  An entry is [sync, prev, from, to]; its sequence *)
(* number is its position.                                                 *)

CatalogFile == IF target[Slot(Catalog, 0)] = 0 THEN <<>> ELSE chain[target[Slot(Catalog, 0)]]

\* read_delta_catalog: predecessors and versions follow each other.
Continuous(c) ==
  \A i \in 1 .. Len(c) :
    /\ c[i].prev = IF i = 1 THEN 0 ELSE c[i - 1].sync
    /\ i > 1 => c[i].from = c[i - 1].to

\* mutant: the version range starts where it ends.
AppendedEmptyRange(c, s, from, to) ==
  Append(c, [sync |-> s, prev |-> IF c = <<>> THEN 0 ELSE c[Len(c)].sync,
             from |-> to, to |-> to])

\* append_delta_catalog
Appended(c, s, from, to) ==
  Append(c, [sync |-> s, prev |-> IF c = <<>> THEN 0 ELSE c[Len(c)].sync,
             from |-> from, to |-> to])

---------------------------------------------------------------------------
(* _run and recover_publications.                                          *)

\* zotero.lock is acquired.
Start ==
  /\ pc = "down"
  /\ pc' = "recover"
  /\ UNCHANGED <<db, disk, cur, ses, todo, published, ret, faults, hist>>

Session(p, s, r) ==
  /\ pc' = p /\ ses' = s /\ todo' = intent[s].entries /\ ret' = r

\* The oldest intent: commit when the database committed it, else roll back.
Committed(s) == active = s /\ version = intent[s].version

RecoverIntent ==
  /\ pc = "recover"
  /\ \E s \in Syncs :
       /\ Open(s) /\ \A x \in 1 .. s - 1 : ~Open(x)
       /\ Session(IF Committed(s) THEN "cleanup" ELSE "rollback", s, "recover")
       /\ published' = (intent[s].status = "published")
  /\ UNCHANGED <<db, disk, cur, faults, hist>>

\* No intent is left: remove every staging directory.
RemoveOrphans ==
  /\ pc = "recover" /\ \A x \in Syncs : ~Open(x)
  /\ staged' = [s \in Syncs |-> {}]
  /\ pc' = "closing"
  /\ UNCHANGED <<db, target, backup, chain, intent, cur, ses, todo, published, ret,
                 faults, hist>>

FailIncompleteRuns ==
  /\ pc = "closing"
  /\ runs' = [s \in Syncs |-> IF runs[s] = "running" THEN "failed" ELSE runs[s]]
  /\ pc' = "starting"
  /\ UNCHANGED <<active, version, disk, cur, ses, todo, published, ret, faults, hist>>

\* start_run, under a sync_id never used before.
StartRun(s) ==
  /\ pc = "starting" /\ runs[s] = "none" /\ \A x \in 1 .. s - 1 : runs[x] # "none"
  /\ runs' = [runs EXCEPT ![s] = "running"]
  /\ cur' = s /\ pc' = "fetched"
  /\ UNCHANGED <<active, version, disk, ses, todo, published, ret, faults, hist>>

\* _apply_and_publish up to the intent: the candidate files of remote version
\* v are staged; a snapshot or collections file that is missing is rewritten.
Prepare(E, v) ==
  /\ pc = "fetched" /\ version <= v
  /\ Continuous(CatalogFile)
  /\ Files \ Optional \subseteq E /\ E \subseteq Files
  /\ \A f \in Optional : target[Slot(f, 0)] = 0 => f \in E
  /\ staged' = [staged EXCEPT ![cur] = E]
  /\ chain' = [chain EXCEPT ![cur] = Appended(CatalogFile, cur, version, v)]
  /\ intent' = [intent EXCEPT ![cur] =
       [status |-> "none", entries |-> E, version |-> v,
        had |-> {f \in E : target[Slot(f, cur)] # 0}]]
  /\ pc' = "prepared"
  /\ UNCHANGED <<db, target, backup, cur, ses, todo, published, ret, faults, hist>>

\* The intent is written, atomically, with status "prepared".
WriteIntent ==
  /\ pc = "prepared"
  /\ intent' = [intent EXCEPT ![cur].status = "prepared"]
  /\ Session("publish", cur, "fail") /\ published' = FALSE
  /\ UNCHANGED <<db, target, backup, staged, chain, cur, faults, hist>>

\* The fetch, the staging or the catalog raises: the staging is removed.
PrepareFails ==
  /\ pc \in {"fetched", "prepared"}
  /\ staged' = [staged EXCEPT ![cur] = {}]
  /\ intent' = [intent EXCEPT ![cur] = NoIntent]
  /\ pc' = "fail"
  /\ UNCHANGED <<db, target, backup, chain, cur, ses, todo, published, ret, faults, hist>>

\* The write of the intent raises after the rename: prepare() gave no session,
\* so the staging is removed and the intent stays for the next run.
IntentWriteRaisesLate ==
  /\ pc = "prepared" /\ faults < MaxFaults
  /\ intent' = [intent EXCEPT ![cur].status = "prepared"]
  /\ staged' = [staged EXCEPT ![cur] = {}]
  /\ pc' = "fail" /\ faults' = faults + 1
  /\ UNCHANGED <<db, target, backup, chain, cur, ses, todo, published, ret, hist>>

\* _record_failed_run
RecordFailed ==
  /\ pc = "fail"
  /\ runs' = [runs EXCEPT ![cur] = "failed"]
  /\ pc' = "down"
  /\ UNCHANGED <<active, version, disk, cur, ses, todo, published, ret, faults, hist>>

\* finish_run raises: logged, the row stays as it is.
FailureNotRecorded ==
  /\ pc = "fail" /\ faults < MaxFaults
  /\ pc' = "down" /\ faults' = faults + 1
  /\ UNCHANGED <<db, disk, cur, ses, todo, published, ret, hist>>

---------------------------------------------------------------------------
(* _PublicationSession.publish: entry by entry, the old file to its backup *)
(* name, then the staged file to its target name.                          *)

\* mutant: the old file is removed instead of moved.
RemoveOld(f) ==
  /\ pc = "publish" /\ First(f) /\ target[Slot(f, cur)] # 0
  /\ target' = [target EXCEPT ![Slot(f, cur)] = 0]
  /\ UNCHANGED <<db, backup, staged, chain, intent, run, faults, hist>>

MoveToBackup(f) ==
  /\ pc = "publish" /\ First(f) /\ target[Slot(f, cur)] # 0
  /\ backup' = [backup EXCEPT ![cur][f] = target[Slot(f, cur)]]
  /\ target' = [target EXCEPT ![Slot(f, cur)] = 0]
  /\ UNCHANGED <<db, staged, chain, intent, run, faults, hist>>

MoveToTarget(f) ==
  /\ pc = "publish" /\ First(f) /\ target[Slot(f, cur)] = 0
  /\ target' = [target EXCEPT ![Slot(f, cur)] = cur]
  /\ staged' = [staged EXCEPT ![cur] = @ \ {f}]
  /\ todo' = todo \ {f}
  /\ UNCHANGED <<db, backup, chain, intent, pc, cur, ses, published, ret, faults, hist>>

MarkPublished ==
  /\ pc = "publish" /\ todo = {}
  /\ published' = TRUE
  /\ intent' = [intent EXCEPT ![cur].status = "published"]
  /\ pc' = "commit"
  /\ UNCHANGED <<db, target, backup, staged, chain, cur, ses, todo, ret, faults, hist>>

---------------------------------------------------------------------------
(* The transaction commits, and _apply_and_publish handles its errors.     *)

\* set_success_version and finish_run_in_transaction become durable.
CommitRows ==
  /\ active' = cur /\ version' = intent[cur].version
  /\ runs' = [runs EXCEPT ![cur] = "success"]
  /\ truth' = [x \in Slots |->
                 IF \E f \in intent[cur].entries : x = Slot(f, cur) THEN cur ELSE truth[x]]

CommitTransaction ==
  /\ pc = "commit" /\ CommitRows
  /\ Session("cleanup", cur, "down")
  /\ UNCHANGED <<disk, cur, published, faults, undone>>

\* connection.commit() raises although the transaction became durable.
CommitRaisesLate ==
  /\ pc = "commit" /\ faults < MaxFaults /\ CommitRows
  /\ pc' = "handler" /\ faults' = faults + 1
  /\ UNCHANGED <<disk, cur, ses, todo, published, ret, undone>>

\* publish() or the transaction raises; the transaction is rolled back.
TransactionFails ==
  /\ pc \in {"publish", "commit"} /\ faults < MaxFaults
  /\ published' = (published \/ todo = {})
  /\ pc' = "handler" /\ faults' = faults + 1
  /\ UNCHANGED <<db, disk, cur, ses, todo, ret, hist>>

\* except BaseException: ask the database whether it committed.
HandleError ==
  /\ pc = "handler"
  /\ IF active = cur THEN Session("cleanup", cur, "down")
                     ELSE Session("rollback", cur, "fail")
  /\ UNCHANGED <<db, disk, cur, published, faults, hist>>

\* The question itself raises: taken for "not committed".
HandleErrorBlind ==
  /\ pc = "handler" /\ faults < MaxFaults
  /\ Session("rollback", cur, "fail") /\ faults' = faults + 1
  /\ undone' = (undone \/ active = cur)
  /\ UNCHANGED <<db, disk, cur, published, truth>>

---------------------------------------------------------------------------
(* _PublicationSession.rollback and commit, for a run's own session and    *)
(* for one found by recovery.                                              *)

\* mutant: a file that did not exist before the publication stays.
RemoveReplacedTarget(f) ==
  /\ pc = "rollback" /\ Last(f)
  /\ target[Slot(f, ses)] # 0
  /\ \/ backup[ses][f] # 0 /\ UNCHANGED todo /\ target' = [target EXCEPT ![Slot(f, ses)] = 0]
     \/ backup[ses][f] = 0 /\ todo' = todo \ {f} /\ UNCHANGED target
  /\ UNCHANGED <<db, backup, staged, chain, intent, pc, cur, ses, published, ret,
                 faults, hist>>

\* A backup goes back, after what is at the target is removed; a target that
\* did not exist before is removed if the staged file was moved there.
RemoveTarget(f) ==
  /\ pc = "rollback" /\ Last(f)
  /\ target[Slot(f, ses)] # 0
  /\ \/ backup[ses][f] # 0 /\ UNCHANGED todo
     \/ /\ backup[ses][f] = 0 /\ f \notin intent[ses].had
        /\ published \/ f \notin staged[ses]
        /\ todo' = todo \ {f}
  /\ target' = [target EXCEPT ![Slot(f, ses)] = 0]
  /\ UNCHANGED <<db, backup, staged, chain, intent, pc, cur, ses, published, ret,
                 faults, hist>>

RestoreBackup(f) ==
  /\ pc = "rollback" /\ Last(f)
  /\ backup[ses][f] # 0 /\ target[Slot(f, ses)] = 0
  /\ target' = [target EXCEPT ![Slot(f, ses)] = backup[ses][f]]
  /\ backup' = [backup EXCEPT ![ses][f] = 0]
  /\ todo' = todo \ {f}
  /\ UNCHANGED <<db, staged, chain, intent, pc, cur, ses, published, ret, faults, hist>>

KeepTarget(f) ==
  /\ pc = "rollback" /\ Last(f)
  /\ backup[ses][f] = 0
  /\ ~(f \notin intent[ses].had /\ (published \/ f \notin staged[ses])
         /\ target[Slot(f, ses)] # 0)
  /\ todo' = todo \ {f}
  /\ UNCHANGED <<db, disk, pc, cur, ses, published, ret, faults, hist>>

RemoveBackup(f) ==
  /\ pc = "cleanup" /\ First(f)
  /\ backup' = [backup EXCEPT ![ses][f] = 0]
  /\ todo' = todo \ {f}
  /\ UNCHANGED <<db, target, staged, chain, intent, pc, cur, ses, published, ret,
                 faults, hist>>

\* Both end by removing the staging directory and then the intent.
RemoveStaging ==
  /\ pc \in {"rollback", "cleanup"} /\ todo = {} /\ staged[ses] # {}
  /\ staged' = [staged EXCEPT ![ses] = {}]
  /\ UNCHANGED <<db, target, backup, chain, intent, run, faults, hist>>

\* mutant: an intent that was only prepared is kept.
UnlinkPublished ==
  /\ pc \in {"rollback", "cleanup"} /\ todo = {} /\ staged[ses] = {}
  /\ intent' = [intent EXCEPT ![ses] = IF published THEN NoIntent ELSE @]
  /\ pc' = ret
  /\ UNCHANGED <<db, target, backup, staged, chain, cur, ses, todo, published, ret,
                 faults, hist>>

UnlinkIntent ==
  /\ pc \in {"rollback", "cleanup"} /\ todo = {} /\ staged[ses] = {}
  /\ intent' = [intent EXCEPT ![ses] = NoIntent]
  /\ pc' = ret
  /\ UNCHANGED <<db, target, backup, staged, chain, cur, ses, todo, published, ret,
                 faults, hist>>

\* A file operation raises: the run fails, a recovery refuses to go on, the
\* cleanup of a committed publication is left to the next run.
SessionFails ==
  /\ pc \in {"rollback", "cleanup"} /\ faults < MaxFaults
  /\ pc' = (IF ret = "fail" THEN "fail" ELSE "down")
  /\ faults' = faults + 1
  /\ UNCHANGED <<db, disk, cur, ses, todo, published, ret, hist>>

---------------------------------------------------------------------------

\* The process dies; SQLite drops a transaction that did not commit.
Crash ==
  /\ pc # "down" /\ faults < MaxFaults
  /\ intent' = [s \in Syncs |-> IF Open(s) THEN intent[s] ELSE NoIntent]
  /\ pc' = "down" /\ faults' = faults + 1
  /\ UNCHANGED <<db, target, backup, staged, chain, cur, ses, todo, published, ret, hist>>

Step ==
  \/ Start \/ RecoverIntent \/ RemoveOrphans \/ FailIncompleteRuns \/ \E s \in Syncs : StartRun(s)
  \/ \E E \in SUBSET Files, v \in {version, version + 1} : Prepare(E, v)
  \/ WriteIntent \/ RecordFailed
  \/ \E f \in Files : \/ MoveToBackup(f) \/ MoveToTarget(f) \/ RemoveTarget(f)
                      \/ RestoreBackup(f) \/ KeepTarget(f) \/ RemoveBackup(f)
  \/ MarkPublished \/ CommitTransaction \/ HandleError
  \/ RemoveStaging \/ UnlinkIntent

Next == Step \/ PrepareFails \/ IntentWriteRaisesLate \/ FailureNotRecorded
             \/ CommitRaisesLate \/ TransactionFails \/ HandleErrorBlind \/ SessionFails \/ Crash

Spec == Init /\ [][Next]_vars

\* The process is scheduled, and the sync timer starts another run.
FairSpec == Spec /\ WF_vars(Step)

---------------------------------------------------------------------------
(* Properties.                                                             *)

\* Whenever no publication is open, the files are exactly those the committed
\* runs wrote and no backup is left, whatever crashed or raised before (unless
\* the error handler of _apply_and_publish undid a committed publication because
\* it could not read library_state; so for the next two).
FilesMatchDatabase ==
  ~undone /\ (\A s \in Syncs : ~Open(s)) =>
     /\ target = truth
     /\ \A s \in Syncs, f \in Files : backup[s][f] = 0

\* The committed content of a file is never lost: it is at its name, or at a
\* backup name that an intent still refers to.
NothingLost ==
  ~undone => \A f \in Files, s \in 0 .. MaxSyncs :
    truth[<<f, s>>] # 0 =>
      \/ target[<<f, s>>] = truth[<<f, s>>]
      \/ \E x \in Syncs : Open(x) /\ Slot(f, x) = <<f, s>> /\ backup[x][f] = truth[<<f, s>>]

\* When no publication is open the catalog lists exactly the committed runs, in
\* order, up to library_state; at any time it is a continuous chain.
CatalogIsHistory == ~undone =>
  /\ Continuous(CatalogFile)
  /\ (\A s \in Syncs : ~Open(s)) /\ active # 0 =>
        /\ {CatalogFile[i].sync : i \in 1 .. Len(CatalogFile)}
             = {s \in Syncs : runs[s] = "success"}
        /\ CatalogFile[Len(CatalogFile)].sync = active
        /\ CatalogFile[Len(CatalogFile)].to = version

\* An interrupted publication is eventually completed or restored.
IntentResolved == \A s \in Syncs : Open(s) ~> ~Open(s)

=============================================================================
