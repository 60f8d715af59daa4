------------------------ MODULE WritingRetentionProofs ------------------------
(***************************************************************************)
(* Theorems of WritingRetention about the alias of the knowledge base:     *)
(* current.json and the alias agree whenever no journal is pending, and    *)
(* the journalled switch implements the one-step register, for any number  *)
(* of collections, deaths, recoveries and retirements.                     *)
(***************************************************************************)
EXTENDS WritingRetention, TLAPS

\* The steps between the journal's first and last write, and the step of a
\* retirement that drops the rollback target.
Switching == {"switch", "mark", "current", "commit", "forget"}

Typed ==
    /\ coll \subseteq Collections
    /\ alias \in Names
    /\ current \in CurrentFile
    /\ txn \in JournalFile
    /\ then \in {"idle", "rolled"}

\* current.json describes what the alias serves.
RecordAgrees ==
    /\ current.active = alias
    /\ current.dir = OwnFiles(Served)
    /\ current.rel \in {OwnFiles(Served), NoColl}
    /\ current.prev # NoColl =>
          /\ current.active # NoColl
          /\ current.pdir = OwnFiles(current.prev)
          /\ current.prel \in {OwnFiles(current.prev), NoColl}

\* The journal names two collections and the files of each.
JournalAgrees ==
    /\ txn.cand \in Collections /\ txn.prev \in Collections
    /\ txn.cdir = OwnFiles(txn.cand)
    /\ txn.pdir = OwnFiles(txn.prev)
    /\ txn.crel \in {OwnFiles(txn.cand), NoColl}

\* A pending journal whose switch has not happened changed nothing yet.
NotSwitchedYet == RecordAgrees /\ txn.prev = Served

\* current.json as the journal's last step leaves it.
Rewritten ==
    /\ current.active = txn.cand /\ current.prev = txn.prev
    /\ current.dir = txn.cdir /\ current.pdir = txn.pdir /\ current.rel = txn.crel
    /\ current.prel \in {OwnFiles(txn.prev), NoColl}

\* What holds at each write of a switch.
StepAgrees ==
    /\ step \in {"switch", "mark", "current", "commit"} => Pending
    /\ step \in {"mark", "current", "commit"} => alias = txn.cand
    /\ step \in {"switch", "mark", "current"} =>
          current.rel \in {OwnFiles(txn.prev), NoColl}
    /\ step = "commit" => Rewritten
    /\ step = "forget" => ~Pending

JournalInv ==
    /\ Typed
    /\ ~Pending => RecordAgrees
    /\ Pending => JournalAgrees
    /\ Pending /\ alias # txn.cand => NotSwitchedYet
    /\ StepAgrees

-------------------------------------------------------------------------------
LEMMA OwnFilesName == ASSUME NEW c \in Names PROVE OwnFiles(c) \in Names
  BY DEF OwnFiles, Names

LEMMA BaseName == Base \in Collections /\ NoColl \notin Collections /\ Candidates \subseteq Collections
  BY PromotionConstants

LEMMA ServedName == Typed => Served \in Collections
  BY BaseName DEF Typed, Served, Names

LEMMA JournalInitInv == RetentionInit => JournalInv
  <1> SUFFICES ASSUME RetentionInit PROVE JournalInv
    OBVIOUS
  <1>1. PromotionInit
    BY DEF RetentionInit
  <1>2. Typed
    BY <1>1, BaseName DEF PromotionInit, Typed, Names, CurrentFile, JournalFile, NoCurrent, NoTxn
  <1>3. ~Pending /\ step = "idle"
    BY <1>1 DEF PromotionInit, Pending, NoTxn
  <1>4. RecordAgrees
    BY <1>1 DEF PromotionInit, RecordAgrees, NoCurrent, Served, OwnFiles
  <1> QED BY <1>2, <1>3, <1>4 DEF JournalInv, StepAgrees

-------------------------------------------------------------------------------
(* A step that leaves the alias, current.json and the journal alone, and is   *)
(* not the start of a switch.                                                 *)
KeepsJournal ==
    /\ UNCHANGED <<alias, current, txn>>
    /\ coll' \subseteq Collections
    /\ then' \in {"idle", then}
    /\ step' = step \/ step' \notin Switching

LEMMA KeepsJournalInv == ASSUME JournalInv, KeepsJournal PROVE JournalInv'
  <1>1. Typed'
    BY DEF JournalInv, KeepsJournal, Typed
  <1>2. /\ Pending' = Pending /\ (RecordAgrees' <=> RecordAgrees)
        /\ (JournalAgrees' <=> JournalAgrees) /\ (Rewritten' <=> Rewritten) /\ Served' = Served
    BY DEF KeepsJournal, Pending, RecordAgrees, JournalAgrees, Rewritten, Served
  <1>3. StepAgrees'
    BY <1>2 DEF JournalInv, KeepsJournal, StepAgrees, Switching
  <1> QED BY <1>1, <1>2, <1>3 DEF JournalInv, KeepsJournal, NotSwitchedYet

LEMMA PromoteInv == ASSUME JournalInv, Promote PROVE JournalInv'
  <1>1. /\ ~Pending /\ RecordAgrees /\ staged \in Collections /\ Replaced = Served
        /\ Replaced \in Collections
    BY ServedName DEF JournalInv, Promote, Typed, RecordAgrees, Replaced, Recorded, Served
  <1>2. /\ txn' = [status |-> "prepared", op |-> "promote", cand |-> staged,
                   prev |-> Replaced, cdir |-> OwnFiles(staged),
                   pdir |-> current.dir, crel |-> OwnFiles(staged)]
        /\ step' = "switch" /\ UNCHANGED <<coll, alias, current, then>>
    BY DEF Promote, Goto, stores
  <1>3. txn' \in JournalFile /\ Pending'
    BY <1>1, <1>2, OwnFilesName DEF JournalInv, Typed, JournalFile, CurrentFile, Names, Pending
  <1>4. JournalAgrees'
    BY <1>1, <1>2 DEF JournalAgrees, RecordAgrees
  <1>5. RecordAgrees' /\ Served' = Served
    BY <1>1, <1>2 DEF RecordAgrees, Served
  <1>6. StepAgrees'
    BY <1>1, <1>2, <1>3 DEF StepAgrees, RecordAgrees
  <1> QED BY <1>1, <1>2, <1>3, <1>4, <1>5, <1>6 DEF JournalInv, Typed, NotSwitchedYet

LEMMA RollbackInv ==
    ASSUME JournalInv, NEW next \in {"idle", "rolled"}, RollbackThen(next)
    PROVE  JournalInv'
  <1>1. /\ ~Pending /\ RecordAgrees /\ current.prev \in Collections
        /\ current.active = Served /\ Served \in Collections
    BY BaseName, ServedName DEF JournalInv, RollbackThen, Typed, RecordAgrees, Served
  <1>2. /\ txn' = [status |-> "prepared", op |-> "rollback",
                   cand |-> current.prev, prev |-> current.active,
                   cdir |-> current.pdir, pdir |-> current.dir,
                   crel |-> current.prel]
        /\ step' = "switch" /\ then' = next /\ UNCHANGED <<coll, alias, current>>
    BY DEF RollbackThen, Goto, stores
  <1>3. txn' \in JournalFile /\ Pending'
    BY <1>1, <1>2 DEF JournalInv, Typed, JournalFile, CurrentFile, Names, Pending
  <1>4. JournalAgrees'
    BY <1>1, <1>2, BaseName DEF JournalAgrees, RecordAgrees
  <1>5. RecordAgrees' /\ Served' = Served
    BY <1>1, <1>2 DEF RecordAgrees, Served
  <1>6. StepAgrees'
    BY <1>1, <1>2, <1>3 DEF StepAgrees, RecordAgrees
  <1> QED BY <1>1, <1>2, <1>3, <1>4, <1>5, <1>6 DEF JournalInv, Typed, NotSwitchedYet

\* The alias moves to the journal's collection; the journal stays pending.
LEMMA SwitchInv == ASSUME JournalInv, Switch \/ MarkSwitched PROVE JournalInv'
  <1>1. CASE Switch
    <2>1. /\ step = "switch" /\ step' = "mark" /\ alias' = txn.cand
          /\ UNCHANGED <<coll, current, txn, then>> /\ Pending
      BY <1>1 DEF Switch, Goto, stores, JournalInv, StepAgrees
    <2>2. Pending' /\ JournalAgrees' /\ alias' \in Names
      BY <2>1 DEF JournalInv, JournalAgrees, Pending, Names
    <2>3. StepAgrees'
      BY <2>1, <2>2 DEF JournalInv, StepAgrees
    <2> QED BY <2>1, <2>2, <2>3 DEF JournalInv, Typed
  <1>2. CASE MarkSwitched
    <2>1. /\ step = "mark" /\ step' = "current" /\ txn' = [txn EXCEPT !.status = "alias_switched"]
          /\ UNCHANGED <<coll, alias, current, then>> /\ Pending
      BY <1>2 DEF MarkSwitched, Goto, stores, JournalInv, StepAgrees
    <2>2. /\ txn' \in JournalFile /\ txn'.status = "alias_switched"
          /\ txn'.cand = txn.cand /\ txn'.prev = txn.prev /\ txn'.cdir = txn.cdir
          /\ txn'.pdir = txn.pdir /\ txn'.crel = txn.crel
      BY <2>1 DEF JournalInv, Typed, JournalFile
    <2>3. Pending' /\ JournalAgrees'
      BY <2>1, <2>2 DEF JournalInv, JournalAgrees, Pending
    <2>4. StepAgrees'
      BY <2>1, <2>2, <2>3 DEF JournalInv, StepAgrees
    <2> QED BY <2>1, <2>2, <2>3, <2>4 DEF JournalInv, Typed, StepAgrees
  <1> QED BY <1>1, <1>2

\* current.json is written from the journal, on the way or by recovery.
LEMMA RewriteInv == ASSUME JournalInv, WriteCurrent \/ RecoverSwitched PROVE JournalInv'
  <1>1. /\ Pending /\ alias = txn.cand /\ step' = "commit"
        /\ UNCHANGED <<coll, alias, txn, then>>
    BY DEF WriteCurrent, RecoverSwitched, Goto, stores, JournalInv, StepAgrees
  <1>2. \E r \in {OwnFiles(txn.prev), NoColl} :
          current' = [active |-> txn.cand, prev |-> txn.prev, dir |-> txn.cdir,
                      pdir |-> txn.pdir, rel |-> txn.crel, prel |-> r]
    BY DEF WriteCurrent, RecoverSwitched, JournalInv, StepAgrees
  <1>3. JournalAgrees /\ Pending' /\ JournalAgrees'
    BY <1>1 DEF JournalInv, Pending, JournalAgrees
  <1>4. current' \in CurrentFile
    <2>1. txn.cand \in Names /\ txn.prev \in Names /\ NoColl \in Names
      BY <1>3 DEF JournalAgrees, Names
    <2> QED BY <1>2, <1>3, <2>1, OwnFilesName DEF JournalAgrees, CurrentFile
  <1>5. Rewritten'
    BY <1>1, <1>2 DEF Rewritten
  <1> QED BY <1>1, <1>3, <1>4, <1>5 DEF JournalInv, Typed, StepAgrees

LEMMA CommitInv == ASSUME JournalInv, Commit PROVE JournalInv'
  <1>1. /\ step = "commit" /\ step' = then /\ then' = "idle"
        /\ txn' = [txn EXCEPT !.status = "committed"]
        /\ UNCHANGED <<coll, alias, current>>
        /\ JournalAgrees /\ Rewritten /\ alias = txn.cand
    BY DEF Commit, Goto, stores, JournalInv, StepAgrees
  <1>2. txn' \in JournalFile /\ ~Pending'
    BY <1>1 DEF JournalInv, Typed, JournalFile, Pending
  <1>3. RecordAgrees'
    BY <1>1, BaseName DEF JournalAgrees, Rewritten, RecordAgrees, Served
  <1>4. StepAgrees'
    BY <1>1, <1>2 DEF JournalInv, Typed, StepAgrees
  <1> QED BY <1>1, <1>2, <1>3, <1>4 DEF JournalInv, Typed

LEMMA AbortInv == ASSUME JournalInv, RecoverUnswitched PROVE JournalInv'
  <1>1. /\ step = "idle" /\ txn' = [txn EXCEPT !.status = "aborted"]
        /\ UNCHANGED <<coll, alias, current, step, then>> /\ RecordAgrees
    BY DEF RecoverUnswitched, Idle, stores, JournalInv, NotSwitchedYet
  <1>2. txn' \in JournalFile /\ ~Pending'
    BY <1>1 DEF JournalInv, Typed, JournalFile, Pending
  <1>3. RecordAgrees' /\ StepAgrees'
    BY <1>1, <1>2 DEF RecordAgrees, Served, StepAgrees
  <1> QED BY <1>1, <1>2, <1>3 DEF JournalInv, Typed

\* A retirement forgets the rollback target, and first a staged collection.
LEMMA ForgetInv == ASSUME JournalInv, ForgetStaged \/ ForgetPrevious PROVE JournalInv'
  <1>1. CASE ForgetStaged
    <2>1. /\ ~Pending /\ step' = "forget" /\ UNCHANGED <<coll, alias, current, txn, then>>
      BY <1>1 DEF ForgetStaged, FinalizeAllowed, Goto, stores
    <2>2. ~Pending' /\ RecordAgrees' /\ StepAgrees'
      BY <2>1 DEF JournalInv, Pending, RecordAgrees, Served, StepAgrees
    <2> QED BY <2>1, <2>2 DEF JournalInv, Typed
  <1>2. CASE ForgetPrevious
    <2>1. /\ step = "forget" /\ step' = "retired" /\ UNCHANGED <<coll, alias, txn, then>>
          /\ current' = [current EXCEPT !.prev = NoColl, !.pdir = NoColl, !.prel = NoColl]
      BY <1>2 DEF ForgetPrevious, Goto, stores
    <2>2. ~Pending /\ ~Pending' /\ RecordAgrees
      BY <2>1 DEF JournalInv, StepAgrees, Pending
    <2>3. /\ current' \in CurrentFile /\ current'.prev = NoColl
          /\ current'.active = current.active /\ current'.dir = current.dir
          /\ current'.rel = current.rel
      BY <2>1 DEF JournalInv, Typed, CurrentFile, Names
    <2>4. RecordAgrees' /\ StepAgrees'
      BY <2>1, <2>2, <2>3 DEF RecordAgrees, Served, StepAgrees
    <2> QED BY <2>1, <2>2, <2>3, <2>4 DEF JournalInv, Typed
  <1> QED BY <1>1, <1>2

-------------------------------------------------------------------------------
(* The steps that keep the journal.                                           *)

\* A running command goes on, ends or starts a step that is not of a switch.
LEMMA KeepsWhenUnchanged ==
    ASSUME JournalInv, UNCHANGED <<journal, then>>, coll' \subseteq coll,
           step' = step \/ step' \notin Switching
    PROVE  KeepsJournal
  BY DEF KeepsJournal, journal, JournalInv, Typed

LEMMA BuildKeeps ==
    ASSUME JournalInv,
           (\E c \in Candidates : StartBuild(c)) \/ Merge \/ WriteReport \/ WriteManifest
    PROVE  KeepsJournal
  BY BaseName DEF StartBuild, Clone, Merge, WriteReport, WriteManifest, Goto, journal, Switching,
                  KeepsJournal, JournalInv, Typed

LEMMA StageKeeps ==
    ASSUME JournalInv, (\E c \in Collections : Stage(c)) \/ SwitchFails \/ Die
    PROVE  KeepsJournal
  BY DEF Stage, SwitchFails, Die, Goto, stores, journal, Switching, KeepsJournal, JournalInv, Typed

LEMMA CacheKeeps == ASSUME JournalInv, CacheNext PROVE KeepsJournal
  <1>1. UNCHANGED <<journal, then, coll>>
    BY DEF CacheNext, CacheAnswer, MigrateCacheScope, BindEntry, MigrationDone, MigrationFails,
           PurgeCacheScope, CachePurgeBegins, UnscopeEntry, CachePurged, CachePurgeFails, Raise,
           promotionVars, stores, journal
  <1>2. step' = step \/ step' \notin Switching
    BY DEF CacheNext, CacheAnswer, MigrateCacheScope, BindEntry, MigrationDone, MigrationFails,
           PurgeCacheScope, CachePurgeBegins, UnscopeEntry, CachePurged, CachePurgeFails, Raise,
           Return, Goto, promotionVars, Switching
  <1> QED BY <1>1, <1>2, KeepsWhenUnchanged

LEMMA RetireKeeps ==
    ASSUME JournalInv,
           \/ DecommissionRelease \/ FallbackReached \/ DeleteCollection \/ DeleteRefused
           \/ CollectionsDeleted \/ MoveDirectory \/ DirectoriesMoved \/ FinalizeRefused
           \/ RetirementDone
    PROVE  KeepsJournal
  <1>1. UNCHANGED <<journal, then>> /\ coll' \subseteq coll
    BY DEF DecommissionRelease, RetirementBegins, FallbackReached, DeleteCollection, DeleteRefused,
           CollectionsDeleted, MoveDirectory, DirectoriesMoved, FinalizeRefused, RetirementDone,
           Raise, stores, journal
  <1>2. step' = step \/ step' \notin Switching
    BY DEF DecommissionRelease, RetirementBegins, FallbackReached, DeleteCollection, DeleteRefused,
           CollectionsDeleted, MoveDirectory, DirectoriesMoved, FinalizeRefused, RetirementDone,
           Raise, Return, Goto, Switching
  <1> QED BY <1>1, <1>2, KeepsWhenUnchanged

LEMMA RunKeeps == ASSUME JournalInv, RunNext PROVE KeepsJournal
  <1>1. UNCHANGED <<journal, then, coll>>
    BY DEF RunNext, Quarantine, QuarantineBegins, QuarantineResumes, RenameRun, QuarantineReceipt,
           PurgeReferences, ReferencePurgeBegins, RemoveDirectory, ReferencesPurged, Purge,
           RemoveRun, RunPurged, promotionVars, stores, journal
  <1>2. step' = step \/ step' \notin Switching
    BY DEF RunNext, Quarantine, QuarantineBegins, QuarantineResumes, RenameRun, QuarantineReceipt,
           PurgeReferences, ReferencePurgeBegins, RemoveDirectory, ReferencesPurged, Purge,
           RemoveRun, RunPurged, promotionVars, Return, Goto, Switching
  <1> QED BY <1>1, <1>2, KeepsWhenUnchanged

LEMMA CoordinatorKeeps == ASSUME JournalInv, CoordinatorNext \/ Tick PROVE KeepsJournal
  <1>1. UNCHANGED <<journal, then, coll>>
    BY DEF CoordinatorNext, Tick, Dispose, CacheStage, CachePurgeBegins, CacheStageFails,
           ReleaseStage, RetirementBegins, ReleaseStageFails, QuarantineStage, QuarantineBegins,
           QuarantineResumes, QuarantineStageFails, Disposed, PurgeDisposition,
           ReferencePurgeBegins, PurgeStageFails, Raise, promotionVars, stores, journal
  <1>2. step' = step \/ step' \notin Switching
    BY DEF CoordinatorNext, Tick, Dispose, CacheStage, CachePurgeBegins, CacheStageFails,
           ReleaseStage, RetirementBegins, ReleaseStageFails, QuarantineStage, QuarantineBegins,
           QuarantineResumes, QuarantineStageFails, Disposed, PurgeDisposition,
           ReferencePurgeBegins, PurgeStageFails, Raise, Goto, promotionVars, Switching
  <1> QED BY <1>1, <1>2, KeepsWhenUnchanged

\* A retirement rolls the alias back, goes on or gives up.
LEMMA FallbackSteps ==
    ASSUME JournalInv, EnsureFallback
    PROVE  RollbackThen("rolled") \/ KeepsJournal
  <1>1. CASE RollbackThen("rolled")
    BY <1>1
  <1>2. CASE UNCHANGED <<stores, journal, then>> /\ step' \in {"delete", "idle"}
    BY <1>2, KeepsWhenUnchanged DEF stores, Switching
  <1> QED BY <1>1, <1>2 DEF EnsureFallback, Goto

\* Every step is a step of a switch, or keeps the journal.
SwitchStep ==
    \/ Promote
    \/ \E next \in {"idle", "rolled"} : RollbackThen(next)
    \/ Switch \/ MarkSwitched
    \/ WriteCurrent \/ RecoverSwitched
    \/ Commit
    \/ RecoverUnswitched
    \/ ForgetStaged \/ ForgetPrevious

LEMMA EveryStep ==
    ASSUME JournalInv, [RetentionNext]_retentionVars
    PROVE  SwitchStep \/ KeepsJournal
  <1>1. CASE ReleaseNext
    <2>1. \/ (\E c \in Candidates : StartBuild(c)) \/ Merge \/ WriteReport \/ WriteManifest
          \/ (\E c \in Collections : Stage(c)) \/ SwitchFails
          \/ SwitchStep
      BY <1>1 DEF ReleaseNext, AliasNext, SwitchStep, Rollback
    <2> QED BY <2>1, BuildKeeps, StageKeeps
  <1>2. CASE CacheNext
    BY <1>2, CacheKeeps
  <1>3. CASE DecommissionRelease \/ RetireStep
    BY <1>3, RetireKeeps, FallbackSteps DEF RetireStep, SwitchStep
  <1>4. CASE RunNext
    BY <1>4, RunKeeps
  <1>5. CASE CoordinatorNext \/ Tick
    BY <1>5, CoordinatorKeeps
  <1>6. CASE Interrupted
    BY <1>6, StageKeeps DEF Interrupted
  <1>7. CASE UNCHANGED retentionVars
    BY <1>7 DEF retentionVars, promotionVars, KeepsJournal, JournalInv, Typed
  <1> QED BY <1>1, <1>2, <1>3, <1>4, <1>5, <1>6, <1>7 DEF RetentionNext

LEMMA JournalNextInv == JournalInv /\ [RetentionNext]_retentionVars => JournalInv'
  <1> SUFFICES ASSUME JournalInv, [RetentionNext]_retentionVars PROVE JournalInv'
    OBVIOUS
  <1>1. CASE KeepsJournal
    BY <1>1, KeepsJournalInv
  <1>2. CASE SwitchStep
    BY <1>2, PromoteInv, RollbackInv, SwitchInv, RewriteInv, CommitInv, AbortInv, ForgetInv
    DEF SwitchStep
  <1> QED BY <1>1, <1>2, EveryStep

LEMMA JournalInvariant == RetentionSpec => []JournalInv
  BY JournalInitInv, JournalNextInv, PTL DEF RetentionSpec

\* Whatever dies, is recovered, rolled back or retired: with no journal
\* pending, current.json names what the alias serves, with that collection's
\* own files (promote, rollback, recover_pending, finalize_retired_previous).
THEOREM ReaderGetsItsFiles == RetentionSpec => []AliasHasItsFiles
  <1>1. JournalInv => AliasHasItsFiles
    BY DEF JournalInv, RecordAgrees, AliasHasItsFiles
  <1> QED BY <1>1, JournalInvariant, PTL

-------------------------------------------------------------------------------
(* The journalled switch is one step of the register.                         *)

LEMMA RegisterStep ==
    JournalInv /\ [RetentionNext]_retentionVars
        => [Register!RegisterNext]_<<Served, FallbackNow>>
  <1> SUFFICES ASSUME JournalInv, [RetentionNext]_retentionVars
               PROVE  [Register!RegisterNext]_<<Served, FallbackNow>>
    OBVIOUS
  <1> DEFINE Stutter == Served' = Served /\ FallbackNow' = FallbackNow
  <1>1. CASE KeepsJournal
    BY <1>1 DEF KeepsJournal, Served, FallbackNow, Pending
  <1>2. CASE Promote
    <2>1. /\ ~Pending /\ Pending' /\ RecordAgrees /\ Served \in Collections /\ Served' = Served
          /\ alias' = alias /\ current' = current
          /\ txn'.cand = staged /\ txn'.prev = Served /\ staged \in Collections
      BY <1>2, ServedName
      DEF Promote, stores, JournalInv, Typed, RecordAgrees, Replaced, Recorded, Served, Pending
    <2>2. FallbackNow' = IF alias = staged THEN Served ELSE FallbackNow
      BY <2>1 DEF FallbackNow
    <2>3. CASE alias = staged
      <3>1. Served = alias
        BY <2>1, <2>3, BaseName DEF Served
      <3> QED BY <2>1, <2>2, <2>3, <3>1 DEF Register!RegisterNext, Register!SwitchTo
    <2> QED BY <2>1, <2>2, <2>3
  <1>3. ASSUME NEW next \in {"idle", "rolled"}, RollbackThen(next) PROVE Stutter
    <2>1. /\ ~Pending /\ Pending' /\ RecordAgrees /\ current.prev \in Collections
          /\ Served' = Served /\ alias' = alias
          /\ txn'.cand = current.prev /\ txn'.prev = current.active
      BY <1>3 DEF RollbackThen, stores, JournalInv, Typed, Served, Pending
    <2>2. current.active = alias
      BY <2>1 DEF RecordAgrees
    <2>3. FallbackNow = current.prev
      BY <2>1 DEF FallbackNow
    <2>4. FallbackNow' = IF alias = current.prev THEN alias ELSE current.prev
      BY <1>3, <2>1, <2>2 DEF FallbackNow, RollbackThen
    <2> QED BY <2>1, <2>3, <2>4
  <1>4. CASE Switch
    <2>1. /\ Pending /\ Pending' /\ JournalAgrees /\ alias' = txn.cand /\ txn' = txn
          /\ current' = current
      BY <1>4 DEF Switch, stores, JournalInv, StepAgrees, Pending
    <2>2. Served' = txn.cand /\ FallbackNow' = txn.prev
      BY <2>1, BaseName DEF Served, FallbackNow, JournalAgrees
    <2>3. CASE alias = txn.cand
      BY <2>1, <2>2, <2>3, BaseName DEF Served, FallbackNow, JournalAgrees
    <2>4. CASE alias # txn.cand
      <3>1. txn.prev = Served
        BY <2>1, <2>4 DEF JournalInv, NotSwitchedYet
      <3> QED BY <2>1, <2>2, <3>1 DEF JournalAgrees, Register!RegisterNext, Register!SwitchTo
    <2> QED BY <2>3, <2>4
  <1>5. CASE MarkSwitched
    <2>1. /\ Pending /\ alias' = alias /\ current' = current /\ txn'.cand = txn.cand
          /\ txn'.prev = txn.prev /\ txn'.status = "alias_switched"
      BY <1>5 DEF MarkSwitched, stores, JournalInv, StepAgrees, Typed, JournalFile
    <2> QED BY <2>1 DEF Served, FallbackNow, Pending
  <1>6. CASE WriteCurrent \/ RecoverSwitched
    <2>1. Pending /\ alias = txn.cand /\ UNCHANGED <<alias, txn>>
      BY <1>6 DEF WriteCurrent, RecoverSwitched, stores, JournalInv, StepAgrees
    <2> QED BY <2>1 DEF Served, FallbackNow, Pending
  <1>7. CASE Commit
    <2>1. /\ Pending /\ alias = txn.cand /\ Rewritten /\ UNCHANGED <<alias, current>>
          /\ txn'.status = "committed"
      BY <1>7 DEF Commit, stores, JournalInv, StepAgrees, Typed, JournalFile
    <2> QED BY <2>1 DEF Served, FallbackNow, Pending, Rewritten
  <1>8. CASE RecoverUnswitched
    <2>1. alias # txn.cand /\ UNCHANGED <<alias, current>> /\ txn'.status = "aborted"
      BY <1>8 DEF RecoverUnswitched, stores, JournalInv, Typed, JournalFile
    <2> QED BY <2>1 DEF Served, FallbackNow, Pending
  <1>9. CASE ForgetStaged
    BY <1>9 DEF ForgetStaged, stores, Served, FallbackNow, Pending
  <1>10. CASE ForgetPrevious
    <2>1. ~Pending /\ UNCHANGED <<alias, txn>> /\ current'.prev = NoColl
      BY <1>10 DEF ForgetPrevious, stores, JournalInv, StepAgrees, Typed, CurrentFile
    <2>2. Served' = Served /\ FallbackNow' = NoColl
      BY <2>1 DEF Served, FallbackNow, Pending
    <2> QED BY <2>2 DEF Register!RegisterNext, Register!Forget
  <1> QED BY <1>1, <1>2, <1>3, <1>4, <1>5, <1>6, <1>7, <1>8, <1>9, <1>10, EveryStep DEF SwitchStep

\* A reader of the alias and of the rollback target sees a promotion, a
\* rollback or a retirement as one step, through every death and recovery.
THEOREM SwitchIsOneStep == RetentionSpec => SwitchIsAtomic
  <1>1. RetentionInit => Register!RegisterInit
    BY DEF RetentionInit, PromotionInit, Register!RegisterInit, Served, FallbackNow, Pending,
           NoTxn, NoCurrent
  <1> QED BY <1>1, JournalInvariant, RegisterStep, PTL
          DEF RetentionSpec, SwitchIsAtomic, Register!RegisterSpec

-------------------------------------------------------------------------------
(* The served collection exists.                                              *)

Actions == [op : {"none", "rollback", "retire_previous"}, retired : Names, fallback : Names]

\* A retirement's intent names collections of candidates only.
RetirementTyped ==
    retireFile \in [on : BOOLEAN, done : BOOLEAN, at : Nat, dirs : SUBSET Directories,
                    colls : SUBSET Candidates, existing : SUBSET Candidates, action : Actions]

ExistInv ==
    /\ now \in Nat
    /\ RetirementTyped
    /\ Served \in coll
    /\ step = "switch" => txn.cand \in coll

\* Nothing is deleted and the alias stays.
KeepsServed ==
    /\ UNCHANGED <<alias, retireFile, txn>>
    /\ now' \in Nat
    /\ coll \subseteq coll'
    /\ step' = step \/ step' # "switch"

LEMMA KeepsServedInv == ASSUME ExistInv, KeepsServed PROVE ExistInv'
  BY DEF ExistInv, KeepsServed, RetirementTyped, Served

LEMMA ExistInitInv == RetentionInit => ExistInv
  <1> SUFFICES ASSUME RetentionInit PROVE ExistInv
    OBVIOUS
  <1>1. Served \in coll /\ step = "idle" /\ now = 0
    BY BaseName, PromotionConstants DEF RetentionInit, PromotionInit, Served
  <1>2. RetirementTyped
    BY DEF RetentionInit, RetirementTyped, Actions, NoAction, Names
  <1> QED BY <1>1, <1>2 DEF ExistInv

LEMMA IntentTyped ==
    ASSUME JournalInv
    PROVE  RetirementIntent \in [on : BOOLEAN, done : BOOLEAN, at : Nat,
                                 dirs : SUBSET Directories, colls : SUBSET Candidates,
                                 existing : SUBSET Candidates, action : Actions]
  <1>1. References \subseteq Directories
    BY DEF References, Directories
  <1>2. OwnedBy(References) \subseteq Candidates
    BY <1>1 DEF OwnedBy, Directories
  <1>3. AliasAction(OwnedBy(References)) \in Actions
    BY DEF JournalInv, Typed, CurrentFile, AliasAction, NoAction, Actions, Names
  <1> QED BY <1>1, <1>2, <1>3 DEF RetirementIntent

LEMMA RetirementBeginsInv == ASSUME JournalInv, ExistInv, RetirementBegins PROVE ExistInv'
  <1>1. /\ UNCHANGED <<alias, txn, coll, now>> /\ step' = "fallback"
        /\ retireFile' \in {retireFile, RetirementIntent}
    BY DEF RetirementBegins, Goto, stores, journal
  <1>2. RetirementTyped'
    BY <1>1, IntentTyped DEF ExistInv, RetirementTyped
  <1> QED BY <1>1, <1>2 DEF ExistInv, Served

LEMMA RetirementDoneInv == ASSUME ExistInv, RetirementDone PROVE ExistInv'
  <1>1. /\ UNCHANGED <<alias, txn, coll, now>> /\ step' # "switch"
        /\ retireFile' = [retireFile EXCEPT !.done = TRUE, !.at = now]
    BY DEF RetirementDone, Return, Goto, stores, journal
  <1>2. RetirementTyped'
    BY <1>1 DEF ExistInv, RetirementTyped
  <1> QED BY <1>1, <1>2 DEF ExistInv, Served

\* The collection that is deleted is a candidate's and not the alias target.
LEMMA DeletionInv == ASSUME ExistInv, DeleteCollection PROVE ExistInv'
  <1>1. PICK c \in (retireFile.colls \cap coll) \ {alias} : coll' = coll \ {c}
    BY DEF DeleteCollection
  <1>2. UNCHANGED <<alias, txn, now, retireFile, step>> /\ step = "delete"
    BY DEF DeleteCollection, journal, retentionFiles
  <1>3. c \in Candidates
    BY <1>1 DEF ExistInv, RetirementTyped
  <1>4. c # Served
    BY <1>1, <1>3, PromotionConstants DEF Served
  <1> QED BY <1>1, <1>2, <1>4 DEF ExistInv, RetirementTyped, Served

LEMMA AliasExists ==
    ASSUME JournalInv, ExistInv, SwitchStep, UNCHANGED <<now, retireFile>>
    PROVE  ExistInv'
  <1>1. CASE Promote
    BY <1>1 DEF Promote, Goto, stores, ExistInv, RetirementTyped, Served
  <1>2. ASSUME NEW next \in {"idle", "rolled"}, RollbackThen(next) PROVE ExistInv'
    BY <1>2 DEF RollbackThen, Goto, stores, ExistInv, RetirementTyped, Served
  <1>3. CASE Switch
    <2>1. Served' = txn.cand
      BY <1>3, BaseName DEF Switch, Served, JournalInv, StepAgrees, JournalAgrees
    <2> QED BY <1>3, <2>1 DEF Switch, Goto, stores, ExistInv, RetirementTyped
  <1>4. CASE MarkSwitched \/ WriteCurrent \/ RecoverSwitched \/ RecoverUnswitched \/ Commit
    <2>1. UNCHANGED <<coll, alias>> /\ step' # "switch"
      BY <1>4 DEF MarkSwitched, WriteCurrent, RecoverSwitched, RecoverUnswitched, Commit, Idle,
                  Goto, stores, JournalInv, Typed
    <2> QED BY <2>1 DEF ExistInv, RetirementTyped, Served
  <1>5. CASE ForgetStaged \/ ForgetPrevious
    BY <1>5 DEF ForgetStaged, ForgetPrevious, Goto, stores, ExistInv, RetirementTyped, Served
  <1> QED BY <1>1, <1>2, <1>3, <1>4, <1>5 DEF SwitchStep

LEMMA ExistNextInv == JournalInv /\ ExistInv /\ [RetentionNext]_retentionVars => ExistInv'
  <1> SUFFICES ASSUME JournalInv, ExistInv, [RetentionNext]_retentionVars PROVE ExistInv'
    OBVIOUS
  <1>1. CASE ReleaseNext
    <2>1. UNCHANGED <<now, retireFile>>
      BY <1>1 DEF ReleaseNext, retentionFiles
    <2>2. CASE (\E c \in Candidates : StartBuild(c)) \/ Merge \/ WriteReport \/ WriteManifest
      BY <2>1, <2>2, KeepsServedInv
      DEF ExistInv, StartBuild, Clone, Merge, WriteReport, WriteManifest, Goto, journal, KeepsServed
    <2>3. CASE (\E c \in Collections : Stage(c)) \/ SwitchFails
      BY <2>1, <2>3, KeepsServedInv
      DEF ExistInv, Stage, SwitchFails, Goto, stores, journal, KeepsServed
    <2>4. CASE SwitchStep
      BY <2>1, <2>4, AliasExists
    <2> QED BY <1>1, <2>2, <2>3, <2>4 DEF ReleaseNext, AliasNext, SwitchStep, Rollback
  <1>2. CASE CacheNext
    <2>1. UNCHANGED <<alias, retireFile, txn, now, coll>>
      BY <1>2 DEF CacheNext, CacheAnswer, MigrateCacheScope, BindEntry, MigrationDone,
             MigrationFails, PurgeCacheScope, CachePurgeBegins, UnscopeEntry, CachePurged,
             CachePurgeFails, Raise, promotionVars, stores, journal, retentionFiles
    <2>2. step' = step \/ step' # "switch"
      BY <1>2, CacheKeeps DEF KeepsJournal, Switching
    <2> QED BY <2>1, <2>2, KeepsServedInv DEF KeepsServed, ExistInv
  <1>3. CASE DecommissionRelease
    BY <1>3, RetirementBeginsInv DEF DecommissionRelease
  <1>4. CASE RetireStep
    <2>1. CASE EnsureFallback
      <3>1. UNCHANGED <<now, retireFile>>
        BY <2>1 DEF EnsureFallback, retentionFiles
      <3>2. CASE RollbackThen("rolled")
        BY <3>1, <3>2, AliasExists DEF SwitchStep
      <3>3. CASE UNCHANGED <<stores, journal>> /\ step' \in {"delete", "idle"}
        BY <3>1, <3>3, KeepsServedInv DEF stores, journal, KeepsServed, ExistInv
      <3> QED BY <2>1, <3>2, <3>3 DEF EnsureFallback, Goto
    <2>2. CASE \/ FallbackReached \/ DeleteRefused \/ CollectionsDeleted \/ MoveDirectory
               \/ DirectoriesMoved \/ FinalizeRefused
      <3>1. UNCHANGED <<alias, retireFile, txn, now, coll>>
        BY <2>2 DEF FallbackReached, DeleteRefused, CollectionsDeleted, MoveDirectory,
               DirectoriesMoved, FinalizeRefused, Raise, stores, journal, retentionFiles
      <3>2. step' = step \/ step' # "switch"
        BY <2>2, RetireKeeps DEF KeepsJournal, Switching
      <3> QED BY <3>1, <3>2, KeepsServedInv DEF KeepsServed, ExistInv
    <2>3. CASE ForgetStaged \/ ForgetPrevious
      <3>1. UNCHANGED <<now, retireFile>>
        BY <2>3 DEF ForgetStaged, ForgetPrevious, retentionFiles
      <3> QED BY <2>3, <3>1, AliasExists DEF SwitchStep
    <2> QED BY <1>4, <2>1, <2>2, <2>3, DeletionInv, RetirementDoneInv DEF RetireStep
  <1>5. CASE RunNext
    <2>1. UNCHANGED <<alias, retireFile, txn, now, coll>>
      BY <1>5 DEF RunNext, Quarantine, QuarantineBegins, QuarantineResumes, RenameRun,
             QuarantineReceipt, PurgeReferences, ReferencePurgeBegins, RemoveDirectory,
             ReferencesPurged, Purge, RemoveRun, RunPurged, promotionVars, stores, journal,
             retentionFiles
    <2>2. step' = step \/ step' # "switch"
      BY <1>5, RunKeeps DEF KeepsJournal, Switching
    <2> QED BY <2>1, <2>2, KeepsServedInv DEF KeepsServed, ExistInv
  <1>6. CASE CoordinatorNext \/ Tick
    <2>1. CASE RetirementBegins
      BY <2>1, RetirementBeginsInv
    <2>2. CASE ~RetirementBegins
      <3>1. UNCHANGED <<alias, retireFile, txn, coll>> /\ now' \in Nat
        BY <1>6, <2>2 DEF ExistInv, CoordinatorNext, Tick, Dispose, CacheStage, CachePurgeBegins,
             CacheStageFails, ReleaseStage, ReleaseStageFails, QuarantineStage, QuarantineBegins,
             QuarantineResumes, QuarantineStageFails, Disposed, PurgeDisposition,
             ReferencePurgeBegins, PurgeStageFails, Raise, promotionVars, stores, journal,
             retentionFiles
      <3>2. step' = step \/ step' # "switch"
        BY <1>6, CoordinatorKeeps DEF KeepsJournal, Switching
      <3> QED BY <3>1, <3>2, KeepsServedInv DEF KeepsServed
    <2> QED BY <2>1, <2>2
  <1>7. CASE Interrupted
    BY <1>7, KeepsServedInv
    DEF ExistInv, Interrupted, Die, Goto, stores, journal, retentionFiles, KeepsServed
  <1>8. CASE UNCHANGED retentionVars
    BY <1>8, KeepsServedInv DEF ExistInv, retentionVars, promotionVars, retentionFiles, KeepsServed
  <1> QED BY <1>1, <1>2, <1>3, <1>4, <1>5, <1>6, <1>7, <1>8 DEF RetentionNext

\* Whatever is retired, resumed, rolled back or killed, the collection the
\* knowledge base is served from is one that Qdrant holds (_delete_collections).
THEOREM AliasNeverDangles == RetentionSpec => []ServedExists
  <1>1. ExistInv => ServedExists
    BY DEF ExistInv, ServedExists
  <1> QED BY <1>1, ExistInitInv, ExistNextInv, JournalInvariant, PTL DEF RetentionSpec

-------------------------------------------------------------------------------
(* The run's answers and references.                                          *)

\* A step that may bring references or answers of the run back needs its
\* directory, and the rename finds none.
AbsentInv ==
    /\ cache \in [Keys -> SUBSET Scopes]
    /\ step \in {"merge", "report", "manifest", "migrate"} => run = "runs"
    /\ step = "rename" \/ run # "runs" => References = {} /\ ScopedToRun = {}

LEMMA NoPairs ==
    ASSUME NEW A, NEW B
    PROVE  ({"report"} \X A) \cup ({"manifest"} \X B) = {} <=> A = {} /\ B = {}
  <1>1. \A a \in A : <<"report", a>> \in {"report"} \X A
    OBVIOUS
  <1>2. \A b \in B : <<"manifest", b>> \in {"manifest"} \X B
    OBVIOUS
  <1>3. A = {} => {"report"} \X A = {}
    OBVIOUS
  <1>4. B = {} => {"manifest"} \X B = {}
    OBVIOUS
  <1> QED BY <1>1, <1>2, <1>3, <1>4

LEMMA NoReferences ==
    References = {} <=> refs \cap Candidates = {} /\ released \cap Candidates = {}
  BY NoPairs DEF References

LEMMA AbsentInitInv == RetentionInit => AbsentInv
  <1> SUFFICES ASSUME RetentionInit PROVE AbsentInv
    OBVIOUS
  <1>1. cache \in [Keys -> SUBSET Scopes]
    <2>1. cache \in [Keys -> {{}, {"legacy"}, {"run"}}]
      BY DEF RetentionInit
    <2>2. {{}, {"legacy"}, {"run"}} \subseteq SUBSET Scopes
      BY DEF Scopes
    <2> QED BY <2>1, <2>2
  <1>2. step = "idle" /\ run = "runs"
    BY DEF RetentionInit, PromotionInit
  <1> QED BY <1>1, <1>2 DEF AbsentInv

\* Nothing of the run appears, and its directory does not come back.
KeepsAbsent ==
    /\ refs' \subseteq refs /\ released' \subseteq released
    /\ cache' \in [Keys -> SUBSET Scopes]
    /\ \A k \in Keys : cache'[k] \subseteq cache[k]
    /\ run' = run \/ (run # "runs" /\ run' # "runs")
    /\ step' = step \/ step' \notin {"merge", "report", "manifest", "migrate", "rename"}

LEMMA KeepsAbsentInv == ASSUME AbsentInv, KeepsAbsent PROVE AbsentInv'
  <1>1. ScopedToRun' \subseteq ScopedToRun
    BY DEF KeepsAbsent, ScopedToRun
  <1>2. References = {} => References' = {}
    <2>1. References' = {} <=> refs' \cap Candidates = {} /\ released' \cap Candidates = {}
      BY NoPairs DEF References
    <2> QED BY <2>1, NoReferences DEF KeepsAbsent
  <1> QED BY <1>1, <1>2 DEF AbsentInv, KeepsAbsent

LEMMA ReleaseAbsent == ASSUME JournalInv, AbsentInv, ReleaseNext PROVE AbsentInv'
  <1>1. UNCHANGED <<cache, run>>
    BY DEF ReleaseNext, answers
  <1>2. CASE run = "runs" /\ \E c \in Candidates : StartBuild(c)
    BY <1>1, <1>2 DEF StartBuild, Goto, AbsentInv
  <1>3. CASE Merge \/ WriteReport \/ WriteManifest
    BY <1>1, <1>3 DEF Merge, WriteReport, WriteManifest, Goto, AbsentInv
  <1>4. CASE AliasNext
    <2>1. refs' = refs /\ released' = released
      BY <1>4 DEF AliasNext, Stage, Promote, Rollback, RollbackThen, Switch, SwitchFails,
             MarkSwitched, WriteCurrent, Commit, RecoverSwitched, RecoverUnswitched, stores
    <2>2. step' = step \/ step' \in {"idle", "switch", "mark", "current", "commit", then}
      BY <1>4 DEF AliasNext, Stage, Promote, Rollback, RollbackThen, Switch, SwitchFails, Goto,
             MarkSwitched, WriteCurrent, Commit, RecoverSwitched, RecoverUnswitched
    <2> QED BY <1>1, <2>1, <2>2, KeepsAbsentInv DEF KeepsAbsent, AbsentInv, JournalInv, Typed
  <1> QED BY <1>2, <1>3, <1>4 DEF ReleaseNext

\* One entry of the cache gets scopes, of the run only while it is in runs/.
LEMMA CacheAbsent == ASSUME AbsentInv, CacheNext PROVE AbsentInv'
  <1>1. UNCHANGED <<refs, released, run>>
    BY DEF CacheNext, CacheAnswer, MigrateCacheScope, BindEntry, MigrationDone, MigrationFails,
           PurgeCacheScope, CachePurgeBegins, UnscopeEntry, CachePurged, CachePurgeFails, Raise,
           promotionVars, stores
  <1>2. ASSUME NEW k \in Keys, NEW r \in {"run", "other"}, CacheAnswer(k, r) PROVE AbsentInv'
    <2>1. step = "idle" /\ step' = step /\ (r = "run" => run = "runs")
      BY <1>2 DEF CacheAnswer, Idle, promotionVars
    <2>2. cache' = [cache EXCEPT ![k] = (cache[k] \ {"legacy"}) \cup {r}]
      BY <1>2 DEF CacheAnswer
    <2>3. cache' \in [Keys -> SUBSET Scopes]
      BY <2>2 DEF AbsentInv, Scopes
    <2>4. CASE run = "runs"
      BY <1>1, <2>1, <2>3, <2>4 DEF AbsentInv
    <2>5. CASE run # "runs"
      <3>1. ScopedToRun' \subseteq ScopedToRun
        BY <2>1, <2>2, <2>5 DEF AbsentInv, ScopedToRun
      <3> QED BY <1>1, <2>1, <2>3, <2>5, <3>1 DEF AbsentInv, References
    <2> QED BY <2>4, <2>5
  <1>3. CASE MigrateCacheScope
    BY <1>1, <1>3 DEF MigrateCacheScope, Goto, AbsentInv
  <1>4. CASE BindEntry
    <2>1. run = "runs" /\ step' = step /\ step = "migrate"
      BY <1>4 DEF BindEntry, promotionVars, AbsentInv
    <2>2. cache' \in [Keys -> SUBSET Scopes]
      BY <1>4 DEF BindEntry, AbsentInv, Scopes, ScopedToRun
    <2> QED BY <1>1, <2>1, <2>2 DEF AbsentInv
  <1>5. CASE UnscopeEntry
    <2>1. PICK k \in ScopedToRun : cache' = [cache EXCEPT ![k] = cache[k] \ {"run"}]
      BY <1>5 DEF UnscopeEntry
    <2>2. k \in Keys
      BY DEF ScopedToRun
    <2>3. /\ cache' \in [Keys -> SUBSET Scopes]
          /\ \A j \in Keys : cache'[j] \subseteq cache[j]
      BY <2>1, <2>2 DEF AbsentInv
    <2>4. step' = step
      BY <1>5 DEF UnscopeEntry, promotionVars
    <2> QED BY <1>1, <2>3, <2>4, KeepsAbsentInv DEF KeepsAbsent
  <1>6. CASE \/ MigrationDone \/ MigrationFails \/ PurgeCacheScope \/ CachePurged
             \/ CachePurgeFails
    <2>1. cache' = cache
      BY <1>6 DEF MigrationDone, MigrationFails, PurgeCacheScope, CachePurgeBegins, CachePurged,
             CachePurgeFails, Raise, answers
    <2>2. step' \notin {"merge", "report", "manifest", "migrate", "rename"}
      BY <1>6 DEF MigrationDone, MigrationFails, PurgeCacheScope, CachePurgeBegins, CachePurged,
             CachePurgeFails, Raise, Return, Goto
    <2> QED BY <1>1, <2>1, <2>2, KeepsAbsentInv DEF KeepsAbsent, AbsentInv
  <1> QED BY <1>2, <1>3, <1>4, <1>5, <1>6 DEF CacheNext

LEMMA RetireAbsent == ASSUME AbsentInv, DecommissionRelease \/ RetireStep PROVE AbsentInv'
  <1>1. UNCHANGED <<cache, run>>
    BY DEF DecommissionRelease, RetirementBegins, RetireStep, EnsureFallback, FallbackReached,
           DeleteCollection, DeleteRefused, CollectionsDeleted, MoveDirectory, DirectoriesMoved,
           ForgetStaged, FinalizeRefused, ForgetPrevious, RetirementDone, Raise, answers
  <1>2. refs' \subseteq refs /\ released' \subseteq released
    BY DEF DecommissionRelease, RetirementBegins, RetireStep, EnsureFallback, RollbackThen,
           FallbackReached, DeleteCollection, DeleteRefused, CollectionsDeleted, MoveDirectory,
           DirectoriesMoved, ForgetStaged, FinalizeRefused, ForgetPrevious, RetirementDone, Raise,
           stores
  <1>3. step' = step \/ step' \notin {"merge", "report", "manifest", "migrate", "rename"}
    BY DEF DecommissionRelease, RetirementBegins, RetireStep, EnsureFallback, RollbackThen,
           FallbackReached, DeleteCollection, DeleteRefused, CollectionsDeleted, MoveDirectory,
           DirectoriesMoved, ForgetStaged, FinalizeRefused, ForgetPrevious, RetirementDone, Raise,
           Return, Goto
  <1> QED BY <1>1, <1>2, <1>3, KeepsAbsentInv DEF KeepsAbsent, AbsentInv

\* The rename follows the check of quarantine in the same command.
LEMMA QuarantineAbsent ==
    ASSUME AbsentInv, QuarantineBegins \/ QuarantineResumes
    PROVE  AbsentInv'
  <1>1. UNCHANGED <<refs, released, cache, run>>
    BY DEF QuarantineBegins, QuarantineResumes, stores, answers
  <1>2. CASE QuarantineBegins
    BY <1>1, <1>2
    DEF QuarantineBegins, QuarantineReady, Goto, AbsentInv, References, ScopedToRun
  <1>3. CASE QuarantineResumes
    BY <1>1, <1>3, KeepsAbsentInv DEF QuarantineResumes, Goto, KeepsAbsent, AbsentInv
  <1> QED BY <1>2, <1>3

LEMMA RunAbsent == ASSUME AbsentInv, RunNext PROVE AbsentInv'
  <1>1. CASE Quarantine
    BY <1>1, QuarantineAbsent DEF Quarantine
  <1>2. CASE RenameRun
    <2>1. UNCHANGED <<refs, released, cache>> /\ step = "rename" /\ step' = "receipt"
      BY <1>2 DEF RenameRun, Goto, stores, answers
    <2> QED BY <2>1 DEF AbsentInv, References, ScopedToRun
  <1>3. CASE \/ QuarantineReceipt \/ PurgeReferences \/ RemoveDirectory \/ ReferencesPurged
             \/ Purge \/ RemoveRun \/ RunPurged
    <2>1. UNCHANGED <<refs, released, cache>>
      BY <1>3 DEF QuarantineReceipt, PurgeReferences, ReferencePurgeBegins, RemoveDirectory,
             ReferencesPurged, Purge, RemoveRun, RunPurged, promotionVars, stores, answers
    <2>2. run' = run \/ (run # "runs" /\ run' # "runs")
      BY <1>3 DEF QuarantineReceipt, PurgeReferences, ReferencePurgeBegins, RemoveDirectory,
             ReferencesPurged, Purge, RemoveRun, RunPurged
    <2>3. step' = step \/ step' \notin {"merge", "report", "manifest", "migrate", "rename"}
      BY <1>3 DEF QuarantineReceipt, PurgeReferences, ReferencePurgeBegins, RemoveDirectory,
             ReferencesPurged, Purge, RemoveRun, RunPurged, promotionVars, Return, Goto
    <2> QED BY <2>1, <2>2, <2>3, KeepsAbsentInv DEF KeepsAbsent, AbsentInv
  <1> QED BY <1>1, <1>2, <1>3 DEF RunNext

LEMMA CoordinatorAbsent ==
    ASSUME AbsentInv, CoordinatorNext \/ Tick
    PROVE  AbsentInv'
  <1>1. CASE QuarantineStage
    BY <1>1, QuarantineAbsent DEF QuarantineStage
  <1>2. CASE \/ Dispose \/ CacheStage \/ CacheStageFails \/ ReleaseStage \/ ReleaseStageFails
             \/ QuarantineStageFails \/ Disposed \/ PurgeDisposition \/ PurgeStageFails \/ Tick
    <2>1. UNCHANGED <<refs, released, cache, run>>
      BY <1>2 DEF Dispose, CacheStage, CachePurgeBegins, CacheStageFails, ReleaseStage,
             RetirementBegins, ReleaseStageFails, QuarantineStageFails, Disposed,
             PurgeDisposition, ReferencePurgeBegins, PurgeStageFails, Tick, Raise,
             promotionVars, stores, answers
    <2>2. step' = step \/ step' \notin {"merge", "report", "manifest", "migrate", "rename"}
      BY <1>2 DEF Dispose, CacheStage, CachePurgeBegins, CacheStageFails, ReleaseStage,
             RetirementBegins, ReleaseStageFails, QuarantineStageFails, Disposed,
             PurgeDisposition, ReferencePurgeBegins, PurgeStageFails, Tick, Raise, Goto,
             promotionVars
    <2> QED BY <2>1, <2>2, KeepsAbsentInv DEF KeepsAbsent, AbsentInv
  <1> QED BY <1>1, <1>2 DEF CoordinatorNext

LEMMA AbsentNextInv == JournalInv /\ AbsentInv /\ [RetentionNext]_retentionVars => AbsentInv'
  <1> SUFFICES ASSUME JournalInv, AbsentInv, [RetentionNext]_retentionVars PROVE AbsentInv'
    OBVIOUS
  <1>1. CASE Interrupted
    <2>1. UNCHANGED <<refs, released, cache>> /\ step' = "idle"
      BY <1>1 DEF Interrupted, Die, Goto, stores, answers
    <2>2. run' = run \/ (run # "runs" /\ run' # "runs")
      BY <1>1 DEF Interrupted
    <2> QED BY <2>1, <2>2, KeepsAbsentInv DEF KeepsAbsent, AbsentInv
  <1>2. CASE UNCHANGED retentionVars
    BY <1>2, KeepsAbsentInv
    DEF retentionVars, promotionVars, stores, KeepsAbsent, AbsentInv
  <1> QED BY <1>1, <1>2, ReleaseAbsent, CacheAbsent, RetireAbsent, RunAbsent, CoordinatorAbsent
          DEF RetentionNext

\* A run that left runs/ has no reference and no answer of its own in the
\* cache, and none comes back, whichever commands died on the way (_plan_run).
THEOREM QuarantineIsLast == RetentionSpec => []QuarantinedIsUnreferenced
  <1>1. AbsentInv => QuarantinedIsUnreferenced
    BY DEF AbsentInv, QuarantinedIsUnreferenced
  <1> QED BY <1>1, AbsentInitInv, AbsentNextInv, JournalInvariant, PTL DEF RetentionSpec

\* No step takes an answer from the other runs that hold it: a purge removes
\* this run's scope, a migration and an extraction the legacy mark.
LEMMA OtherScopeStays ==
    ASSUME AbsentInv, [RetentionNext]_retentionVars,
           NEW k \in Keys, "other" \in cache[k]
    PROVE  "other" \in cache'[k]
  <1>1. CASE cache' = cache
    BY <1>1
  <1>2. ASSUME NEW j \in Keys, NEW drop \in {"run", "legacy"}, NEW scopes \in SUBSET Scopes,
               cache' = [cache EXCEPT ![j] = (cache[j] \ {drop}) \cup scopes]
        PROVE  "other" \in cache'[k]
    BY <1>2 DEF AbsentInv
  <1>3. CASE \E j \in Keys, r \in {"run", "other"} : CacheAnswer(j, r)
    <2>1. PICK j \in Keys, r \in {"run", "other"} :
              cache' = [cache EXCEPT ![j] = (cache[j] \ {"legacy"}) \cup {r}]
      BY <1>3 DEF CacheAnswer
    <2> QED BY <1>2, <2>1 DEF Scopes
  <1>4. CASE BindEntry
    <2>1. cache' = cache \/ \E j \in Keys :
              cache' = [cache EXCEPT ![j] = (cache[j] \ {"legacy"}) \cup {"run"}]
      BY <1>4 DEF BindEntry, AbsentInv
    <2> QED BY <1>1, <1>2, <2>1 DEF Scopes
  <1>5. CASE UnscopeEntry
    <2>1. PICK j \in Keys : cache' = [cache EXCEPT ![j] = cache[j] \ {"run"}]
      BY <1>5 DEF UnscopeEntry, ScopedToRun
    <2> QED BY <2>1 DEF AbsentInv
  <1>6. CASE ReleaseNext \/ RunNext \/ Interrupted \/ UNCHANGED retentionVars
    BY <1>1, <1>6 DEF ReleaseNext, RunNext, Quarantine, QuarantineBegins, QuarantineResumes,
       RenameRun, QuarantineReceipt, PurgeReferences, ReferencePurgeBegins, RemoveDirectory,
       ReferencesPurged, Purge, RemoveRun, RunPurged, Interrupted, retentionVars, answers
  <1>7. CASE DecommissionRelease \/ RetireStep
    BY <1>1, <1>7 DEF DecommissionRelease, RetirementBegins, RetireStep, EnsureFallback,
       FallbackReached, DeleteCollection, DeleteRefused, CollectionsDeleted, MoveDirectory,
       DirectoriesMoved, ForgetStaged, FinalizeRefused, ForgetPrevious, RetirementDone, Raise,
       answers
  <1>8. CASE CoordinatorNext \/ Tick
    BY <1>1, <1>8 DEF CoordinatorNext, Dispose, CacheStage, CachePurgeBegins, CacheStageFails,
       ReleaseStage, RetirementBegins, ReleaseStageFails, QuarantineStage, QuarantineBegins,
       QuarantineResumes, QuarantineStageFails, Disposed, PurgeDisposition, ReferencePurgeBegins,
       PurgeStageFails, Tick, Raise, answers
  <1>9. CASE \/ MigrateCacheScope \/ MigrationDone \/ MigrationFails \/ PurgeCacheScope
             \/ CachePurged \/ CachePurgeFails
    BY <1>1, <1>9 DEF MigrateCacheScope, MigrationDone, MigrationFails, PurgeCacheScope,
       CachePurgeBegins, CachePurged, CachePurgeFails, Raise, answers
  <1> QED BY <1>3, <1>4, <1>5, <1>6, <1>7, <1>8, <1>9 DEF RetentionNext, CacheNext

\* An answer another run still holds is never taken from it (purge_cache_scope).
THEOREM AnswersStayShared == RetentionSpec => SharedAnswersKept
  <1>1. AbsentInv /\ [RetentionNext]_retentionVars
            => [\A k \in Keys : "other" \in cache[k] => "other" \in cache'[k]]_retentionVars
    BY OtherScopeStays
  <1> QED BY <1>1, AbsentInitInv, AbsentNextInv, JournalInvariant, JournalInitInv, JournalNextInv,
             PTL DEF RetentionSpec, SharedAnswersKept
===============================================================================
