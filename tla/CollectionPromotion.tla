------------------------- MODULE CollectionPromotion -------------------------
(***************************************************************************)
(* Building a writing-material release and promoting it: a candidate       *)
(* collection is cloned from the active one and merged with the accepted   *)
(* assets (writing_rag/release.py), staged, and served by moving a stable  *)
(* Qdrant alias under a journal (governance/snapshots.py).  A command is a *)
(* sequence of durable writes; `step` is the one it does next, and the     *)
(* process may die before any of them.  One command runs at a time.        *)
(***************************************************************************)
EXTENDS Naturals, FiniteSets

CONSTANTS
    Collections,  \* physical collection names
    Base,         \* the configured collection, served before any promotion
    Candidates,   \* the names release builds may use
    NoColl        \* an absent name, and an absent file

ASSUME PromotionConstants ==
    /\ Base \in Collections
    /\ Candidates \subseteq Collections \ {Base}
    /\ NoColl \notin Collections

VARIABLES
    coll,      \* the collections Qdrant holds
    merged,    \* those that hold points of the accepted snapshot
    refs,      \* candidate reports on disk, by collection
    released,  \* validated release manifests on disk, by collection
    alias,     \* the target of the stable alias
    staged,    \* staged.json
    current,   \* current.json; absent while its active collection is NoColl
    txn,       \* transaction.json
    work,      \* the collection the running build works on
    step,      \* the running command's next write
    then       \* the step that follows the journal's commit

stores == <<coll, merged, refs, released>>
journal == <<alias, staged, current, txn>>
promotionVars == <<coll, merged, refs, released, alias, staged, current, txn,
                   work, step, then>>

Names == Collections \cup {NoColl}

\* current.json: the collections, their data directories and their manifests
\* (a directory or a manifest is named by the collection it belongs to).
CurrentFile == [active : Names, prev : Names, dir : Names, pdir : Names,
                rel : Names, prel : Names]

\* transaction.json.
JournalFile == [status : {"none", "prepared", "alias_switched", "committed",
                          "aborted"},
                op : {"promote", "rollback"}, cand : Names, prev : Names,
                cdir : Names, pdir : Names, crel : Names]

NoCurrent == [active |-> NoColl, prev |-> NoColl, dir |-> NoColl,
              pdir |-> NoColl, rel |-> NoColl, prel |-> NoColl]

NoTxn == [status |-> "none", op |-> "promote", cand |-> NoColl,
          prev |-> NoColl, cdir |-> NoColl, pdir |-> NoColl, crel |-> NoColl]

\* A journal that is neither committed nor aborted refuses every command but
\* its recovery.
Pending == txn.status \in {"prepared", "alias_switched"}

Idle == step = "idle"

Goto(s) == step' = s

\* What a reader of the knowledge base is served.
Served == IF alias = NoColl THEN Base ELSE alias

-----------------------------------------------------------------------------
(* Release build: clone, merge, report, manifest.                          *)

\* The collection of the promotion record, or the configured one; while a
\* journal is pending the alias may be elsewhere.
Recorded == IF current.active # NoColl THEN current.active ELSE Base

\* The recorded collection is cloned through a snapshot.
Clone(c) ==
    /\ coll' = coll \cup {c}
    /\ merged' = IF Recorded \in merged THEN merged \cup {c} ELSE merged

\* The candidate must be new.
StartBuild(c) ==
    /\ Idle
    /\ c \in Candidates \ coll
    /\ Recorded \in coll
    /\ Clone(c)
    /\ work' = c
    /\ Goto("merge")
    /\ UNCHANGED <<refs, released, journal, then>>

\* The accepted assets are indexed into the clone.
Merge ==
    /\ step = "merge"
    /\ merged' = merged \cup {work}
    /\ Goto("report")
    /\ UNCHANGED <<coll, refs, released, journal, work, then>>

\* The report that names the run and the collection follows the points.
WriteReport ==
    /\ step = "report"
    /\ refs' = refs \cup {work}
    /\ Goto("manifest")
    /\ UNCHANGED <<coll, merged, released, journal, work, then>>

\* The clone has grown by the accepted assets: not if it already held them,
\* because points of the same assets are replaced.
CountsAgree == Recorded \notin merged

\* The validated manifest is written; a build that raises here leaves its
\* collection and its report behind.
WriteManifest ==
    /\ step = "manifest"
    /\ released' = IF CountsAgree THEN released \cup {work} ELSE released
    /\ work' = NoColl
    /\ Goto("idle")
    /\ UNCHANGED <<coll, merged, refs, journal, then>>

-----------------------------------------------------------------------------
(* Stage, promote, roll back.                                              *)

\* The manifest of a collection is validated and eligible.
Verified(c) == c \in released

Stage(c) ==
    /\ Idle /\ ~Pending
    /\ c \in coll /\ Verified(c)
    /\ staged' = c
    /\ UNCHANGED <<stores, alias, current, txn, work, step, then>>

\* The collection an alias switch replaces.
Replaced ==
    IF alias # NoColl THEN alias ELSE Recorded

\* The directory and the manifest of a collection; the base has neither.
OwnFiles(c) == IF c = Base THEN NoColl ELSE c

Promote ==
    /\ Idle /\ ~Pending
    /\ staged \in coll
    /\ txn' = [status |-> "prepared", op |-> "promote", cand |-> staged,
               prev |-> Replaced, cdir |-> OwnFiles(staged),
               pdir |-> current.dir, crel |-> OwnFiles(staged)]
    /\ Goto("switch")
    /\ UNCHANGED <<stores, alias, staged, current, work, then>>

\* `next` is the step after the commit: a retirement goes on from there.
RollbackThen(next) ==
    /\ ~Pending
    /\ current.prev \in coll
    /\ txn' = [status |-> "prepared", op |-> "rollback",
               cand |-> current.prev, prev |-> current.active,
               cdir |-> current.pdir, pdir |-> current.dir,
               crel |-> current.prel]
    /\ Goto("switch")
    /\ then' = next
    /\ UNCHANGED <<stores, alias, staged, current, work>>

Rollback == Idle /\ RollbackThen("idle")

\* One Qdrant request deletes and creates the alias; it may be refused.
Switch ==
    /\ step = "switch"
    /\ alias' = txn.cand
    /\ Goto("mark")
    /\ UNCHANGED <<stores, staged, current, txn, work, then>>

SwitchFails ==
    /\ step = "switch"
    /\ Goto("idle")
    /\ then' = "idle"
    /\ UNCHANGED <<stores, journal, work>>

MarkSwitched ==
    /\ step = "mark"
    /\ txn' = [txn EXCEPT !.status = "alias_switched"]
    /\ Goto("current")
    /\ UNCHANGED <<stores, alias, staged, current, work, then>>

\* Mutant of WriteCurrent: the journal is committed without current.json.
CommitUnwritten ==
    /\ step = "current"
    /\ Goto("commit")
    /\ UNCHANGED <<stores, journal, work, then>>

WriteCurrent ==
    /\ step = "current"
    /\ current' = [active |-> txn.cand, prev |-> txn.prev, dir |-> txn.cdir,
                   pdir |-> txn.pdir, rel |-> txn.crel, prel |-> current.rel]
    /\ Goto("commit")
    /\ UNCHANGED <<stores, alias, staged, txn, work, then>>

Commit ==
    /\ step = "commit"
    /\ txn' = [txn EXCEPT !.status = "committed"]
    /\ Goto(then)
    /\ then' = "idle"
    /\ UNCHANGED <<stores, alias, staged, current, work>>

\* recover-promotion after an interrupted switch.  A switch that happened is
\* carried through: current.json is rebuilt from the journal, which does not
\* hold the previous manifest.
RecoverSwitched ==
    /\ Idle /\ Pending
    /\ alias = txn.cand
    /\ current' = [active |-> txn.cand, prev |-> txn.prev, dir |-> txn.cdir,
                   pdir |-> txn.pdir, rel |-> txn.crel, prel |-> NoColl]
    /\ Goto("commit")
    /\ UNCHANGED <<stores, alias, staged, txn, work, then>>

\* Mutant of RecoverUnswitched: recovery aborts without asking Qdrant.
RecoverAlways ==
    /\ Idle /\ Pending
    /\ txn' = [txn EXCEPT !.status = "aborted"]
    /\ UNCHANGED <<stores, alias, staged, current, work, step, then>>

\* A switch that did not happen is given up.
RecoverUnswitched ==
    /\ Idle /\ Pending
    /\ alias \notin {txn.cand}
    /\ alias \in {txn.prev, NoColl}
    /\ txn' = [txn EXCEPT !.status = "aborted"]
    /\ UNCHANGED <<stores, alias, staged, current, work, step, then>>

\* The process dies before its next write.
Die ==
    /\ ~Idle
    /\ Goto("idle")
    /\ then' = "idle"
    /\ work' = NoColl
    /\ UNCHANGED <<stores, journal>>

-----------------------------------------------------------------------------
PromotionInit ==
    /\ coll = Collections \ Candidates
    /\ merged = {}
    /\ refs = {}
    /\ released = Collections \ (Candidates \cup {Base})
    /\ alias = NoColl
    /\ staged = NoColl
    /\ current = NoCurrent
    /\ txn = NoTxn
    /\ work = NoColl
    /\ step = "idle"
    /\ then = "idle"

BuildNext ==
    \/ \E c \in Candidates : StartBuild(c)
    \/ Merge
    \/ WriteReport
    \/ WriteManifest

AliasNext ==
    \/ \E c \in Collections : Stage(c)
    \/ Promote
    \/ Rollback
    \/ Switch
    \/ SwitchFails
    \/ MarkSwitched
    \/ WriteCurrent
    \/ Commit
    \/ RecoverSwitched
    \/ RecoverUnswitched

PromotionNext == BuildNext \/ AliasNext \/ Die

PromotionSpec == PromotionInit /\ [][PromotionNext]_promotionVars

-----------------------------------------------------------------------------
(* Properties.                                                             *)

\* With no journal pending, current.json names the collection the alias
\* serves, with that collection's data directory, and a manifest that is its
\* own or, after a recovery lost it, absent: a reader never pairs the alias
\* with another release's files (active_release_data_dir and
\* active_release_normalized_root).  The rollback target keeps the directory it
\* was served with.
AliasHasItsFiles ==
    ~Pending => /\ current.active = alias
                /\ current.dir = OwnFiles(Served)
                /\ current.rel \in {OwnFiles(Served), NoColl}
                /\ current.prev # NoColl => current.pdir = OwnFiles(current.prev)

-----------------------------------------------------------------------------
(* The journalled switch implements the one-step register.                 *)

\* The fallback changes in the step that moves the alias, while current.json
\* still has to follow.
FallbackNow == IF Pending /\ alias = txn.cand THEN txn.prev ELSE current.prev

Register == INSTANCE AliasRegister
              WITH served <- Served, fallback <- FallbackNow

\* Through crashes and recoveries, the alias and the rollback target move
\* together in one step, as a reader of promote and rollback expects.
SwitchIsAtomic == Register!RegisterSpec
=============================================================================
