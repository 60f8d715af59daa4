------------------------ MODULE ZoteroPublicationProofs ------------------------
(***************************************************************************)
(* Theorems of ZoteroPublication: whatever crashes or raises, no committed *)
(* content is lost, and the files are those of the committed runs whenever *)
(* no publication is open; for any number of files, syncs and faults.      *)
(***************************************************************************)
EXTENDS ZoteroPublication, SequenceTheorems, TLAPS

Statuses == {"none", "prepared", "published"}
PCs == {"down", "recover", "closing", "starting", "fetched", "prepared", "publish",
        "commit", "handler", "fail", "rollback", "cleanup"}
Running == {"fetched", "prepared", "publish", "commit", "handler", "fail"}
InSession == {"rollback", "cleanup"}

Typed ==
  /\ active \in 0 .. MaxSyncs /\ version \in Nat
  /\ runs \in [Syncs -> {"none", "running", "failed", "success"}]
  /\ target \in [Slots -> 0 .. MaxSyncs] /\ truth \in [Slots -> 0 .. MaxSyncs]
  /\ backup \in [Syncs -> [Files -> 0 .. MaxSyncs]]
  /\ staged \in [Syncs -> SUBSET Files]
  /\ intent \in [Syncs -> [status : Statuses, entries : SUBSET Files,
                           had : SUBSET Files, version : Nat]]
  /\ pc \in PCs /\ ret \in {"down", "recover", "fail"}
  /\ cur \in 0 .. MaxSyncs /\ (pc \in Running => cur \in Syncs)
  /\ ses \in 0 .. MaxSyncs /\ (pc \in InSession => ses \in Syncs)
  /\ pc \in InSession /\ ret = "fail" => cur = ses
  /\ todo \subseteq Files /\ published \in BOOLEAN /\ undone \in BOOLEAN

---------------------------------------------------------------------------
(* What an open publication has done to its entries.                       *)

Was(s, f) == truth[Slot(f, s)]
At(s, f) == target[Slot(f, s)]

\* An entry not touched, or restored.
Kept(s, f) == At(s, f) = Was(s, f) /\ backup[s][f] = 0

\* An entry whose old file is at its backup name.
Aside(s, f) == At(s, f) = 0 /\ backup[s][f] = Was(s, f) /\ Was(s, f) # 0

\* An entry whose staged file is at its name.
Replaced(s, f) == At(s, f) = s /\ backup[s][f] = Was(s, f) /\ f \notin staged[s]

HadWhatWas(s) == intent[s].had = {f \in intent[s].entries : Was(s, f) # 0}

Undecided(s) ==
  /\ HadWhatWas(s)
  /\ \A f \in intent[s].entries : Kept(s, f) \/ Aside(s, f) \/ Replaced(s, f)

Decided(s) ==
  /\ version = intent[s].version
  /\ \A f \in intent[s].entries : At(s, f) = s /\ Was(s, f) = s

Entry(s, f) == Open(s) /\ f \in intent[s].entries

OneOpen == \A r, s \in Syncs : Open(r) /\ Open(s) => r = s

\* Files that no open publication names are as the committed runs left them.
Undisturbed ==
  /\ \A f \in Files, k \in 0 .. MaxSyncs :
       (\A s \in Syncs : Entry(s, f) => Slot(f, s) # <<f, k>>) => target[<<f, k>>] = truth[<<f, k>>]
  /\ \A s \in Syncs, f \in Files : ~Entry(s, f) => backup[s][f] = 0

FilesInv ==
  /\ OneOpen /\ Undisturbed
  /\ \A s \in Syncs : Open(s) => IF active = s THEN Decided(s) ELSE Undecided(s)

\* What the position of the run adds.
RunInv ==
  /\ pc \in {"closing", "starting", "fetched", "prepared"} => \A s \in Syncs : ~Open(s)
  /\ pc \in {"fetched", "prepared", "publish", "commit", "fail"} => active # cur
  /\ pc = "prepared" => HadWhatWas(cur)
  /\ pc \in {"publish", "commit", "handler"} => Open(cur)
  /\ pc = "publish" => /\ todo \subseteq intent[cur].entries
                       /\ \A f \in todo : Kept(cur, f) \/ Aside(cur, f)
                       /\ \A f \in intent[cur].entries \ todo : Replaced(cur, f)
  /\ pc = "commit" => \A f \in intent[cur].entries : Replaced(cur, f)
  /\ pc \in InSession => Open(ses) /\ todo \subseteq intent[ses].entries
  /\ pc = "rollback" => /\ active # ses
                        /\ \A f \in intent[ses].entries \ todo : Kept(ses, f)
  /\ pc = "cleanup" => /\ active = ses /\ ret # "fail"
                       /\ \A f \in intent[ses].entries \ todo : backup[ses][f] = 0
  /\ active # 0 => runs[active] = "success"

PubInv == Typed /\ (~undone => FilesInv /\ RunInv)

---------------------------------------------------------------------------
LEMMA SlotFacts ==
  ASSUME NEW f \in Files, NEW g \in Files, NEW r \in 0 .. MaxSyncs, NEW s \in 0 .. MaxSyncs
  PROVE  /\ Slot(f, s) \in Slots
         /\ Slot(f, s) = Slot(g, r) => f = g
         /\ \E k \in 0 .. MaxSyncs : Slot(f, s) = <<f, k>>
  BY ConstantsAssumption DEF Slot, Slots

LEMMA SyncsAre ==
  /\ Syncs \subseteq 0 .. MaxSyncs /\ 0 \notin Syncs /\ Syncs \subseteq Nat
  /\ 0 \in 0 .. MaxSyncs
  BY ConstantsAssumption DEF Syncs

LEMMA InitTyped == Init => Typed
<1> SUFFICES ASSUME Init PROVE Typed
  OBVIOUS
<1>1. /\ backup \in [Syncs -> [Files -> 0 .. MaxSyncs]]
      /\ target \in [Slots -> 0 .. MaxSyncs] /\ truth \in [Slots -> 0 .. MaxSyncs]
  BY SyncsAre DEF Init
<1>2. intent \in [Syncs -> [status : Statuses, entries : SUBSET Files,
                           had : SUBSET Files, version : Nat]]
  BY DEF Init, NoIntent, Statuses
<1> QED BY <1>1, <1>2, SyncsAre DEF Init, Typed, PCs, Running, InSession

LEMMA BackupTyped ==
  ASSUME backup \in [Syncs -> [Files -> 0 .. MaxSyncs]],
         NEW s \in Syncs, NEW f \in Files, NEW k \in 0 .. MaxSyncs
  PROVE  [backup EXCEPT ![s][f] = k] \in [Syncs -> [Files -> 0 .. MaxSyncs]]
<1>1. [backup[s] EXCEPT ![f] = k] \in [Files -> 0 .. MaxSyncs]
  OBVIOUS
<1>2. [backup EXCEPT ![s] = [backup[s] EXCEPT ![f] = k]] \in [Syncs -> [Files -> 0 .. MaxSyncs]]
  BY <1>1
<1> QED BY <1>2

LEMMA InitPub == Init => FilesInv /\ RunInv
  BY ConstantsAssumption, SyncsAre DEF Init, FilesInv, RunInv, OneOpen, Undisturbed, Open, Entry, NoIntent,
     InSession, Syncs, Slots

\* A session is opened on a publication.
LEMMA SessionTyped ==
  ASSUME Typed, NEW s \in Syncs, NEW p \in InSession \cup {"publish"},
         NEW r \in {"down", "recover", "fail"}, Session(p, s, r), r = "fail" => cur' = s,
         p = "publish" => cur' \in Syncs,
         cur' \in 0 .. MaxSyncs
  PROVE  /\ pc' \in PCs /\ ret' \in {"down", "recover", "fail"}
         /\ pc' \in Running => cur' \in Syncs
         /\ ses' \in 0 .. MaxSyncs /\ (pc' \in InSession => ses' \in Syncs)
         /\ pc' \in InSession /\ ret' = "fail" => cur' = ses'
         /\ todo' \subseteq Files
  BY SyncsAre DEF Session, Typed, PCs, Running, InSession

LEMMA TypedNext == Typed /\ [Next]_vars => Typed'
<1> SUFFICES ASSUME Typed, [Next]_vars PROVE Typed'
  OBVIOUS
<1> USE SyncsAre
<1>1. CASE Start
  BY <1>1 DEF Start, Typed, db, disk, hist, PCs, Running, InSession
<1>2. CASE RecoverIntent
  <2>1. PICK s \in Syncs : /\ Open(s)
                          /\ Session(IF Committed(s) THEN "cleanup" ELSE "rollback", s, "recover")
                          /\ published' = (intent[s].status = "published")
    BY <1>2 DEF RecoverIntent
  <2>2. cur' = cur
    BY <1>2 DEF RecoverIntent
  <2> QED
    BY <1>2, <2>1, <2>2, SessionTyped DEF RecoverIntent, Typed, db, disk, hist, InSession
<1>3. CASE RemoveOrphans
  BY <1>3 DEF RemoveOrphans, Typed, db, hist, PCs, Running, InSession
<1>4. CASE FailIncompleteRuns
  BY <1>4 DEF FailIncompleteRuns, Typed, disk, hist, PCs, Running, InSession
<1>5. ASSUME NEW s \in Syncs, StartRun(s) PROVE Typed'
  BY <1>5 DEF StartRun, Typed, disk, hist, PCs, Running, InSession
<1>6. ASSUME NEW E \in SUBSET Files, NEW v \in {version, version + 1}, Prepare(E, v) PROVE Typed'
  <2>1. cur \in Syncs /\ v \in Nat
    BY <1>6 DEF Prepare, Typed, Running
  <2>2. [status |-> "none", entries |-> E, version |-> v,
         had |-> {f \in E : target[Slot(f, cur)] # 0}]
          \in [status : Statuses, entries : SUBSET Files, had : SUBSET Files, version : Nat]
    BY <2>1 DEF Statuses
  <2>3. intent' \in [Syncs -> [status : Statuses, entries : SUBSET Files,
                               had : SUBSET Files, version : Nat]]
    BY <1>6, <2>1, <2>2 DEF Prepare, Typed
  <2>4. staged' \in [Syncs -> SUBSET Files]
    BY <1>6 DEF Prepare, Typed
  <2> QED BY <1>6, <2>1, <2>3, <2>4 DEF Prepare, Typed, db, hist, PCs, Running, InSession
<1>7. CASE WriteIntent
  <2>1. cur \in Syncs /\ cur' = cur
    BY <1>7 DEF WriteIntent, Typed, Running
  <2>2. intent' \in [Syncs -> [status : Statuses, entries : SUBSET Files,
                               had : SUBSET Files, version : Nat]]
    BY <1>7, <2>1 DEF WriteIntent, Typed, Statuses
  <2>3. Session("publish", cur, "fail")
    BY <1>7 DEF WriteIntent
  <2> QED BY <1>7, <2>1, <2>2, <2>3, SessionTyped DEF WriteIntent, Typed, db, hist, InSession
<1>8. CASE RecordFailed
  BY <1>8 DEF RecordFailed, Typed, disk, hist, PCs, Running, InSession
<1>9. ASSUME NEW f \in Files, MoveToBackup(f) PROVE Typed'
  <2>1. cur \in Syncs /\ cur \in 0 .. MaxSyncs /\ target[Slot(f, cur)] \in 0 .. MaxSyncs
    BY <1>9, SlotFacts DEF MoveToBackup, Typed, Running
  <2>2. backup' \in [Syncs -> [Files -> 0 .. MaxSyncs]] /\ target' \in [Slots -> 0 .. MaxSyncs]
    BY <1>9, <2>1, BackupTyped DEF MoveToBackup, Typed
  <2> QED BY <1>9, <2>2 DEF MoveToBackup, Typed, db, hist, run
<1>10. ASSUME NEW f \in Files, MoveToTarget(f) PROVE Typed'
  <2>1. cur \in Syncs /\ cur \in 0 .. MaxSyncs
    BY <1>10 DEF MoveToTarget, Typed, Running
  <2>2. staged' \in [Syncs -> SUBSET Files] /\ target' \in [Slots -> 0 .. MaxSyncs]
    BY <1>10, <2>1 DEF MoveToTarget, Typed
  <2> QED BY <1>10, <2>2 DEF MoveToTarget, Typed, db, hist
<1>11. ASSUME NEW f \in Files, RemoveTarget(f) PROVE Typed'
  <2>1. target' \in [Slots -> 0 .. MaxSyncs]
    BY <1>11 DEF RemoveTarget, Typed
  <2>2. todo' \subseteq Files
    BY <1>11 DEF RemoveTarget, Typed
  <2> QED BY <1>11, <2>1, <2>2 DEF RemoveTarget, Typed, db, hist
<1>12. ASSUME NEW f \in Files, RestoreBackup(f) PROVE Typed'
  <2>1. ses \in Syncs /\ backup[ses][f] \in 0 .. MaxSyncs
    BY <1>12 DEF RestoreBackup, Typed, InSession
  <2>2. backup' \in [Syncs -> [Files -> 0 .. MaxSyncs]] /\ target' \in [Slots -> 0 .. MaxSyncs]
    BY <1>12, <2>1, BackupTyped DEF RestoreBackup, Typed
  <2> QED BY <1>12, <2>2 DEF RestoreBackup, Typed, db, hist
<1>13. ASSUME NEW f \in Files, KeepTarget(f) PROVE Typed'
  BY <1>13 DEF KeepTarget, Typed, db, disk, hist
<1>14. ASSUME NEW f \in Files, RemoveBackup(f) PROVE Typed'
  <2>1. ses \in Syncs
    BY <1>14 DEF RemoveBackup, Typed, InSession
  <2>2. backup' \in [Syncs -> [Files -> 0 .. MaxSyncs]]
    BY <1>14, <2>1, BackupTyped DEF RemoveBackup, Typed
  <2> QED BY <1>14, <2>2 DEF RemoveBackup, Typed, db, hist
<1>15. CASE MarkPublished
  <2>1. cur \in Syncs
    BY <1>15 DEF MarkPublished, Typed, Running
  <2>2. intent' \in [Syncs -> [status : Statuses, entries : SUBSET Files,
                               had : SUBSET Files, version : Nat]]
    BY <1>15, <2>1 DEF MarkPublished, Typed, Statuses
  <2> QED BY <1>15, <2>1, <2>2 DEF MarkPublished, Typed, db, hist, PCs, Running, InSession
<1>16. ASSUME CommitRows, cur \in Syncs, Typed
       PROVE  /\ active' \in 0 .. MaxSyncs /\ version' \in Nat
              /\ runs' \in [Syncs -> {"none", "running", "failed", "success"}]
              /\ truth' \in [Slots -> 0 .. MaxSyncs]
  BY <1>16 DEF CommitRows, Typed
<1>17. CASE CommitTransaction
  <2>1. cur \in Syncs /\ cur' = cur /\ CommitRows /\ Session("cleanup", cur, "down")
    BY <1>17 DEF CommitTransaction, Typed, Running
  <2> QED BY <1>17, <2>1, <1>16, SessionTyped DEF CommitTransaction, Typed, disk, InSession
<1>18. CASE CommitRaisesLate
  <2>1. cur \in Syncs /\ CommitRows
    BY <1>18 DEF CommitRaisesLate, Typed, Running
  <2> QED BY <1>18, <2>1, <1>16 DEF CommitRaisesLate, Typed, disk, PCs, Running, InSession
<1>19. CASE HandleError
  <2>1. cur \in Syncs /\ cur' = cur
    BY <1>19 DEF HandleError, Typed, Running
  <2>2. Session("cleanup", cur, "down") \/ Session("rollback", cur, "fail")
    BY <1>19 DEF HandleError
  <2> QED BY <1>19, <2>1, <2>2, SessionTyped DEF HandleError, Typed, db, disk, hist, InSession
<1>20. CASE RemoveStaging
  BY <1>20 DEF RemoveStaging, Typed, db, hist, run
<1>21. CASE UnlinkIntent
  <2>1. intent' \in [Syncs -> [status : Statuses, entries : SUBSET Files,
                               had : SUBSET Files, version : Nat]]
    BY <1>21 DEF UnlinkIntent, Typed, Statuses, NoIntent
  <2>2. ses \in Syncs /\ (ret = "fail" => cur = ses)
    BY <1>21 DEF UnlinkIntent, Typed, InSession
  <2> QED BY <1>21, <2>1, <2>2 DEF UnlinkIntent, Typed, db, hist, PCs, Running, InSession
<1>22. CASE PrepareFails
  <2>1. intent' \in [Syncs -> [status : Statuses, entries : SUBSET Files,
                               had : SUBSET Files, version : Nat]]
    BY <1>22 DEF PrepareFails, Typed, Statuses, NoIntent
  <2>2. staged' \in [Syncs -> SUBSET Files] /\ cur \in Syncs
    BY <1>22 DEF PrepareFails, Typed, Running
  <2> QED BY <1>22, <2>1, <2>2 DEF PrepareFails, Typed, db, hist, PCs, Running, InSession
<1>23. CASE IntentWriteRaisesLate
  <2>1. cur \in Syncs
    BY <1>23 DEF IntentWriteRaisesLate, Typed, Running
  <2>2. intent' \in [Syncs -> [status : Statuses, entries : SUBSET Files,
                               had : SUBSET Files, version : Nat]]
    BY <1>23, <2>1 DEF IntentWriteRaisesLate, Typed, Statuses
  <2>3. staged' \in [Syncs -> SUBSET Files]
    BY <1>23 DEF IntentWriteRaisesLate, Typed
  <2> QED BY <1>23, <2>1, <2>2, <2>3 DEF IntentWriteRaisesLate, Typed, db, hist, PCs, Running, InSession
<1>24. CASE FailureNotRecorded
  BY <1>24 DEF FailureNotRecorded, Typed, db, disk, hist, PCs, Running, InSession
<1>25. CASE TransactionFails
  BY <1>25 DEF TransactionFails, Typed, db, disk, hist, PCs, Running, InSession
<1>26. CASE HandleErrorBlind
  <2>1. cur \in Syncs /\ cur' = cur /\ Session("rollback", cur, "fail")
    BY <1>26 DEF HandleErrorBlind, Typed, Running
  <2> QED BY <1>26, <2>1, SessionTyped DEF HandleErrorBlind, Typed, db, disk, InSession
<1>27. CASE SessionFails
  BY <1>27 DEF SessionFails, Typed, db, disk, hist, PCs, Running, InSession
<1>28. CASE Crash
  <2>1. intent' \in [Syncs -> [status : Statuses, entries : SUBSET Files,
                               had : SUBSET Files, version : Nat]]
    BY <1>28 DEF Crash, Typed, Statuses, NoIntent
  <2> QED BY <1>28, <2>1 DEF Crash, Typed, db, hist, PCs, Running, InSession
<1>29. CASE UNCHANGED vars
  BY <1>29 DEF vars, db, disk, run, hist, Typed
<1> QED
  BY <1>1, <1>2, <1>3, <1>4, <1>5, <1>6, <1>7, <1>8, <1>9, <1>10, <1>11, <1>12, <1>13, <1>14,
     <1>15, <1>17, <1>18, <1>19, <1>20, <1>21, <1>22, <1>23, <1>24, <1>25, <1>26, <1>27, <1>28,
     <1>29 DEF Next, Step

---------------------------------------------------------------------------
(* How the steps treat the files.                                          *)

\* Files and database stay, and so does what is open; a staging directory
\* that an open publication needs only shrinks.
LEMMA FilesStay ==
  ASSUME FilesInv, UNCHANGED <<active, version, target, backup, truth>>,
         \A s \in Syncs : /\ Open(s)' = Open(s)
                          /\ Open(s) => /\ intent'[s].entries = intent[s].entries
                                        /\ intent'[s].had = intent[s].had
                                        /\ intent'[s].version = intent[s].version
                                        /\ staged'[s] \subseteq staged[s]
  PROVE  FilesInv'
<1>1. \A s \in Syncs, f \in Files : Entry(s, f)' = Entry(s, f)
  BY DEF Entry
<1>2. OneOpen'
  BY DEF FilesInv, OneOpen
<1>3. Undisturbed'
  BY <1>1 DEF FilesInv, Undisturbed, Slot
<1>4. ASSUME NEW s \in Syncs, Open(s)' PROVE IF active' = s THEN Decided(s)' ELSE Undecided(s)'
  <2>1. Open(s) /\ IF active = s THEN Decided(s) ELSE Undecided(s)
    BY <1>4 DEF FilesInv
  <2>2. CASE active = s
    BY <2>1, <2>2 DEF Decided, At, Was, Slot
  <2>3. CASE active # s
    <3>1. HadWhatWas(s)'
      BY <2>1, <2>3 DEF Undecided, HadWhatWas, Was, Slot
    <3>2. ASSUME NEW f \in intent'[s].entries
          PROVE  Kept(s, f)' \/ Aside(s, f)' \/ Replaced(s, f)'
      <4>1. f \in intent[s].entries
        BY <2>1
      <4>2. Kept(s, f) \/ Aside(s, f) \/ Replaced(s, f)
        BY <2>1, <2>3, <4>1 DEF Undecided
      <4> QED BY <2>1, <4>2 DEF Kept, Aside, Replaced, At, Was, Slot
    <3> QED BY <2>3, <3>1, <3>2 DEF Undecided
  <2> QED BY <2>2, <2>3
<1> QED BY <1>2, <1>3, <1>4 DEF FilesInv

\* One entry of an open publication is moved.
LEMMA EntryMoves ==
  ASSUME FilesInv, Typed, NEW s \in Syncs, NEW f \in Files, Entry(s, f),
         UNCHANGED <<active, version, truth, intent>>,
         \A x \in Slots : x # Slot(f, s) => target'[x] = target[x],
         \A r \in Syncs, g \in Files : r # s \/ g # f => backup'[r][g] = backup[r][g],
         \A r \in Syncs : staged'[r] \subseteq staged[r],
         IF active = s THEN At(s, f)' = s
                       ELSE Kept(s, f)' \/ Aside(s, f)' \/ Replaced(s, f)'
  PROVE  FilesInv'
<1> USE SyncsAre
<1>1. \A r \in Syncs, g \in Files : Entry(r, g)' = Entry(r, g)
  BY DEF Entry, Open
<1>2. OneOpen'
  BY DEF FilesInv, OneOpen, Open
<1>3. Undisturbed'
  <2>1. ASSUME NEW g \in Files, NEW k \in 0 .. MaxSyncs,
               \A r \in Syncs : Entry(r, g)' => Slot(g, r) # <<g, k>>
        PROVE  target'[<<g, k>>] = truth'[<<g, k>>]
    <3>1. \A r \in Syncs : Entry(r, g) => Slot(g, r) # <<g, k>>
      BY <1>1, <2>1
    <3>2. target[<<g, k>>] = truth[<<g, k>>]
      BY <3>1 DEF FilesInv, Undisturbed
    <3>3. <<g, k>> \in Slots
      BY DEF Slots
    <3>4. <<g, k>> # Slot(f, s)
      BY <3>1 DEF Slot
    <3> QED BY <3>2, <3>3, <3>4
  <2>2. \A r \in Syncs, g \in Files : ~Entry(r, g)' => backup'[r][g] = 0
    BY <1>1 DEF FilesInv, Undisturbed
  <2> QED BY <2>1, <2>2 DEF Undisturbed, Slot
<1>4. ASSUME NEW r \in Syncs, Open(r)' PROVE IF active' = r THEN Decided(r)' ELSE Undecided(r)'
  <2>1. r = s /\ Open(s)
    BY <1>4 DEF Open, FilesInv, OneOpen, Entry
  <2>2. \A g \in intent[s].entries : g \in Files
    BY DEF Typed
  <2>3. \A g \in intent[s].entries : g # f => /\ At(s, g)' = At(s, g)
                                             /\ backup'[s][g] = backup[s][g]
    BY <2>2, SlotFacts DEF At, Slot, Slots
  <2>4. CASE active = s
    BY <2>1, <2>3, <2>4 DEF FilesInv, Decided, Was, Slot
  <2>5. CASE active # s
    <3>1. Undecided(s)
      BY <2>1, <2>5 DEF FilesInv
    <3>2. HadWhatWas(s)'
      BY <3>1 DEF Undecided, HadWhatWas, Was, Slot
    <3>3. ASSUME NEW g \in intent'[s].entries
          PROVE  Kept(s, g)' \/ Aside(s, g)' \/ Replaced(s, g)'
      <4>1. CASE g = f
        BY <2>5, <4>1
      <4>2. CASE g # f
        <5>1. Kept(s, g) \/ Aside(s, g) \/ Replaced(s, g)
          BY <3>1 DEF Undecided
        <5>2. Was(s, g)' = Was(s, g) /\ At(s, g)' = At(s, g) /\ backup'[s][g] = backup[s][g]
          BY <2>3, <4>2 DEF Was, Slot
        <5>3. g \notin staged[s] => g \notin staged'[s]
          OBVIOUS
        <5> QED BY <5>1, <5>2, <5>3 DEF Kept, Aside, Replaced
      <4> QED BY <4>1, <4>2
    <3> QED BY <2>1, <2>5, <3>2, <3>3 DEF Undecided
  <2> QED BY <2>4, <2>5
<1> QED BY <1>2, <1>3, <1>4 DEF FilesInv

\* With nothing open every file is as the committed runs left it.
LEMMA NothingOpen ==
  ASSUME FilesInv, \A s \in Syncs : ~Open(s)
  PROVE  /\ \A f \in Files, k \in 0 .. MaxSyncs : target[<<f, k>>] = truth[<<f, k>>]
         /\ \A s \in Syncs, f \in Files : At(s, f) = Was(s, f) /\ backup[s][f] = 0
<1>1. \A s \in Syncs, f \in Files : ~Entry(s, f)
  BY DEF Entry
<1>2. \A f \in Files, k \in 0 .. MaxSyncs : target[<<f, k>>] = truth[<<f, k>>]
  BY <1>1 DEF FilesInv, Undisturbed
<1>3. \A s \in Syncs, f \in Files : At(s, f) = Was(s, f)
  BY <1>2, SlotFacts, SyncsAre DEF At, Was, Slot
<1> QED BY <1>1, <1>2, <1>3 DEF FilesInv, Undisturbed

\* A publication of which nothing has moved yet becomes open.
LEMMA IntentAppears ==
  ASSUME FilesInv, Typed, NEW s \in Syncs, \A r \in Syncs : ~Open(r), active # s, HadWhatWas(s),
         UNCHANGED <<active, version, truth, target, backup>>,
         intent' = [intent EXCEPT ![s].status = "prepared"]
  PROVE  FilesInv' /\ Open(s)' /\ \A f \in intent'[s].entries : Kept(s, f)'
<1>1. \A r \in Syncs : Open(r)' = (r = s)
  BY DEF Open, Typed
<1>2. /\ intent'[s].entries = intent[s].entries /\ intent'[s].had = intent[s].had
      /\ intent[s].entries \subseteq Files
  BY DEF Typed
<1>3. \A f \in intent'[s].entries : Kept(s, f)'
  BY <1>2, NothingOpen DEF Kept, At, Was, Slot
<1>4. Undecided(s)'
  BY <1>2, <1>3 DEF Undecided, HadWhatWas, Was, Slot
<1>5. Undisturbed'
  BY NothingOpen DEF Undisturbed
<1> QED BY <1>1, <1>3, <1>4, <1>5 DEF FilesInv, OneOpen

\* A publication all of whose entries are settled is closed.
LEMMA IntentVanishes ==
  ASSUME FilesInv, Typed, NEW s \in Syncs, Open(s),
         \A f \in intent[s].entries : At(s, f) = Was(s, f) /\ backup[s][f] = 0,
         UNCHANGED <<active, version, truth, target, backup>>,
         intent' = [intent EXCEPT ![s] = NoIntent]
  PROVE  FilesInv' /\ \A r \in Syncs : ~Open(r)'
<1>1. \A r \in Syncs : ~Open(r)'
  BY DEF Open, Typed, FilesInv, OneOpen, NoIntent
<1>2. \A r \in Syncs, f \in Files : Entry(r, f) => r = s
  BY DEF FilesInv, OneOpen, Entry
<1>3. ASSUME NEW f \in Files, NEW k \in 0 .. MaxSyncs
      PROVE  target'[<<f, k>>] = truth'[<<f, k>>]
  <2>1. CASE Entry(s, f) /\ Slot(f, s) = <<f, k>>
    BY <2>1 DEF Entry, At, Was
  <2>2. CASE ~(Entry(s, f) /\ Slot(f, s) = <<f, k>>)
    BY <1>2, <2>2 DEF FilesInv, Undisturbed
  <2> QED BY <2>1, <2>2
<1>4. \A r \in Syncs, f \in Files : backup'[r][f] = 0
  BY <1>2 DEF FilesInv, Undisturbed, Entry
<1>5. Undisturbed'
  BY <1>3, <1>4 DEF Undisturbed
<1> QED BY <1>1, <1>5 DEF FilesInv, OneOpen

\* The database takes over what the run has published.
LEMMA CommitDecides ==
  ASSUME FilesInv, Typed, Open(cur), cur \in Syncs,
         \A f \in intent[cur].entries : Replaced(cur, f),
         CommitRows, UNCHANGED <<disk, cur>>
  PROVE  FilesInv' /\ (active' # 0 => runs'[active'] = "success") /\ active' = cur
<1> USE SyncsAre
<1>1. active' = cur /\ version' = intent[cur].version /\ runs'[cur] = "success"
  BY DEF CommitRows, Typed
<1>2. \A r \in Syncs, f \in Files : Entry(r, f)' = Entry(r, f)
  BY DEF Entry, Open, disk
<1>3. \A x \in Slots : truth'[x] = IF \E f \in intent[cur].entries : x = Slot(f, cur)
                                     THEN cur ELSE truth[x]
  BY DEF CommitRows
<1>4. intent[cur].entries \subseteq Files
  BY DEF Typed
<1>5. ASSUME NEW f \in intent[cur].entries PROVE At(cur, f)' = cur /\ Was(cur, f)' = cur
  <2>1. Slot(f, cur) \in Slots /\ Slot(f, cur)' = Slot(f, cur)
    BY <1>4, SlotFacts DEF Slot
  <2>2. At(cur, f)' = cur
    BY <2>1 DEF Replaced, At, disk
  <2>3. truth'[Slot(f, cur)] = cur
    BY <1>3, <2>1
  <2> QED BY <2>1, <2>2, <2>3 DEF Was
<1>6. Decided(cur)'
  BY <1>1, <1>5 DEF Decided, disk
<1>7. Undisturbed'
  <2>1. ASSUME NEW f \in Files, NEW k \in 0 .. MaxSyncs,
               \A s \in Syncs : Entry(s, f)' => Slot(f, s) # <<f, k>>
        PROVE  target'[<<f, k>>] = truth'[<<f, k>>]
    <3>1. \A s \in Syncs : Entry(s, f) => Slot(f, s) # <<f, k>>
      BY <1>2, <2>1
    <3>2. target[<<f, k>>] = truth[<<f, k>>]
      BY <3>1 DEF FilesInv, Undisturbed
    <3>3. <<f, k>> \in Slots
      BY DEF Slots
    <3>4. \A g \in intent[cur].entries : <<f, k>> # Slot(g, cur)
      <4>1. \A g \in intent[cur].entries : <<f, k>> = Slot(g, cur) => g = f
        BY DEF Slot
      <4> QED BY <3>1, <4>1 DEF Entry
    <3> QED BY <1>3, <3>2, <3>3, <3>4 DEF disk
  <2> QED BY <1>2, <2>1 DEF Undisturbed, FilesInv, disk, Slot
<1>8. OneOpen' /\ \A s \in Syncs : Open(s)' => s = cur
  BY DEF FilesInv, OneOpen, Open, disk
<1> QED BY <1>1, <1>6, <1>7, <1>8 DEF FilesInv

---------------------------------------------------------------------------
(* Every step keeps both invariants, unless the error handler undoes a     *)
(* committed publication.                                                  *)

\* A step that leaves files, intents and database alone needs only an account
\* of the run's position.
LEMMA DiskStays == ASSUME FilesInv, UNCHANGED <<db, disk, truth>> PROVE FilesInv'
  BY FilesStay DEF db, disk, Open

\* The steps of recovery and of a run before its files move.
LEMMA StepsBefore ==
  ASSUME Typed, FilesInv, RunInv,
         \/ Start \/ RecoverIntent \/ RemoveOrphans \/ FailIncompleteRuns
         \/ \E s \in Syncs : StartRun(s)
         \/ \E E \in SUBSET Files, v \in {version, version + 1} : Prepare(E, v)
         \/ WriteIntent \/ PrepareFails \/ IntentWriteRaisesLate
         \/ RecordFailed \/ FailureNotRecorded
  PROVE  FilesInv' /\ RunInv'
<1> USE SyncsAre
<1>1. CASE Start
  BY <1>1, DiskStays DEF Start, RunInv, InSession, db, disk, hist, HadWhatWas, Was, Slot, Open
<1>2. CASE RecoverIntent
  <2>1. PICK s \in Syncs : /\ Open(s)
                          /\ Session(IF Committed(s) THEN "cleanup" ELSE "rollback", s, "recover")
    BY <1>2 DEF RecoverIntent
  <2>2. FilesInv' /\ UNCHANGED <<db, disk, truth>>
    BY <1>2, DiskStays DEF RecoverIntent, hist
  <2>3. Committed(s) <=> active = s
    BY <2>1 DEF FilesInv, Decided, Committed
  <2>4. ses' = s /\ todo' = intent[s].entries /\ ret' = "recover"
        /\ \/ (pc' = "cleanup" /\ active = s)
           \/ (pc' = "rollback" /\ active # s)
    <3>1. CASE Committed(s)
      BY <2>1, <2>3, <3>1 DEF Session, Committed
    <3>2. CASE ~Committed(s)
      BY <2>1, <2>3, <3>2 DEF Session, Committed
    <3> QED BY <3>1, <3>2
  <2> QED BY <1>2, <2>1, <2>2, <2>4 DEF RunInv, InSession, db, disk, Open
<1>3. CASE RemoveOrphans
  <2>1. FilesInv'
    BY <1>3, FilesStay DEF RemoveOrphans, db, hist, Open
  <2> QED BY <1>3, <2>1 DEF RemoveOrphans, RunInv, InSession, db, hist, Open
<1>4. CASE FailIncompleteRuns
  <2>1. FilesInv'
    BY <1>4, FilesStay DEF FailIncompleteRuns, disk, hist, Open
  <2>2. active' # 0 => runs'[active'] = "success"
    BY <1>4 DEF FailIncompleteRuns, RunInv, Typed, Syncs
  <2> QED BY <1>4, <2>1, <2>2 DEF FailIncompleteRuns, RunInv, InSession, disk, hist, Open
<1>5. ASSUME NEW s \in Syncs, StartRun(s) PROVE FilesInv' /\ RunInv'
  <2>1. FilesInv'
    BY <1>5, FilesStay DEF StartRun, disk, hist, Open
  <2>2. active # s
    BY <1>5 DEF StartRun, RunInv
  <2>3. active' # 0 => runs'[active'] = "success"
    BY <1>5, <2>2 DEF StartRun, RunInv, Typed, Syncs
  <2> QED BY <1>5, <2>1, <2>2, <2>3 DEF StartRun, RunInv, InSession, disk, hist, Open
<1>6. ASSUME NEW E \in SUBSET Files, NEW v \in {version, version + 1}, Prepare(E, v)
      PROVE  FilesInv' /\ RunInv'
  <2>1. cur \in Syncs /\ cur' = cur /\ \A s \in Syncs : ~Open(s)
    BY <1>6 DEF Prepare, Typed, Running, RunInv
  <2>2. \A s \in Syncs : ~Open(s)'
    BY <1>6, <2>1 DEF Prepare, Open, Typed
  <2>3. FilesInv'
    <3>1. \A s \in Syncs : Open(s)' = Open(s)
      BY <2>1, <2>2 DEF Open
    <3> QED BY <1>6, <2>1, <3>1, FilesStay DEF Prepare, db, hist
  <2>4. /\ intent'[cur].entries = E
        /\ intent'[cur].had = {f \in E : target[Slot(f, cur)] # 0}
    BY <1>6, <2>1 DEF Prepare, Typed
  <2>5. \A f \in E : target[Slot(f, cur)] = truth'[Slot(f, cur)]
    BY <1>6, <2>1, NothingOpen DEF Prepare, At, Was, hist
  <2>6. HadWhatWas(cur)'
    BY <2>1, <2>4, <2>5 DEF HadWhatWas, Was, Slot
  <2> QED BY <1>6, <2>1, <2>2, <2>3, <2>6 DEF Prepare, RunInv, InSession, db
<1>7. CASE WriteIntent
  <2>1. cur \in Syncs /\ cur' = cur /\ active # cur /\ HadWhatWas(cur) /\ \A s \in Syncs : ~Open(s)
    BY <1>7 DEF WriteIntent, Typed, Running, RunInv
  <2>2. FilesInv' /\ Open(cur)' /\ \A f \in intent'[cur].entries : Kept(cur, f)'
    BY <1>7, <2>1, IntentAppears DEF WriteIntent, db, hist
  <2>3. intent'[cur].entries = intent[cur].entries
    BY <1>7, <2>1 DEF WriteIntent, Typed
  <2>4. todo' = intent[cur].entries /\ pc' = "publish"
    BY <1>7 DEF WriteIntent, Session
  <2> QED BY <1>7, <2>1, <2>2, <2>3, <2>4 DEF WriteIntent, RunInv, InSession, db
<1>8. CASE PrepareFails
  <2>1. cur \in Syncs /\ cur' = cur /\ active # cur /\ \A s \in Syncs : ~Open(s)
    BY <1>8 DEF PrepareFails, Typed, Running, RunInv
  <2>2. \A s \in Syncs : ~Open(s)'
    BY <1>8, <2>1 DEF PrepareFails, Open, Typed, NoIntent
  <2>3. FilesInv'
    <3>1. \A s \in Syncs : Open(s)' = Open(s)
      BY <2>1, <2>2 DEF Open
    <3> QED BY <1>8, <2>1, <3>1, FilesStay DEF PrepareFails, db, hist
  <2> QED BY <1>8, <2>1, <2>3 DEF PrepareFails, RunInv, InSession, db
<1>9. CASE IntentWriteRaisesLate
  <2>1. cur \in Syncs /\ cur' = cur /\ active # cur /\ HadWhatWas(cur) /\ \A s \in Syncs : ~Open(s)
    BY <1>9 DEF IntentWriteRaisesLate, Typed, Running, RunInv
  <2>2. FilesInv'
    BY <1>9, <2>1, IntentAppears DEF IntentWriteRaisesLate, db, hist
  <2> QED BY <1>9, <2>1, <2>2 DEF IntentWriteRaisesLate, RunInv, InSession, db
<1>10. CASE RecordFailed
  <2>1. FilesInv'
    BY <1>10, FilesStay DEF RecordFailed, disk, hist, Open
  <2>2. active' # 0 => runs'[active'] = "success"
    BY <1>10 DEF RecordFailed, RunInv, Typed, Syncs
  <2> QED BY <1>10, <2>1, <2>2 DEF RecordFailed, RunInv, InSession
<1>11. CASE FailureNotRecorded
  BY <1>11, DiskStays DEF FailureNotRecorded, RunInv, InSession, db, hist
<1> QED
  BY <1>1, <1>2, <1>3, <1>4, <1>5, <1>6, <1>7, <1>8, <1>9, <1>10, <1>11

\* The run's own publication, up to its commit.
LEMMA StepsOfPublish ==
  ASSUME Typed, FilesInv, RunInv,
         \/ \E f \in Files : MoveToBackup(f) \/ MoveToTarget(f)
         \/ MarkPublished \/ CommitTransaction \/ CommitRaisesLate \/ TransactionFails
         \/ HandleError \/ (HandleErrorBlind /\ ~undone')
  PROVE  FilesInv' /\ RunInv'
<1> USE SyncsAre
<1> DEFINE Entries == intent[cur].entries
<1>1. ASSUME NEW f \in Files, MoveToBackup(f) PROVE FilesInv' /\ RunInv'
  <2>1. /\ cur \in Syncs /\ cur' = cur /\ active # cur /\ Open(cur)
        /\ f \in todo /\ todo \subseteq Entries /\ f \in Entries /\ Slot(f, cur) \in Slots
    BY <1>1, SlotFacts DEF MoveToBackup, First, Typed, Running, RunInv, run
  <2>2. Kept(cur, f) /\ At(cur, f) # 0
    BY <1>1, <2>1 DEF MoveToBackup, RunInv, Aside, At
  <2>3. /\ \A x \in Slots : x # Slot(f, cur) => target'[x] = target[x]
        /\ target'[Slot(f, cur)] = 0
    BY <1>1, <2>1 DEF MoveToBackup, Typed
  <2>4. /\ \A r \in Syncs, g \in Files : r # cur \/ g # f => backup'[r][g] = backup[r][g]
        /\ backup'[cur][f] = target[Slot(f, cur)]
    BY <1>1, <2>1 DEF MoveToBackup, Typed
  <2>5. Aside(cur, f)'
    BY <1>1, <2>1, <2>2, <2>3, <2>4 DEF MoveToBackup, Aside, Kept, At, Was, Slot, hist
  <2>6. FilesInv'
    BY <1>1, <2>1, <2>3, <2>4, <2>5, EntryMoves DEF MoveToBackup, Entry, db, hist
  <2>7. \A g \in Entries : g # f => /\ Kept(cur, g)' = Kept(cur, g) /\ Aside(cur, g)' = Aside(cur, g)
                                    /\ Replaced(cur, g)' = Replaced(cur, g)
    <3> SUFFICES ASSUME NEW g \in Entries, g # f
                 PROVE  /\ Kept(cur, g)' = Kept(cur, g) /\ Aside(cur, g)' = Aside(cur, g)
                        /\ Replaced(cur, g)' = Replaced(cur, g)
      OBVIOUS
    <3>1. g \in Files
      BY <2>1 DEF Typed
    <3>2. Slot(g, cur) \in Slots /\ Slot(g, cur) # Slot(f, cur)
      BY <2>1, <3>1, SlotFacts
    <3> QED BY <1>1, <2>1, <2>3, <2>4, <3>1, <3>2
            DEF MoveToBackup, Kept, Aside, Replaced, At, Was, Slot, hist
  <2>8. pc' = pc /\ pc = "publish" /\ todo' = todo /\ intent' = intent
    BY <1>1 DEF MoveToBackup, run
  <2> QED BY <1>1, <2>1, <2>5, <2>6, <2>7, <2>8 DEF MoveToBackup, RunInv, InSession, Open, db
<1>2. ASSUME NEW f \in Files, MoveToTarget(f) PROVE FilesInv' /\ RunInv'
  <2>1. /\ cur \in Syncs /\ cur' = cur /\ active # cur /\ Open(cur)
        /\ f \in todo /\ todo \subseteq Entries /\ f \in Entries /\ Slot(f, cur) \in Slots
    BY <1>2, SlotFacts DEF MoveToTarget, First, Typed, Running, RunInv
  <2>2. At(cur, f) = 0 /\ backup[cur][f] = Was(cur, f)
    BY <1>2, <2>1 DEF MoveToTarget, RunInv, Aside, Kept, At
  <2>3. /\ \A x \in Slots : x # Slot(f, cur) => target'[x] = target[x]
        /\ target'[Slot(f, cur)] = cur
    BY <1>2, <2>1 DEF MoveToTarget, Typed
  <2>4. staged'[cur] = staged[cur] \ {f} /\ \A r \in Syncs : staged'[r] \subseteq staged[r]
    BY <1>2, <2>1 DEF MoveToTarget, Typed
  <2>5. Replaced(cur, f)'
    BY <1>2, <2>1, <2>2, <2>3, <2>4 DEF MoveToTarget, Replaced, At, Was, Slot, hist
  <2>6. FilesInv'
    BY <1>2, <2>1, <2>3, <2>4, <2>5, EntryMoves DEF MoveToTarget, Entry, db, hist
  <2>7. \A g \in Entries : g # f => /\ Kept(cur, g)' = Kept(cur, g) /\ Aside(cur, g)' = Aside(cur, g)
                                    /\ Replaced(cur, g)' = Replaced(cur, g)
    <3> SUFFICES ASSUME NEW g \in Entries, g # f
                 PROVE  /\ Kept(cur, g)' = Kept(cur, g) /\ Aside(cur, g)' = Aside(cur, g)
                        /\ Replaced(cur, g)' = Replaced(cur, g)
      OBVIOUS
    <3>1. g \in Files
      BY <2>1 DEF Typed
    <3>2. Slot(g, cur) \in Slots /\ Slot(g, cur) # Slot(f, cur)
      BY <2>1, <3>1, SlotFacts
    <3> QED BY <1>2, <2>1, <2>3, <2>4, <3>1, <3>2
            DEF MoveToTarget, Kept, Aside, Replaced, At, Was, Slot, hist
  <2>8. pc' = pc /\ pc = "publish" /\ todo' = todo \ {f} /\ intent' = intent
    BY <1>2 DEF MoveToTarget
  <2> QED BY <1>2, <2>1, <2>5, <2>6, <2>7, <2>8 DEF MoveToTarget, RunInv, InSession, Open, db
<1>3. CASE MarkPublished
  <2>1. /\ cur \in Syncs /\ cur' = cur /\ active # cur /\ Open(cur)
        /\ \A f \in Entries : Replaced(cur, f)
    BY <1>3 DEF MarkPublished, Typed, Running, RunInv
  <2>2. \A s \in Syncs : /\ Open(s)' = Open(s)
                         /\ intent'[s].entries = intent[s].entries
                         /\ intent'[s].had = intent[s].had
                         /\ intent'[s].version = intent[s].version
    BY <1>3, <2>1 DEF MarkPublished, Open, Typed
  <2>3. FilesInv'
    BY <1>3, <2>2, FilesStay DEF MarkPublished, db, hist
  <2>4. \A f \in intent'[cur].entries : Replaced(cur, f)'
    BY <1>3, <2>1, <2>2 DEF MarkPublished, Replaced, At, Was, Slot, hist
  <2> QED BY <1>3, <2>1, <2>2, <2>3, <2>4 DEF MarkPublished, RunInv, InSession, db
<1>4. ASSUME CommitTransaction \/ CommitRaisesLate PROVE FilesInv' /\ RunInv'
  <2>1. /\ cur \in Syncs /\ cur' = cur /\ Open(cur) /\ CommitRows /\ UNCHANGED disk
        /\ \A f \in Entries : Replaced(cur, f)
    BY <1>4 DEF CommitTransaction, CommitRaisesLate, Typed, Running, RunInv
  <2>2. FilesInv' /\ (active' # 0 => runs'[active'] = "success") /\ active' = cur
    BY <2>1, CommitDecides
  <2>3. Open(cur)' /\ intent' = intent
    BY <2>1 DEF disk, Open
  <2>4. CASE CommitTransaction
    <3>1. Session("cleanup", cur, "down")
      BY <2>4 DEF CommitTransaction
    <3>2. pc' = "cleanup" /\ ses' = cur /\ todo' = Entries /\ ret' = "down"
      BY <3>1 DEF Session
    <3> QED BY <2>1, <2>2, <2>3, <3>2 DEF RunInv, InSession
  <2>5. CASE CommitRaisesLate
    BY <2>1, <2>2, <2>3, <2>5 DEF CommitRaisesLate, RunInv, InSession
  <2> QED BY <1>4, <2>4, <2>5
<1>5. CASE TransactionFails
  BY <1>5, DiskStays DEF TransactionFails, RunInv, InSession, db, disk, hist, Open
<1>6. ASSUME HandleError \/ (HandleErrorBlind /\ ~undone') PROVE FilesInv' /\ RunInv'
  <2>1. cur \in Syncs /\ cur' = cur /\ Open(cur) /\ UNCHANGED <<db, disk, truth>>
    BY <1>6 DEF HandleError, HandleErrorBlind, Typed, Running, RunInv, hist
  <2>2. \/ active = cur /\ Session("cleanup", cur, "down")
        \/ active # cur /\ Session("rollback", cur, "fail")
    BY <1>6 DEF HandleError, HandleErrorBlind, Typed
  <2>3. FilesInv'
    BY <2>1, DiskStays
  <2>4. /\ ses' = cur /\ todo' = Entries
        /\ \/ active = cur /\ pc' = "cleanup" /\ ret' = "down"
           \/ active # cur /\ pc' = "rollback" /\ ret' = "fail"
    BY <2>2 DEF Session
  <2> QED BY <2>1, <2>3, <2>4 DEF RunInv, InSession, db, disk, Open
<1> QED BY <1>1, <1>2, <1>3, <1>4, <1>5, <1>6

\* Rollback and cleanup, of the run or of recovery, and a death.
LEMMA StepsOfSession ==
  ASSUME Typed, FilesInv, RunInv,
         \/ \E f \in Files : RemoveTarget(f) \/ RestoreBackup(f) \/ KeepTarget(f) \/ RemoveBackup(f)
         \/ RemoveStaging \/ UnlinkIntent \/ SessionFails \/ Crash
  PROVE  FilesInv' /\ RunInv'
<1> USE SyncsAre
<1> DEFINE Entries == intent[ses].entries
<1>1. ASSUME NEW f \in Files, ses \in Syncs, ses' = ses, NEW g \in Entries, g # f,
             \A x \in Slots : x # Slot(f, ses) => target'[x] = target[x],
             \A r \in Syncs, h \in Files : r # ses \/ h # f => backup'[r][h] = backup[r][h],
             UNCHANGED truth, Kept(ses, g)
      PROVE  Kept(ses, g)'
  <2>1. g \in Files
    BY <1>1 DEF Typed
  <2>2. Slot(g, ses) \in Slots /\ Slot(g, ses) # Slot(f, ses)
    BY <1>1, <2>1, SlotFacts
  <2> QED BY <1>1, <2>1, <2>2 DEF Kept, At, Was, Slot
<1>2. ASSUME pc = "rollback", NEW f \in Files, Last(f)
      PROVE  /\ ses \in Syncs /\ active # ses /\ Open(ses) /\ Undecided(ses)
             /\ f \in todo /\ todo \subseteq Entries /\ f \in Entries /\ Slot(f, ses) \in Slots
             /\ Kept(ses, f) \/ Aside(ses, f) \/ Replaced(ses, f)
             /\ f \in intent[ses].had <=> Was(ses, f) # 0
             /\ \A g \in Entries \ todo : Kept(ses, g)
  BY <1>2, SlotFacts DEF Last, Typed, InSession, RunInv, FilesInv, Undecided, HadWhatWas
<1>3. ASSUME NEW f \in Files, RemoveTarget(f) PROVE FilesInv' /\ RunInv'
  <2>1. pc = "rollback" /\ Last(f) /\ target[Slot(f, ses)] # 0
    BY <1>3 DEF RemoveTarget
  <2>2. /\ pc' = pc /\ ses' = ses /\ intent' = intent /\ cur' = cur
        /\ UNCHANGED <<active, version, truth, backup, staged>>
    BY <1>3 DEF RemoveTarget, db, hist
  <2>3. /\ \A x \in Slots : x # Slot(f, ses) => target'[x] = target[x]
        /\ target'[Slot(f, ses)] = 0
    BY <1>2, <1>3, <2>1 DEF RemoveTarget, Typed
  <2>4. CASE backup[ses][f] # 0
    <3>1. Aside(ses, f)' /\ todo' = todo
      BY <1>2, <1>3, <2>1, <2>2, <2>3, <2>4 DEF RemoveTarget, Kept, Aside, Replaced, At, Was, Slot
    <3>2. FilesInv'
      BY <1>2, <2>1, <2>2, <2>3, <3>1, EntryMoves DEF Entry
    <3>3. \A g \in Entries \ todo : Kept(ses, g)'
      BY <1>1, <1>2, <2>1, <2>2, <2>3
    <3> QED BY <1>2, <1>3, <2>1, <2>2, <3>1, <3>2, <3>3 DEF RemoveTarget, RunInv, InSession, Open, db
  <2>5. CASE backup[ses][f] = 0
    <3>1. Was(ses, f) = 0 /\ todo' = todo \ {f}
      BY <1>2, <1>3, <2>1, <2>5 DEF RemoveTarget
    <3>2. Kept(ses, f)'
      BY <2>2, <2>3, <2>5, <3>1 DEF Kept, At, Was, Slot
    <3>3. FilesInv'
      BY <1>2, <2>1, <2>2, <2>3, <3>2, EntryMoves DEF Entry
    <3>4. \A g \in Entries \ todo' : Kept(ses, g)'
      BY <1>1, <1>2, <2>1, <2>2, <2>3, <3>1, <3>2
    <3> QED BY <1>2, <1>3, <2>1, <2>2, <3>1, <3>3, <3>4 DEF RemoveTarget, RunInv, InSession, Open, db
  <2> QED BY <2>4, <2>5
<1>4. ASSUME NEW f \in Files, RestoreBackup(f) PROVE FilesInv' /\ RunInv'
  <2>1. pc = "rollback" /\ Last(f) /\ target[Slot(f, ses)] = 0 /\ backup[ses][f] # 0
    BY <1>4 DEF RestoreBackup
  <2>2. /\ pc' = pc /\ ses' = ses /\ intent' = intent /\ cur' = cur
        /\ UNCHANGED <<active, version, truth, staged>> /\ todo' = todo \ {f}
    BY <1>4 DEF RestoreBackup, db, hist
  <2>3. /\ \A x \in Slots : x # Slot(f, ses) => target'[x] = target[x]
        /\ target'[Slot(f, ses)] = backup[ses][f]
    BY <1>2, <1>4, <2>1 DEF RestoreBackup, Typed
  <2>4. /\ \A r \in Syncs, g \in Files : r # ses \/ g # f => backup'[r][g] = backup[r][g]
        /\ backup'[ses][f] = 0
    BY <1>2, <1>4, <2>1 DEF RestoreBackup, Typed
  <2>5. Kept(ses, f)'
    BY <1>2, <2>1, <2>2, <2>3, <2>4 DEF Kept, Aside, Replaced, At, Was, Slot
  <2>6. FilesInv'
    BY <1>2, <2>1, <2>2, <2>3, <2>4, <2>5, EntryMoves DEF Entry
  <2>7. \A g \in Entries \ todo' : Kept(ses, g)'
    BY <1>1, <1>2, <2>1, <2>2, <2>3, <2>4, <2>5
  <2> QED BY <1>2, <1>4, <2>1, <2>2, <2>6, <2>7 DEF RestoreBackup, RunInv, InSession, Open, db
<1>5. ASSUME NEW f \in Files, KeepTarget(f) PROVE FilesInv' /\ RunInv'
  <2>1. /\ pc = "rollback" /\ Last(f) /\ backup[ses][f] = 0
        /\ ~(f \notin intent[ses].had /\ (published \/ f \notin staged[ses])
               /\ target[Slot(f, ses)] # 0)
    BY <1>5 DEF KeepTarget
  <2>2. UNCHANGED <<db, disk, truth, pc, cur, ses, ret>> /\ todo' = todo \ {f}
    BY <1>5 DEF KeepTarget, hist
  <2>3. Kept(ses, f)
    BY <1>2, <2>1 DEF Kept, Aside, Replaced, At, Was
  <2>4. FilesInv'
    BY <2>2, DiskStays
  <2>5. \A g \in Entries \ todo' : Kept(ses, g)
    BY <1>2, <2>1, <2>2, <2>3
  <2>6. \A g \in Entries : Kept(ses, g)' = Kept(ses, g)
    BY <2>2 DEF Kept, At, Was, Slot, disk
  <2> QED BY <1>2, <2>1, <2>2, <2>4, <2>5, <2>6 DEF RunInv, InSession, Open, db, disk
<1>6. ASSUME NEW f \in Files, RemoveBackup(f) PROVE FilesInv' /\ RunInv'
  <2>1. /\ pc = "cleanup" /\ f \in todo /\ ses \in Syncs /\ active = ses /\ Open(ses)
        /\ todo \subseteq Entries /\ f \in Entries /\ ret # "fail"
        /\ \A g \in Entries \ todo : backup[ses][g] = 0
    BY <1>6 DEF RemoveBackup, First, Typed, InSession, RunInv
  <2>2. /\ pc' = pc /\ ses' = ses /\ intent' = intent /\ cur' = cur /\ ret' = ret
        /\ UNCHANGED <<db, target, staged, truth>> /\ todo' = todo \ {f}
    BY <1>6 DEF RemoveBackup, hist
  <2>3. /\ \A r \in Syncs, g \in Files : r # ses \/ g # f => backup'[r][g] = backup[r][g]
        /\ backup'[ses][f] = 0
    BY <1>6, <2>1 DEF RemoveBackup, Typed
  <2>4. At(ses, f)' = ses
    BY <2>1, <2>2 DEF FilesInv, Decided, At, Slot
  <2>5. FilesInv'
    BY <2>1, <2>2, <2>3, <2>4, EntryMoves DEF Entry, db
  <2>6. \A g \in Entries \ todo' : backup'[ses][g] = 0
    BY <2>1, <2>2, <2>3 DEF Typed
  <2> QED BY <2>1, <2>2, <2>5, <2>6 DEF RunInv, InSession, Open, db
<1>7. CASE RemoveStaging
  <2>1. /\ UNCHANGED <<db, target, backup, intent, truth, pc, cur, ses, todo, ret>>
        /\ pc \in InSession /\ ses \in Syncs
    BY <1>7 DEF RemoveStaging, run, hist, InSession, Typed
  <2>2. \A s \in Syncs : staged'[s] \subseteq staged[s]
    BY <1>7 DEF RemoveStaging, Typed
  <2>3. FilesInv'
    BY <2>1, <2>2, FilesStay DEF db, Open
  <2> QED BY <2>1, <2>3 DEF RunInv, InSession, Kept, At, Was, Slot, Open, db
<1>8. CASE UnlinkIntent
  <2>1. /\ pc \in InSession /\ ses \in Syncs /\ Open(ses) /\ todo = {}
        /\ UNCHANGED <<db, truth, target, backup, cur>> /\ pc' = ret
        /\ intent' = [intent EXCEPT ![ses] = NoIntent]
    BY <1>8 DEF UnlinkIntent, InSession, Typed, RunInv, hist
  <2>2. \A f \in Entries : At(ses, f) = Was(ses, f) /\ backup[ses][f] = 0
    <3>1. CASE pc = "rollback"
      BY <2>1, <3>1 DEF RunInv, Kept
    <3>2. CASE pc = "cleanup"
      BY <2>1, <3>2 DEF RunInv, FilesInv, Decided
    <3> QED BY <2>1, <3>1, <3>2 DEF InSession
  <2>3. FilesInv' /\ \A r \in Syncs : ~Open(r)'
    BY <2>1, <2>2, IntentVanishes DEF db
  <2>4. ret = "fail" => active # cur
    BY <2>1 DEF Typed, RunInv, InSession
  <2> QED BY <2>1, <2>3, <2>4 DEF Typed, RunInv, InSession, db
<1>9. CASE SessionFails
  <2>1. FilesInv'
    BY <1>9, DiskStays DEF SessionFails, hist
  <2>2. pc' = "fail" => active # cur
    BY <1>9 DEF SessionFails, RunInv, Typed, InSession
  <2> QED BY <1>9, <2>1, <2>2 DEF SessionFails, RunInv, InSession, db
<1>10. CASE Crash
  <2>1. \A s \in Syncs : Open(s)' = Open(s) /\ (Open(s) => intent'[s] = intent[s])
    BY <1>10 DEF Crash, Open, NoIntent
  <2>2. FilesInv'
    BY <1>10, <2>1, FilesStay DEF Crash, db, hist
  <2> QED BY <1>10, <2>2 DEF Crash, RunInv, InSession, db
<1> QED BY <1>3, <1>4, <1>5, <1>6, <1>7, <1>8, <1>9, <1>10

\* Nothing forgets that a committed publication was undone.
LEMMA UndoneStays == ASSUME Typed, [Next]_vars, ~undone' PROVE ~undone
  BY DEF Next, Step, vars, hist, Start, RecoverIntent, RemoveOrphans, FailIncompleteRuns, StartRun,
     Prepare, WriteIntent, RecordFailed, MoveToBackup, MoveToTarget, RemoveTarget, RestoreBackup,
     KeepTarget, RemoveBackup, MarkPublished, CommitTransaction, HandleError, RemoveStaging,
     UnlinkIntent, PrepareFails, IntentWriteRaisesLate, FailureNotRecorded, CommitRaisesLate,
     TransactionFails, HandleErrorBlind, SessionFails, Crash, Typed

LEMMA PubNext == PubInv /\ [Next]_vars => PubInv'
<1> SUFFICES ASSUME PubInv, [Next]_vars, ~undone' PROVE FilesInv' /\ RunInv'
  BY TypedNext DEF PubInv
<1>1. ~undone
  BY UndoneStays DEF PubInv
<1>2. Typed /\ FilesInv /\ RunInv
  BY <1>1 DEF PubInv
<1>3. CASE UNCHANGED vars
  BY <1>2, <1>3, DiskStays DEF vars, db, disk, run, hist, RunInv, InSession, Kept, Aside, Replaced,
     HadWhatWas, At, Was, Slot, Open
<1> QED
  BY <1>2, <1>3, StepsBefore, StepsOfPublish, StepsOfSession DEF Next, Step

LEMMA PubInvariant == Spec => []PubInv
<1>1. Init => PubInv
  BY InitTyped, InitPub DEF PubInv
<1> QED BY <1>1, PubNext, PTL DEF Spec

\* Whenever no publication is open, the files are those that the committed runs
\* wrote, and no backup is left.
THEOREM FilesMatch == Spec => []FilesMatchDatabase
<1>1. PubInv => FilesMatchDatabase
  <2> SUFFICES ASSUME PubInv, ~undone, \A s \in Syncs : ~Open(s)
               PROVE  target = truth /\ \A s \in Syncs, f \in Files : backup[s][f] = 0
    BY DEF FilesMatchDatabase
  <2>1. \A f \in Files, k \in 0 .. MaxSyncs : target[<<f, k>>] = truth[<<f, k>>]
    BY NothingOpen DEF PubInv
  <2>2. target = truth
    BY <2>1 DEF PubInv, Typed, Slots
  <2> QED BY <2>2, NothingOpen DEF PubInv
<1> QED BY <1>1, PubInvariant, PTL

\* The committed content of a file is at its name, or at a backup name that an
\* intent still refers to.
THEOREM ContentIsNeverLost == Spec => []NothingLost
<1>1. PubInv => NothingLost
  <2> SUFFICES ASSUME PubInv, ~undone, NEW f \in Files, NEW k \in 0 .. MaxSyncs,
                      truth[<<f, k>>] # 0, target[<<f, k>>] # truth[<<f, k>>]
               PROVE  \E x \in Syncs : /\ Open(x) /\ Slot(f, x) = <<f, k>>
                                       /\ backup[x][f] = truth[<<f, k>>]
    BY DEF NothingLost
  <2>1. PICK x \in Syncs : Entry(x, f) /\ Slot(f, x) = <<f, k>>
    BY DEF PubInv, FilesInv, Undisturbed
  <2>2. At(x, f) # Was(x, f)
    BY <2>1 DEF At, Was
  <2>3. Aside(x, f) \/ Replaced(x, f)
    BY <2>1, <2>2 DEF PubInv, FilesInv, Entry, Decided, Undecided, Kept
  <2> QED BY <2>1, <2>3 DEF Entry, Aside, Replaced, Was
<1> QED BY <1>1, PubInvariant, PTL

---------------------------------------------------------------------------
(* The delta catalog is the history of the committed runs: an invariant    *)
(* over the catalogs that the runs wrote, on top of what is proved above   *)
(* of the file that holds one of them.                                     *)

CatalogEntries == [sync : Syncs, prev : 0 .. MaxSyncs, from : Nat, to : Nat]

SyncsOf(c) == {c[i].sync : i \in 1 .. Len(c)}
EndsIn(c, s, v) == c # <<>> /\ c[Len(c)].sync = s /\ c[Len(c)].to = v
Successes == {s \in Syncs : runs[s] = "success"}

\* The catalog of the run that library_state names.
Recorded == IF active = 0 THEN <<>> ELSE chain[active]

IsHistory ==
  /\ Continuous(Recorded) /\ SyncsOf(Recorded) = Successes
  /\ active # 0 => EndsIn(Recorded, active, version)
  /\ active = 0 => Recorded = <<>>

\* The run has staged its catalog and nothing else has been committed since.
Pending == pc \in {"prepared", "publish", "commit"}

\* The run is not over, or rolls its own publication back.
Working == pc \in Running \/ (pc = "rollback" /\ ret = "fail")

NextCatalog ==
  /\ Catalog \in intent[cur].entries
  /\ chain[cur] = Appended(Recorded, cur, version, intent[cur].version)

OpenCatalogs ==
  \A s \in Syncs : Open(s) => Catalog \in intent[s].entries /\ Continuous(chain[s])

CatInv ==
  /\ chain \in [Syncs -> Seq(CatalogEntries)]
  /\ truth[Slot(Catalog, 0)] = active
  /\ IsHistory /\ OpenCatalogs
  /\ Pending => NextCatalog
  /\ Working /\ active # cur => runs[cur] = "running"

---------------------------------------------------------------------------
(* append_delta_catalog keeps a catalog continuous.                        *)

LEMMA AppendedFacts ==
  ASSUME NEW c \in Seq(CatalogEntries), NEW s \in Syncs, NEW from \in Nat, NEW to \in Nat,
         Continuous(c), c # <<>> => c[Len(c)].to = from
  PROVE  LET d == Appended(c, s, from, to)
         IN  /\ d \in Seq(CatalogEntries) /\ Continuous(d) /\ EndsIn(d, s, to)
             /\ SyncsOf(d) = SyncsOf(c) \cup {s}
<1> DEFINE e == [sync |-> s, prev |-> IF c = <<>> THEN 0 ELSE c[Len(c)].sync,
                 from |-> from, to |-> to]
           d == Append(c, e)
<1>1. c = <<>> \/ (Len(c) \in Nat /\ Len(c) > 0 /\ c[Len(c)] \in CatalogEntries)
  OBVIOUS
<1>2. e \in CatalogEntries
  <2>1. (IF c = <<>> THEN 0 ELSE c[Len(c)].sync) \in 0 .. MaxSyncs
    BY <1>1, SyncsAre DEF CatalogEntries
  <2> QED BY <2>1 DEF CatalogEntries
<1>3. /\ d \in Seq(CatalogEntries) /\ Len(d) = Len(c) + 1 /\ d # <<>>
      /\ \A i \in 1 .. Len(c) : d[i] = c[i]
      /\ d[Len(c) + 1] = e
  BY <1>2, AppendProperties
<1>4. Len(c) \in Nat /\ (c = <<>> <=> Len(c) = 0)
  OBVIOUS
<1> HIDE DEF d
<1>5. Continuous(d)
  <2> SUFFICES ASSUME NEW i \in 1 .. Len(d)
               PROVE  /\ d[i].prev = IF i = 1 THEN 0 ELSE d[i - 1].sync
                      /\ i > 1 => d[i].from = d[i - 1].to
    BY DEF Continuous
  <2>1. CASE i \in 1 .. Len(c)
    <3>1. d[i] = c[i] /\ (i > 1 => d[i - 1] = c[i - 1])
      BY <1>3, <1>4, <2>1
    <3> QED BY <2>1, <3>1 DEF Continuous
  <2>2. CASE i = Len(c) + 1
    <3>1. i > 1 => d[i - 1] = c[Len(c)]
      BY <1>3, <1>4, <2>2
    <3>2. i > 1 <=> c # <<>>
      BY <1>4, <2>2
    <3> QED BY <1>3, <1>4, <2>2, <3>1, <3>2
  <2> QED BY <1>3, <1>4, <2>1, <2>2
<1>6. EndsIn(d, s, to)
  BY <1>3 DEF EndsIn
<1>7. SyncsOf(d) = SyncsOf(c) \cup {s}
  <2>1. \A i \in 1 .. Len(d) : i \in 1 .. Len(c) \/ i = Len(c) + 1
    BY <1>3, <1>4
  <2>2. Len(c) + 1 \in 1 .. Len(d) /\ 1 .. Len(c) \subseteq 1 .. Len(d)
    BY <1>3, <1>4
  <2> QED BY <1>3, <2>1, <2>2 DEF SyncsOf
<1> QED BY <1>3, <1>5, <1>6, <1>7 DEF d, Appended

---------------------------------------------------------------------------
(* The steps.                                                              *)

LEMMA InitCat == Init => CatInv
  BY ConstantsAssumption, SyncsAre DEF Init, CatInv, IsHistory, OpenCatalogs, Recorded, Continuous,
     SyncsOf, Successes, Open, NoIntent, Pending, Working, Running, Slot, Slots

\* The history depends on library_state, the runs and the recorded catalog.
LEMMA HistoryStays ==
  ASSUME IsHistory, UNCHANGED <<active, version>>, Recorded' = Recorded, Successes' = Successes
  PROVE  IsHistory'
  BY DEF IsHistory, EndsIn, SyncsOf, Continuous

\* Steps that leave the tables and the catalogs alone, and open nothing.
LEMMA CatalogsStay ==
  ASSUME CatInv, UNCHANGED <<active, version, runs, truth, chain, cur>>,
         \A s \in Syncs : Open(s)' => Open(s) /\ intent'[s].entries = intent[s].entries,
         Pending' => Pending /\ intent'[cur].entries = intent[cur].entries
                             /\ intent'[cur].version = intent[cur].version,
         Working' => Working \/ active = cur
  PROVE  CatInv'
<1>1. IsHistory'
  BY HistoryStays DEF CatInv, Recorded, Successes
<1>2. OpenCatalogs'
  BY DEF CatInv, OpenCatalogs, Continuous
<1>3. Pending' => NextCatalog'
  BY DEF CatInv, NextCatalog, Recorded, Appended
<1> QED BY <1>1, <1>2, <1>3 DEF CatInv, Slot

\* Steps that change only the rows of unfinished runs.
LEMMA RunsMove ==
  ASSUME CatInv, UNCHANGED <<active, version, truth, chain, intent>>,
         \A s \in Syncs : runs'[s] = "success" <=> runs[s] = "success",
         ~Pending', Working' /\ active # cur' => runs'[cur'] = "running"
  PROVE  CatInv'
<1>1. IsHistory'
  BY HistoryStays DEF CatInv, Recorded, Successes
<1>2. OpenCatalogs'
  BY DEF CatInv, OpenCatalogs, Continuous, Open
<1> QED BY <1>1, <1>2 DEF CatInv, Slot

\* What a pending run is going to record continues the history.
LEMMA NextFacts ==
  ASSUME Typed, CatInv, cur \in Syncs, NextCatalog
  PROVE  /\ Continuous(chain[cur]) /\ EndsIn(chain[cur], cur, intent[cur].version)
         /\ SyncsOf(chain[cur]) = Successes \cup {cur}
<1>1. Recorded \in Seq(CatalogEntries)
  BY SyncsAre, ConstantsAssumption DEF CatInv, Recorded, Typed, Syncs
<1>2. Recorded # <<>> => Recorded[Len(Recorded)].to = version
  BY DEF CatInv, IsHistory, EndsIn
<1>3. version \in Nat /\ intent[cur].version \in Nat
  BY DEF Typed
<1> DEFINE d == Appended(Recorded, cur, version, intent[cur].version)
<1>4. Continuous(Recorded) /\ SyncsOf(Recorded) = Successes /\ chain[cur] = d
  BY DEF CatInv, IsHistory, NextCatalog
<1>5. Continuous(d) /\ EndsIn(d, cur, intent[cur].version) /\ SyncsOf(d) = SyncsOf(Recorded) \cup {cur}
  BY <1>1, <1>2, <1>3, <1>4, AppendedFacts
<1> QED BY <1>4, <1>5

\* The intent of the pending run reaches the disk.
LEMMA IntentOpens ==
  ASSUME Typed, CatInv, pc = "prepared", intent' = [intent EXCEPT ![cur].status = "prepared"],
         pc' \in {"publish", "fail"}, UNCHANGED <<active, version, runs, truth, chain, cur>>
  PROVE  CatInv'
<1>1. cur \in Syncs /\ NextCatalog
  BY DEF Typed, Running, CatInv, Pending
<1>2. \A s \in Syncs : intent'[s].entries = intent[s].entries
                      /\ intent'[s].version = intent[s].version
                      /\ (s # cur => Open(s)' = Open(s))
  BY <1>1 DEF Typed, Open
<1>3. IsHistory'
  BY HistoryStays DEF CatInv, Recorded, Successes
<1>4. OpenCatalogs'
  BY <1>1, <1>2, NextFacts DEF CatInv, OpenCatalogs, Continuous, NextCatalog
<1>5. NextCatalog'
  BY <1>1, <1>2 DEF NextCatalog, Recorded, Appended
<1>6. Working
  BY DEF Working, Running
<1> QED BY <1>3, <1>4, <1>5, <1>6 DEF CatInv, Slot

\* The catalog that a run prepares is read from the recorded one.
LEMMA PrepareCat ==
  ASSUME Typed, CatInv, FilesInv, RunInv,
         NEW E \in SUBSET Files, NEW v \in {version, version + 1}, Prepare(E, v)
  PROVE  CatInv'
<1> USE SyncsAre
<1>1. cur \in Syncs /\ active # cur /\ \A s \in Syncs : ~Open(s)
  BY DEF Prepare, Typed, Running, RunInv
<1>2. CatalogFile = Recorded
  <2>1. Catalog \in Files /\ Slot(Catalog, 0) = <<Catalog, 0>>
    BY ConstantsAssumption DEF Slot
  <2>2. target[Slot(Catalog, 0)] = active
    BY <1>1, <2>1, NothingOpen DEF CatInv
  <2> QED BY <2>2 DEF CatalogFile, Recorded
<1>3. Recorded \in Seq(CatalogEntries)
  BY DEF CatInv, Recorded, Typed, Syncs
<1>4. version \in Nat /\ v \in Nat
  BY DEF Typed
<1>5. Recorded # <<>> => Recorded[Len(Recorded)].to = version
  BY DEF CatInv, IsHistory, EndsIn
<1>6. Appended(Recorded, cur, version, v) \in Seq(CatalogEntries)
  BY <1>1, <1>3, <1>4, <1>5, AppendedFacts DEF CatInv, IsHistory
<1>7. chain' \in [Syncs -> Seq(CatalogEntries)] /\ chain'[cur] = Appended(Recorded, cur, version, v)
      /\ \A s \in Syncs : s # cur => chain'[s] = chain[s]
  BY <1>1, <1>2, <1>6 DEF Prepare, CatInv
<1>8. Recorded' = Recorded
  BY <1>1, <1>7 DEF Prepare, db, Recorded, Typed, Syncs
<1>9. IsHistory'
  BY <1>8, HistoryStays DEF Prepare, db, CatInv, Successes
<1>10. intent'[cur].entries = E /\ intent'[cur].version = v /\ ~Open(cur)'
  BY <1>1 DEF Prepare, Typed, Open
<1>11. \A s \in Syncs : ~Open(s)'
  BY <1>1, <1>10 DEF Prepare, Typed, Open
<1>12. Catalog \in E
  BY ConstantsAssumption DEF Prepare
<1>13. NextCatalog'
  BY <1>7, <1>8, <1>10, <1>12 DEF NextCatalog, Prepare, db, Appended
<1>14. Working
  BY DEF Prepare, Working, Running
<1> QED BY <1>1, <1>7, <1>9, <1>11, <1>13, <1>14
        DEF CatInv, OpenCatalogs, Prepare, db, hist, Slot

\* The commit makes the pending catalog the recorded one.
LEMMA CommitCat ==
  ASSUME Typed, CatInv, FilesInv, RunInv, pc = "commit", CommitRows, pc' \in {"cleanup", "handler"},
         ret' = "down" \/ pc' = "handler", UNCHANGED <<chain, intent, cur>>
  PROVE  CatInv'
<1> USE SyncsAre
<1>1. cur \in Syncs /\ NextCatalog
  BY DEF Typed, Running, CatInv, Pending
<1>2. Slot(Catalog, cur) = Slot(Catalog, 0) /\ Slot(Catalog, 0) \in Slots
  BY ConstantsAssumption DEF Slot, Slots
<1>3. truth'[Slot(Catalog, 0)] = cur
  BY <1>1, <1>2 DEF CommitRows, NextCatalog
<1>4. Recorded' = chain[cur] /\ active' = cur /\ version' = intent[cur].version
  BY <1>1 DEF CommitRows, Recorded
<1>5. Successes' = Successes \cup {cur}
  BY <1>1 DEF CommitRows, Successes, Typed
<1>6. /\ Continuous(chain[cur]) /\ EndsIn(chain[cur], cur, intent[cur].version)
      /\ SyncsOf(chain[cur]) = Successes \cup {cur}
  BY <1>1, NextFacts
<1>7. IsHistory'
  BY <1>1, <1>4, <1>5, <1>6 DEF IsHistory, EndsIn, SyncsOf, Continuous
<1>8. OpenCatalogs'
  BY DEF CatInv, OpenCatalogs, Continuous, Open
<1> QED BY <1>3, <1>4, <1>7, <1>8 DEF CatInv, Pending, Slot

---------------------------------------------------------------------------
(* The invariant.                                                          *)

LEMMA CatNext ==
  ASSUME Typed, FilesInv, RunInv, CatInv, [Next]_vars, ~undone'
  PROVE  CatInv'
<1> USE SyncsAre DEF InSession
<1>1. CASE UNCHANGED vars
  BY <1>1, CatalogsStay DEF vars, db, disk, run, hist, Open, Pending, Working
<1>2. CASE Start \/ RecoverIntent \/ RemoveOrphans
  BY <1>2, CatalogsStay DEF Start, RecoverIntent, Session, RemoveOrphans, db, disk, hist, Open,
     Pending, Working, Running
<1>3. CASE FailIncompleteRuns \/ \E s \in Syncs : StartRun(s)
  BY <1>3, RunsMove DEF FailIncompleteRuns, StartRun, Typed, disk, hist, Pending, Working, Running
<1>4. CASE \E E \in SUBSET Files, v \in {version, version + 1} : Prepare(E, v)
  BY <1>4, PrepareCat
<1>5. CASE WriteIntent \/ IntentWriteRaisesLate
  BY <1>5, IntentOpens DEF WriteIntent, IntentWriteRaisesLate, Session, db, hist
<1>6. CASE PrepareFails
  BY <1>6, CatalogsStay DEF PrepareFails, Typed, Running, db, hist, Open, NoIntent, Pending, Working
<1>7. CASE RecordFailed
  <2>1. cur \in Syncs /\ runs[cur] # "success"
    BY <1>7 DEF RecordFailed, Typed, Running, CatInv, Working, RunInv
  <2> QED BY <1>7, <2>1, RunsMove DEF RecordFailed, Typed, disk, hist, Pending, Working, Running
<1>8. CASE FailureNotRecorded \/ TransactionFails \/ HandleError \/ HandleErrorBlind
  BY <1>8, CatalogsStay DEF FailureNotRecorded, TransactionFails, HandleError, HandleErrorBlind,
     Session, db, disk, hist, Open, Pending, Working, Running
<1>9. CASE \E f \in Files : \/ MoveToBackup(f) \/ MoveToTarget(f) \/ RemoveTarget(f)
                            \/ RestoreBackup(f) \/ KeepTarget(f) \/ RemoveBackup(f)
  BY <1>9, CatalogsStay DEF MoveToBackup, MoveToTarget, RemoveTarget, RestoreBackup, KeepTarget,
     RemoveBackup, db, disk, run, hist, Open, Pending, Working, Running
<1>10. CASE MarkPublished
  BY <1>10, CatalogsStay DEF MarkPublished, RunInv, Typed, db, hist, Open, Pending, Working, Running
<1>11. CASE CommitTransaction \/ CommitRaisesLate
  BY <1>11, CommitCat DEF CommitTransaction, CommitRaisesLate, Session, disk
<1>12. CASE RemoveStaging \/ UnlinkIntent
  BY <1>12, CatalogsStay DEF RemoveStaging, UnlinkIntent, Typed, RunInv, db, run, hist, Open, NoIntent,
     Pending, Working, Running
<1>13. CASE SessionFails \/ Crash
  BY <1>13, CatalogsStay DEF SessionFails, Crash, Typed, RunInv, db, disk, hist, Open, NoIntent, Pending,
     Working, Running
<1> QED BY <1>1, <1>2, <1>3, <1>4, <1>5, <1>6, <1>7, <1>8, <1>9, <1>10, <1>11, <1>12, <1>13
        DEF Next, Step

LEMMA CatInvariant == Spec => [](~undone => CatInv)
<1>1. Init => (~undone => CatInv)
  BY InitCat
<1>2. PubInv /\ (~undone => CatInv) /\ [Next]_vars => (~undone => CatInv)'
  <2> SUFFICES ASSUME PubInv, ~undone => CatInv, [Next]_vars, ~undone' PROVE CatInv'
    OBVIOUS
  <2>1. ~undone
    BY UndoneStays DEF PubInv
  <2> QED BY <2>1, CatNext DEF PubInv
<1> QED BY <1>1, <1>2, PubInvariant, PTL DEF Spec

\* At any time the catalog is a continuous chain; with no publication open it
\* lists exactly the committed runs, up to library_state.
THEOREM CatalogTellsHistory == Spec => []CatalogIsHistory
<1>1. PubInv /\ (~undone => CatInv) => CatalogIsHistory
  <2> SUFFICES ASSUME PubInv, CatInv, ~undone
               PROVE  /\ Continuous(CatalogFile)
                      /\ (\A s \in Syncs : ~Open(s)) /\ active # 0 =>
                            /\ SyncsOf(CatalogFile) = Successes
                            /\ EndsIn(CatalogFile, active, version)
    BY DEF CatalogIsHistory, SyncsOf, Successes, EndsIn
  <2> DEFINE k == target[Slot(Catalog, 0)]
  <2>1. Catalog \in Files /\ \A s \in 0 .. MaxSyncs : Slot(Catalog, s) = <<Catalog, 0>>
    BY ConstantsAssumption DEF Slot
  <2>2. k = active => CatalogFile = Recorded
    BY DEF CatalogFile, Recorded
  <2>3. ASSUME \A s \in Syncs : ~Open(s) PROVE k = active
    BY <2>1, <2>3, SyncsAre, NothingOpen DEF PubInv, CatInv
  <2>4. Continuous(CatalogFile)
    <3>1. CASE \A s \in Syncs : ~Open(s)
      BY <2>2, <2>3, <3>1 DEF CatInv, IsHistory
    <3>2. ASSUME NEW s \in Syncs, Open(s) PROVE Continuous(CatalogFile)
      <4>1. Catalog \in intent[s].entries /\ Continuous(chain[s])
        BY <3>2 DEF CatInv, OpenCatalogs
      <4>2. k = active \/ k = 0 \/ k = s
        BY <2>1, <3>2, <4>1, SyncsAre
           DEF PubInv, FilesInv, Decided, Undecided, Kept, Aside, Replaced, At, Was, CatInv
      <4>3. CASE k = s
        BY <4>1, <4>3, SyncsAre DEF CatalogFile
      <4>4. CASE k = 0
        BY <4>4 DEF CatalogFile, Continuous
      <4> QED BY <2>2, <4>2, <4>3, <4>4 DEF CatInv, IsHistory
    <3> QED BY <3>1, <3>2
  <2> QED BY <2>2, <2>3, <2>4 DEF CatInv, IsHistory
<1> QED BY <1>1, PubInvariant, CatInvariant, PTL
=============================================================================
