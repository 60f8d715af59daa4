------------------------ MODULE WritingMaterialProofs -------------------------
(***************************************************************************)
(* Theorems of WritingExtraction and WritingReview.                        *)
(*                                                                         *)
(* What the rows and manifests of an extraction say is in the files of their*)
(* run, was made from the sources the run selected, and a success is complete,*)
(* for any number of documents, runs, source versions and configurations, and*)
(* however often a command dies.  What a marked snapshot, a candidate index and*)
(* a receipt say is the reviewed state, and a crash outside the two named  *)
(* windows costs nothing, for any number of events and crashes.            *)
(***************************************************************************)
EXTENDS WritingExtraction, WritingReview, FiniteSetTheorems, SequenceTheorems, TLAPS

(* Extraction.                                                             *)

Versions == Docs \X Nat
Assets == [evs : SUBSET Versions, mats : SUBSET Versions,
           fails : SUBSET (Docs \X {"planning", "execution"})]
Selections == UNION {[S -> Nat] : S \in SUBSET Docs}
Rows == [src : Nat, bundle : Nat, status : {"success", "partial", "failed", "inactive"},
         run : XRuns]
Commands ==
  [kind : {"dry", "fixture", "pilot"}, run : XRuns, sel : Selections, bundle : Nat,
   retry : BOOLEAN, resumed : BOOLEAN, toLoad : SUBSET Docs, lost : SUBSET Docs,
   plan : SUBSET Versions, doc : Nat \X Nat, res : {"ok", "rejects", "nothing", "abstract"},
   status : {"running", "success", "partial"}, after : {"next", "record", "done"}]

\* The steps of a checkpoint, and of a command that has its run directory.
Checkpointing == {"evidence", "assets", "manifest"}
Underway == Checkpointing \cup {"next", "record", "done"}

ExtractTyped ==
  /\ src \in [Docs -> Nat] /\ bundle \in Nat
  /\ row \in [Docs -> {Absent} \cup Rows]
  /\ files \in [XRuns -> {Absent} \cup Assets]
  /\ manifest \in [XRuns -> {Absent} \cup
                     [status : {"running", "success", "partial"}, sel : Selections,
                      bundle : Nat, kind : {"fixture", "pilot"}, assets : Assets]]
  /\ xpc \in {"idle", "plan"} \cup Underway
  /\ xpc # "idle" => cmd \in Commands /\ mem \in Assets

Within(a, b) == a.evs \subseteq b.evs /\ a.mats \subseteq b.mats /\ a.fails \subseteq b.fails

\* Without a failure every evidence has its material.
Balanced(a) == a.fails = {} => a.evs = a.mats

\* Made from the source versions that a selection pins.
MadeFrom(pairs, sel) == \A p \in pairs : p[1] \in DOMAIN sel /\ p[2] = sel[p[1]]

\* A manifest names files that exist, and its own failures decide its verdict.
StoreInv ==
  \A r \in XRuns : manifest[r] # Absent =>
    /\ files[r] # Absent /\ Within(manifest[r].assets, files[r])
    /\ Balanced(manifest[r].assets)
    /\ manifest[r].status = "success" => manifest[r].assets.fails = {}
    /\ r \notin drifted => MadeFrom(manifest[r].assets.evs, manifest[r].sel)

\* A command that plans starts from nothing or from what its run committed.
PlanInv ==
  xpc = "plan" =>
    /\ IF cmd.resumed THEN manifest[cmd.run] # Absent /\ mem = manifest[cmd.run].assets
                                                       /\ mem = files[cmd.run]
       ELSE manifest[cmd.run] = Absent /\ mem = NoAssets
    /\ cmd.kind = "dry" => ~cmd.resumed
    /\ cmd.after = "next"
    /\ cmd.toLoad \subseteq DOMAIN cmd.sel
    /\ cmd.kind # "dry" /\ cmd.run \notin drifted =>
         \A d \in cmd.toLoad : src[d] = cmd.sel[d]

\* Later it holds in memory whatever its run has on disk.
MemoryInv ==
  xpc \in Underway =>
    /\ cmd.kind # "dry"
    /\ files[cmd.run] # Absent /\ Within(files[cmd.run], mem)
    /\ xpc \in {"assets", "manifest"} => files[cmd.run].evs = mem.evs
    /\ xpc = "manifest" => files[cmd.run] = mem
    /\ xpc \in {"next", "record", "done"} => cmd.after = xpc

CommandInv ==
  xpc # "idle" =>
    /\ Balanced(mem)
    /\ manifest[cmd.run] # Absent => manifest[cmd.run].sel = cmd.sel
    /\ cmd.after # "done" => cmd.status = "running"
    /\ cmd.status = "success" => mem.fails = {}
    /\ cmd.kind # "dry" /\ cmd.run \notin drifted =>
         MadeFrom(mem.evs, cmd.sel) /\ MadeFrom(cmd.plan, cmd.sel)

\* The document just processed is in memory, and in the manifest before its row.
DocumentInv ==
  xpc \in Checkpointing \cup {"record"} /\ cmd.after = "record" =>
    /\ cmd.doc \in Versions
    /\ cmd.res \in {"ok", "rejects"} => cmd.doc \in mem.evs \cap mem.mats
    /\ xpc = "record" => /\ manifest[cmd.run] # Absent
                         /\ manifest[cmd.run].assets = mem

ExtractInv ==
  /\ ExtractTyped /\ StoreInv /\ PlanInv /\ MemoryInv /\ CommandInv /\ DocumentInv
  /\ RecordedIsCheckpointed

---------------------------------------------------------------------------
(* Data.                                                                   *)

LEMMA LeastExists ==
  ASSUME NEW S \in SUBSET Nat, S # {}
  PROVE  \E x \in S : \A y \in S : x <= y
<1> DEFINE T == {0..x : x \in S}
<1>1. T \subseteq FiniteSubsetsOf(Nat) /\ T # {}
  <2>1. \A x \in S : IsFiniteSet(0..x) /\ 0..x \in SUBSET Nat
    BY FS_Interval
  <2> QED BY <2>1 DEF FiniteSubsetsOf
<1>2. PICK t \in T : \A u \in T : <<u, t>> \notin StrictSubsetOrdering(Nat)
  BY <1>1, FS_StrictSubsetOrderingWellFounded, WFMin
<1>3. PICK x \in S : t = 0..x
  BY <1>2
<1>4. ASSUME NEW y \in S, y < x PROVE FALSE
  <2>1. 0..y \subseteq t /\ 0..y # t /\ 0..y \in T /\ x \in t /\ x \notin 0..y
    BY <1>3, <1>4
  <2>2. 0..y \in SUBSET Nat /\ t \in SUBSET Nat
    BY <1>3
  <2>3. <<0..y, t>> \in StrictSubsetOrdering(Nat)
    BY <2>1, <2>2 DEF StrictSubsetOrdering
  <2> QED BY <2>1, <2>3, <1>2
<1> QED BY <1>4

\* The documents are planned and handled in their order.
LEMMA NextToLoadIsToLoad ==
  ASSUME cmd.toLoad \in SUBSET Docs, cmd.toLoad # {} PROVE NextToLoad \in cmd.toLoad
<1>1. cmd.toLoad \in SUBSET Nat
  BY ExtractionConstants DEF Docs
<1> QED BY <1>1, LeastExists DEF NextToLoad

LEMMA FirstPlannedIsPlanned ==
  ASSUME cmd.plan \in SUBSET Versions, cmd.plan # {} PROVE FirstPlanned \in cmd.plan
<1> DEFINE S == {p[1] : p \in cmd.plan}
<1>1. S \in SUBSET Nat /\ S # {}
  BY ExtractionConstants DEF Versions, Docs
<1>2. PICK x \in S : \A y \in S : x <= y
  BY <1>1, LeastExists
<1>3. \E p \in cmd.plan : \A q \in cmd.plan : p[1] <= q[1]
  BY <1>2
<1> QED BY <1>3 DEF FirstPlanned

LEMMA FreshRunIsFresh ==
  ASSUME FreshRuns # {}
  PROVE  (CHOOSE r \in FreshRuns : \A q \in FreshRuns : r <= q) \in FreshRuns
<1>1. FreshRuns \in SUBSET Nat
  BY ExtractionConstants DEF FreshRuns, XRuns
<1> QED BY <1>1, LeastExists

LEMMA AssetsExist == \A a \in Assets : a # Absent
<1> SUFFICES ASSUME NEW a \in Assets PROVE a # Absent
  OBVIOUS
<1>1. "evs" \in DOMAIN a /\ "evs" \notin DOMAIN Absent
  BY DEF Assets, Absent
<1> QED BY <1>1

LEMMA WithinOrder ==
  ASSUME NEW a \in Assets, NEW b \in Assets, NEW c \in Assets
  PROVE  /\ Within(a, a)
         /\ Within(a, b) /\ Within(b, c) => Within(a, c)
         /\ a.evs = b.evs /\ a.mats = b.mats /\ a.fails = b.fails => a = b
  BY DEF Within, Assets

LEMMA NoAssetsTyped == NoAssets \in Assets /\ Balanced(NoAssets) /\ NoAssets.evs = {}
  BY DEF NoAssets, Assets, Balanced

---------------------------------------------------------------------------
(* What a step leaves alone.                                               *)

LEMMA StoreKept ==
  ASSUME ExtractInv, UNCHANGED <<files, manifest, row>>, drifted \subseteq drifted'
  PROVE  StoreInv' /\ RecordedIsCheckpointed'
  BY DEF ExtractInv, StoreInv, RecordedIsCheckpointed, Within, Balanced

\* A command that is over, or died, leaves only its files.
LEMMA GoesIdle ==
  ASSUME ExtractInv, xpc' = "idle", src' \in [Docs -> Nat], bundle' \in Nat,
         UNCHANGED <<files, manifest, row>>, drifted \subseteq drifted'
  PROVE  ExtractInv'
<1>1. StoreInv' /\ RecordedIsCheckpointed'
  BY StoreKept
<1>2. ExtractTyped'
  BY DEF ExtractInv, ExtractTyped
<1> QED BY <1>1, <1>2 DEF ExtractInv, PlanInv, MemoryInv, CommandInv, DocumentInv, Underway,
             Checkpointing

LEMMA Unaffected ==
  ASSUME ExtractInv, UNCHANGED <<src, bundle, runVars, xpc, cmd, mem, drifted>>
  PROVE  ExtractInv'
<1>1. StoreInv' /\ RecordedIsCheckpointed'
  BY StoreKept DEF runVars
<1>2. ExtractTyped' /\ PlanInv' /\ MemoryInv' /\ CommandInv' /\ DocumentInv'
  BY DEF runVars, ExtractInv, ExtractTyped, PlanInv, MemoryInv, CommandInv, DocumentInv, Within, Balanced, MadeFrom
<1> QED BY <1>1, <1>2 DEF ExtractInv

---------------------------------------------------------------------------
(* Around the command.                                                     *)

\* A source that moves after it was selected and before it is loaded is what
\* `drifted` remembers.
LEMMA SourceMovesStep ==
  ASSUME ExtractInv, NEW d \in Docs, NEW v \in 0..MaxSrc, SourceMoves(d, v) PROVE ExtractInv'
<1>1. src' = [src EXCEPT ![d] = v] /\ xpc \in {"idle", "plan"}
      /\ drifted' = (IF xpc = "plan" /\ cmd.kind # "dry" /\ d \in cmd.toLoad
                     THEN drifted \cup {cmd.run} ELSE drifted)
      /\ UNCHANGED <<bundle, files, manifest, row, xpc, cmd, mem>>
  BY DEF SourceMoves, Observable, runVars
<1>2. v \in Nat /\ src' \in [Docs -> Nat] /\ drifted \subseteq drifted'
  BY <1>1, ExtractionConstants DEF ExtractInv, ExtractTyped
<1>3. CASE xpc = "idle"
  <2>1. xpc' = "idle" /\ bundle' \in Nat
    BY <1>1, <1>3 DEF ExtractInv, ExtractTyped
  <2> QED BY <1>1, <1>2, <2>1, GoesIdle
<1>4. CASE xpc = "plan"
  <2>1. StoreInv' /\ RecordedIsCheckpointed'
    BY <1>1, <1>2, StoreKept
  <2>2. ExtractTyped'
    BY <1>1, <1>2 DEF ExtractInv, ExtractTyped
  <2>3. ASSUME cmd.kind # "dry", cmd.run \notin drifted', NEW e \in cmd.toLoad
        PROVE  src'[e] = cmd.sel[e]
    BY <1>1, <1>4, <2>3 DEF ExtractInv, PlanInv, ExtractTyped, Commands
  <2>4. PlanInv'
    BY <1>1, <1>4, <2>3 DEF ExtractInv, PlanInv
  <2>5. MemoryInv' /\ CommandInv' /\ DocumentInv'
    BY <1>1, <1>2, <1>4 DEF ExtractInv, MemoryInv, CommandInv, DocumentInv, Underway, Checkpointing,
         Balanced, MadeFrom
  <2> QED BY <2>1, <2>2, <2>4, <2>5 DEF ExtractInv
<1> QED BY <1>1, <1>3, <1>4

LEMMA SelectionTyped == ASSUME ExtractTyped, NEW S \in SUBSET Docs PROVE Pinned(S) \in Selections
  BY DEF ExtractTyped, Pinned, Selections

LEMMA ExtractNewStep ==
  ASSUME ExtractInv, NEW S \in SUBSET Docs, NEW kind \in {"dry", "fixture", "pilot"},
         NEW retry \in BOOLEAN, ExtractNew(S, kind, retry)
  PROVE  ExtractInv'
<1> DEFINE r == CHOOSE q \in FreshRuns : \A p \in FreshRuns : q <= p
<1>1. cmd' = [kind |-> kind, run |-> r, sel |-> Pinned(S), bundle |-> bundle, retry |-> retry,
              resumed |-> FALSE, toLoad |-> S, lost |-> {}, plan |-> {}, doc |-> <<1, 1>>,
              res |-> "ok", status |-> "running", after |-> "next"]
      /\ mem' = NoAssets /\ xpc' = "plan" /\ FreshRuns # {}
      /\ UNCHANGED <<src, bundle, files, manifest, row, drifted>>
  BY DEF ExtractNew, NoCmd, outsideVars, runVars, historyVars
<1>2. r \in XRuns /\ files[r] = Absent
  BY <1>1, FreshRunIsFresh DEF FreshRuns
<1> HIDE DEF r
<1>3. manifest[r] = Absent
  BY <1>2 DEF ExtractInv, StoreInv
<1>4. cmd' \in Commands
  BY <1>1, <1>2, SelectionTyped DEF Commands, ExtractInv, ExtractTyped, Underway
<1>5. ExtractTyped'
  BY <1>1, <1>4, NoAssetsTyped DEF ExtractInv, ExtractTyped
<1>6. StoreInv' /\ RecordedIsCheckpointed'
  BY <1>1, StoreKept
<1>7. PlanInv'
  BY <1>1, <1>3 DEF PlanInv, Pinned
<1>8. MemoryInv' /\ CommandInv' /\ DocumentInv'
  BY <1>1, <1>3, NoAssetsTyped
     DEF MemoryInv, CommandInv, DocumentInv, Underway, Checkpointing, MadeFrom, Balanced
<1> QED BY <1>5, <1>6, <1>7, <1>8 DEF ExtractInv

\* A resumed command starts from what its manifest committed.
LEMMA ExtractResumeStep ==
  ASSUME ExtractInv, NEW r \in XRuns, ExtractResume(r) PROVE ExtractInv'
<1>1. cmd' = [kind |-> manifest[r].kind, run |-> r, sel |-> manifest[r].sel, bundle |-> bundle,
              retry |-> FALSE, resumed |-> TRUE, toLoad |-> DOMAIN manifest[r].sel, lost |-> {},
              plan |-> {}, doc |-> <<1, 1>>, res |-> "ok", status |-> "running", after |-> "next"]
      /\ mem' = files[r] /\ xpc' = "plan" /\ Resumable(r)
      /\ UNCHANGED <<src, bundle, files, manifest, row, drifted>>
  BY DEF ExtractResume, LoadedAssets, NoCmd, outsideVars, runVars, historyVars
<1>2. manifest[r] # Absent /\ files[r] = manifest[r].assets
      /\ \A d \in DOMAIN manifest[r].sel : src[d] = manifest[r].sel[d]
  BY <1>1 DEF Resumable, CheckpointVerified
<1>3. manifest[r].assets \in Assets /\ manifest[r].sel \in Selections
      /\ manifest[r].kind \in {"fixture", "pilot"} /\ DOMAIN manifest[r].sel \in SUBSET Docs
  BY <1>2 DEF ExtractInv, ExtractTyped, Selections
<1>4. cmd' \in Commands
  BY <1>1, <1>3 DEF Commands, ExtractInv, ExtractTyped
<1>5. ExtractTyped'
  BY <1>1, <1>2, <1>3, <1>4 DEF ExtractInv, ExtractTyped
<1>6. StoreInv' /\ RecordedIsCheckpointed'
  BY <1>1, StoreKept
<1>7. PlanInv'
  BY <1>1, <1>2, <1>3 DEF PlanInv
<1>8. MemoryInv' /\ CommandInv' /\ DocumentInv'
  BY <1>1, <1>2 DEF MemoryInv, CommandInv, DocumentInv, Underway, Checkpointing, MadeFrom,
     ExtractInv, StoreInv
<1> QED BY <1>5, <1>6, <1>7, <1>8 DEF ExtractInv

LEMMA PlanDocumentStep ==
  ASSUME ExtractInv, NEW t \in BOOLEAN, PlanDocument(t) PROVE ExtractInv'
<1> DEFINE d == NextToLoad
           skip == \/ Disposition(d) = "unchanged"
                   \/ Disposition(d) = "failed" /\ ~cmd.retry
           unread == src[d] = 0 \/ ~t
<1>1. cmd' = [cmd EXCEPT !.toLoad = @ \ {d}, !.lost = IF unread THEN @ \cup {d} ELSE @,
                         !.plan = IF unread \/ skip THEN @ ELSE @ \cup {<<d, src[d]>>}]
      /\ xpc = "plan" /\ cmd.toLoad # {}
      /\ UNCHANGED <<src, bundle, files, manifest, row, xpc, mem, drifted>>
  BY DEF PlanDocument, outsideVars, runVars
<1>2. cmd \in Commands /\ mem \in Assets
  BY <1>1 DEF ExtractInv, ExtractTyped
<1>3. d \in cmd.toLoad /\ d \in Docs /\ <<d, src[d]>> \in Versions
  BY <1>1, <1>2, NextToLoadIsToLoad DEF Commands, ExtractInv, ExtractTyped, Versions
<1> DEFINE planned == cmd.plan \cup {<<d, src[d]>>}
<1>4. cmd'.plan \in {cmd.plan, planned} /\ cmd'.lost \in {cmd.lost, cmd.lost \cup {d}}
      /\ cmd'.toLoad = cmd.toLoad \ {d}
      /\ cmd'.kind = cmd.kind /\ cmd'.run = cmd.run /\ cmd'.sel = cmd.sel
      /\ cmd'.resumed = cmd.resumed /\ cmd'.status = cmd.status /\ cmd'.after = cmd.after
      /\ cmd' = [cmd EXCEPT !.toLoad = cmd'.toLoad, !.lost = cmd'.lost, !.plan = cmd'.plan]
  BY <1>1, <1>2 DEF Commands
<1> HIDE DEF d, skip, unread
<1>5. cmd' \in Commands
  BY <1>2, <1>3, <1>4 DEF Commands
<1>6. ExtractTyped'
  BY <1>1, <1>2, <1>5 DEF ExtractInv, ExtractTyped
<1>7. StoreInv' /\ RecordedIsCheckpointed'
  BY <1>1, StoreKept
<1>8. PlanInv'
  BY <1>1, <1>4 DEF ExtractInv, PlanInv
<1>9. cmd.kind # "dry" /\ cmd.run \notin drifted => MadeFrom(cmd'.plan, cmd.sel)
  BY <1>1, <1>3, <1>4 DEF ExtractInv, PlanInv, CommandInv, MadeFrom
<1>10. CommandInv'
  BY <1>1, <1>4, <1>9 DEF ExtractInv, CommandInv, Balanced, MadeFrom
<1>11. MemoryInv' /\ DocumentInv'
  BY <1>1 DEF MemoryInv, DocumentInv, Underway, Checkpointing
<1> QED BY <1>6, <1>7, <1>8, <1>10, <1>11 DEF ExtractInv

\* The run directory holds nothing, or what the manifest committed.
LEMMA ExtractBeginStep == ASSUME ExtractInv, ExtractBegin PROVE ExtractInv'
<1>1. xpc = "plan" /\ cmd.kind # "dry" /\ xpc' = "evidence"
      /\ files' = [files EXCEPT ![cmd.run] = IF cmd.resumed THEN files[cmd.run] ELSE NoAssets]
      /\ row' = [e \in Docs |-> Unavailable(e)]
      /\ mem' = [mem EXCEPT !.fails = @ \cup (cmd.lost \X {"planning"})]
      /\ UNCHANGED <<src, bundle, manifest, cmd, drifted>>
  BY DEF ExtractBegin, outsideVars, historyVars
<1>2. cmd \in Commands /\ mem \in Assets
  BY <1>1 DEF ExtractInv, ExtractTyped
<1>3. mem' \in Assets /\ mem'.evs = mem.evs /\ mem'.mats = mem.mats /\ mem.fails \subseteq mem'.fails
  BY <1>1, <1>2 DEF Assets, Commands
<1>4. cmd.run \in XRuns /\ files[cmd.run] \in {Absent} \cup Assets
      /\ (manifest[cmd.run] # Absent => cmd.resumed)
  BY <1>1, <1>2 DEF ExtractInv, PlanInv, ExtractTyped, Commands
<1>5. files'[cmd.run] \in Assets /\ Within(files'[cmd.run], mem')
      /\ (manifest[cmd.run] # Absent => files'[cmd.run] = files[cmd.run])
  <2>1. files'[cmd.run] = (IF cmd.resumed THEN files[cmd.run] ELSE NoAssets)
    BY <1>1, <1>4 DEF ExtractInv, ExtractTyped
  <2>2. CASE cmd.resumed
    BY <1>1, <1>2, <1>3, <2>1, <2>2 DEF ExtractInv, PlanInv, Within
  <2>3. CASE ~cmd.resumed
    <3>1. manifest[cmd.run] = Absent /\ files'[cmd.run] = NoAssets
      BY <1>1, <2>1, <2>3 DEF ExtractInv, PlanInv
    <3> QED BY <3>1, NoAssetsTyped DEF Within, NoAssets
  <2>4. cmd.resumed \in BOOLEAN
    BY <1>2 DEF Commands
  <2> QED BY <2>2, <2>3, <2>4
<1>6. \A r \in XRuns : manifest[r] # Absent => files'[r] = files[r]
  BY <1>1, <1>4, <1>5 DEF ExtractInv, ExtractTyped
<1>7. \A e \in Docs : /\ row'[e] \in {Absent} \cup Rows
                      /\ row'[e] # Absent /\ row'[e].status \in {"success", "partial"} =>
                           row'[e] = row[e]
  <2> SUFFICES ASSUME NEW e \in Docs
               PROVE  /\ row'[e] \in {Absent} \cup Rows
                      /\ row'[e] # Absent /\ row'[e].status \in {"success", "partial"} =>
                           row'[e] = row[e]
    OBVIOUS
  <2>1. row'[e] = Unavailable(e) /\ row[e] \in {Absent} \cup Rows /\ cmd.run \in XRuns
    BY <1>1, <1>4 DEF ExtractInv, ExtractTyped
  <2>2. CASE e \in cmd.lost /\ row[e] # Absent
    <3>1. row'[e] = [row[e] EXCEPT !.status = "inactive", !.run = cmd.run] /\ row[e] \in Rows
      BY <2>1, <2>2 DEF Unavailable
    <3>2. row'[e] \in Rows /\ row'[e].status = "inactive"
      BY <2>1, <3>1 DEF Rows
    <3> QED BY <3>2
  <2>3. CASE ~(e \in cmd.lost /\ row[e] # Absent)
    BY <2>1, <2>3 DEF Unavailable
  <2> QED BY <2>2, <2>3
<1>8. ExtractTyped'
  BY <1>1, <1>2, <1>3, <1>4, <1>5, <1>7 DEF ExtractInv, ExtractTyped, Underway, Checkpointing
<1>9. StoreInv'
  BY <1>1, <1>6 DEF ExtractInv, StoreInv, Within, Balanced
<1>10. RecordedIsCheckpointed'
  BY <1>1, <1>7 DEF ExtractInv, RecordedIsCheckpointed
<1>11. PlanInv' /\ MemoryInv'
  BY <1>1, <1>2, <1>5, AssetsExist DEF ExtractInv, PlanInv, MemoryInv, Underway, Checkpointing
<1>12. CommandInv'
  BY <1>1, <1>3 DEF ExtractInv, PlanInv, CommandInv, Balanced, MadeFrom
<1>13. DocumentInv'
  BY <1>1 DEF ExtractInv, PlanInv, DocumentInv
<1> QED BY <1>8, <1>9, <1>10, <1>11, <1>12, <1>13 DEF ExtractInv

---------------------------------------------------------------------------
(* The checkpoint.                                                         *)

\* What a step of the checkpoint starts from.
LEMMA CheckpointFacts ==
  ASSUME ExtractInv, xpc \in Underway
  PROVE  /\ cmd \in Commands /\ mem \in Assets /\ cmd.run \in XRuns /\ cmd.kind # "dry"
         /\ files[cmd.run] \in Assets /\ Within(files[cmd.run], mem)
  BY DEF ExtractInv, ExtractTyped, MemoryInv, Commands, Underway, Checkpointing

LEMMA WriteEvidenceStep == ASSUME ExtractInv, WriteEvidence PROVE ExtractInv'
<1> DEFINE r == cmd.run
           f == [files[r] EXCEPT !.evs = mem.evs]
<1>1. xpc = "evidence" /\ xpc' = "assets" /\ files' = [files EXCEPT ![r] = f]
      /\ UNCHANGED <<src, bundle, manifest, row, cmd, mem, drifted>>
  BY DEF WriteEvidence, outsideVars, historyVars
<1>2. cmd \in Commands /\ mem \in Assets /\ r \in XRuns /\ cmd.kind # "dry"
      /\ files[r] \in Assets /\ Within(files[r], mem)
  BY <1>1, CheckpointFacts DEF Underway, Checkpointing
<1>3. f \in Assets /\ Within(files[r], f) /\ Within(f, mem) /\ f.evs = mem.evs
  BY <1>2 DEF Assets, Within
<1>4. files'[r] = f /\ \A q \in XRuns \ {r} : files'[q] = files[q]
  BY <1>1, <1>2 DEF ExtractInv, ExtractTyped
<1> HIDE DEF f
<1>5. ExtractTyped'
  BY <1>1, <1>2, <1>3 DEF ExtractInv, ExtractTyped, Underway, Checkpointing
<1>6. StoreInv'
  BY <1>1, <1>2, <1>3, <1>4, AssetsExist DEF ExtractInv, StoreInv, Within, Balanced
<1>7. RecordedIsCheckpointed'
  BY <1>1 DEF ExtractInv, RecordedIsCheckpointed
<1>8. PlanInv' /\ MemoryInv'
  BY <1>1, <1>2, <1>3, <1>4, AssetsExist DEF PlanInv, MemoryInv, Underway, Checkpointing
<1>9. CommandInv' /\ DocumentInv'
  BY <1>1 DEF ExtractInv, CommandInv, DocumentInv, Checkpointing, Balanced, MadeFrom
<1> QED BY <1>5, <1>6, <1>7, <1>8, <1>9 DEF ExtractInv

LEMMA WriteAssetsStep == ASSUME ExtractInv, WriteAssets PROVE ExtractInv'
<1> DEFINE r == cmd.run
           f == [files[r] EXCEPT !.mats = mem.mats, !.fails = mem.fails]
<1>1. xpc = "assets" /\ xpc' = "manifest" /\ files' = [files EXCEPT ![r] = f]
      /\ UNCHANGED <<src, bundle, manifest, row, cmd, mem, drifted>>
  BY DEF WriteAssets, outsideVars, historyVars
<1>2. cmd \in Commands /\ mem \in Assets /\ r \in XRuns /\ cmd.kind # "dry"
      /\ files[r] \in Assets /\ Within(files[r], mem) /\ files[r].evs = mem.evs
  BY <1>1, CheckpointFacts DEF Underway, Checkpointing, ExtractInv, MemoryInv
<1>3. f \in Assets /\ Within(files[r], f) /\ f = mem
  BY <1>2 DEF Assets, Within
<1>4. files'[r] = f /\ \A q \in XRuns \ {r} : files'[q] = files[q]
  BY <1>1, <1>2 DEF ExtractInv, ExtractTyped
<1> HIDE DEF f
<1>5. ExtractTyped'
  BY <1>1, <1>2, <1>3 DEF ExtractInv, ExtractTyped, Underway, Checkpointing
<1>6. StoreInv'
  BY <1>1, <1>2, <1>3, <1>4, AssetsExist DEF ExtractInv, StoreInv, Within, Balanced
<1>7. RecordedIsCheckpointed'
  BY <1>1 DEF ExtractInv, RecordedIsCheckpointed
<1>8. PlanInv' /\ MemoryInv'
  BY <1>1, <1>2, <1>3, <1>4, AssetsExist DEF PlanInv, MemoryInv, Underway, Checkpointing, Within
<1>9. CommandInv' /\ DocumentInv'
  BY <1>1 DEF ExtractInv, CommandInv, DocumentInv, Checkpointing, Balanced, MadeFrom
<1> QED BY <1>5, <1>6, <1>7, <1>8, <1>9 DEF ExtractInv

\* The marker takes over what the files hold, which is what is in memory.
LEMMA WriteManifestStep == ASSUME ExtractInv, WriteManifest PROVE ExtractInv'
<1> DEFINE r == cmd.run
           m == Marker(mem)
<1>1. xpc = "manifest" /\ xpc' = cmd.after
      /\ manifest' = [manifest EXCEPT ![r] = Marker(files[r])]
      /\ UNCHANGED <<src, bundle, files, row, cmd, mem, drifted>>
  BY DEF WriteManifest, outsideVars, historyVars
<1>2. cmd \in Commands /\ mem \in Assets /\ r \in XRuns /\ cmd.kind # "dry" /\ files[r] = mem
  BY <1>1, CheckpointFacts DEF Underway, Checkpointing, ExtractInv, MemoryInv
<1>3. manifest'[r] = m /\ \A q \in XRuns \ {r} : manifest'[q] = manifest[q]
  BY <1>1, <1>2 DEF ExtractInv, ExtractTyped
<1>4. m.assets = mem /\ m.sel = cmd.sel /\ m.status = cmd.status
      /\ m \in [status : {"running", "success", "partial"}, sel : Selections,
                bundle : Nat, kind : {"fixture", "pilot"}, assets : Assets]
  BY <1>2 DEF Marker, Commands
<1>5. m # Absent
  <2>1. "sel" \in DOMAIN m /\ "sel" \notin DOMAIN Absent
    BY DEF Marker, Absent
  <2> QED BY <2>1
<1>6. cmd.after \in {"next", "record", "done"}
  BY <1>2 DEF Commands
<1>7. mem.evs \subseteq mem.evs \cup mem.mats /\ Balanced(mem)
      /\ (manifest[r] # Absent => Within(manifest[r].assets, mem) /\ manifest[r].sel = cmd.sel)
  BY <1>1, <1>2 DEF ExtractInv, CommandInv, StoreInv
<1> HIDE DEF m
<1>8. ExtractTyped'
  BY <1>1, <1>2, <1>3, <1>4, <1>6 DEF ExtractInv, ExtractTyped, Underway
<1>9. StoreInv'
  BY <1>1, <1>2, <1>3, <1>4, <1>7, AssetsExist
     DEF ExtractInv, StoreInv, CommandInv, Within, Balanced, MadeFrom
<1>10. RecordedIsCheckpointed'
  BY <1>1, <1>3, <1>4, <1>5, <1>7 DEF ExtractInv, ExtractTyped, RecordedIsCheckpointed, Rows, Within
<1>11. PlanInv' /\ MemoryInv'
  BY <1>1, <1>2, <1>6 DEF ExtractInv, PlanInv, MemoryInv, Underway, Checkpointing
<1>12. CommandInv'
  BY <1>1, <1>2, <1>3, <1>4 DEF ExtractInv, CommandInv, Balanced, MadeFrom
<1>13. DocumentInv'
  BY <1>1, <1>3, <1>4, <1>5, <1>6 DEF ExtractInv, DocumentInv, Checkpointing
<1> QED BY <1>8, <1>9, <1>10, <1>11, <1>12, <1>13 DEF ExtractInv

---------------------------------------------------------------------------
(* One document, and the end of the command.                               *)

\* The document's evidence and materials join the memory; without a failure
\* both do.
LEMMA AddedGrows ==
  ASSUME mem \in Assets, NEW p \in Versions,
         NEW res \in {"ok", "rejects", "nothing", "abstract"}
  PROVE  LET a == Added(p, res)
         IN  /\ a \in Assets /\ Within(mem, a) /\ a.evs \subseteq mem.evs \cup {p}
             /\ res \in {"ok", "rejects"} => p \in a.evs \cap a.mats
             /\ Balanced(mem) => Balanced(a)
<1> DEFINE a == Added(p, res)
<1>1. p[1] \in Docs
  BY DEF Versions
<1>2. /\ a.evs = mem.evs \cup (IF res \in {"ok", "rejects", "abstract"} THEN {p} ELSE {})
      /\ a.mats = mem.mats \cup (IF res \in {"ok", "rejects"} THEN {p} ELSE {})
      /\ a.fails = mem.fails \cup (IF res = "ok" THEN {} ELSE {<<p[1], "execution">>})
      /\ a = [evs |-> a.evs, mats |-> a.mats, fails |-> a.fails]
  BY DEF Added
<1> HIDE DEF a
<1>3. a \in Assets
  BY <1>1, <1>2 DEF Assets
<1>4. Within(mem, a) /\ a.evs \subseteq mem.evs \cup {p}
  BY <1>2 DEF Within
<1>5. Balanced(mem) => Balanced(a)
  BY <1>2 DEF Balanced
<1> QED BY <1>2, <1>3, <1>4, <1>5 DEF a

LEMMA ProcessDocumentStep ==
  ASSUME ExtractInv, NEW res \in {"ok", "rejects", "nothing", "abstract"}, ProcessDocument(res)
  PROVE  ExtractInv'
<1> DEFINE p == FirstPlanned
           a == Added(p, res)
<1>1. xpc = "next" /\ cmd.plan # {} /\ mem' = a /\ xpc' = "evidence"
      /\ cmd' = [cmd EXCEPT !.plan = @ \ {p}, !.doc = p, !.res = res, !.after = "record"]
      /\ UNCHANGED <<src, bundle, files, manifest, row, drifted>>
  BY DEF ProcessDocument, outsideVars, runVars
<1>2. cmd \in Commands /\ mem \in Assets /\ cmd.run \in XRuns /\ cmd.kind # "dry"
      /\ files[cmd.run] \in Assets /\ Within(files[cmd.run], mem) /\ cmd.after = "next"
  BY <1>1, CheckpointFacts DEF Underway, ExtractInv, MemoryInv
<1>3. p \in cmd.plan /\ p \in Versions
  BY <1>1, <1>2, FirstPlannedIsPlanned DEF Commands
<1>4. a \in Assets /\ Within(mem, a) /\ a.evs \subseteq mem.evs \cup {p}
      /\ (res \in {"ok", "rejects"} => p \in a.evs \cap a.mats) /\ (Balanced(mem) => Balanced(a))
  BY <1>2, <1>3, AddedGrows
<1> HIDE DEF p, a
<1>5. cmd' \in Commands /\ cmd'.run = cmd.run /\ cmd'.kind = cmd.kind /\ cmd'.sel = cmd.sel
      /\ cmd'.status = cmd.status /\ cmd'.after = "record" /\ cmd'.doc = p /\ cmd'.res = res
      /\ cmd'.plan = cmd.plan \ {p}
  <2>1. p \in Nat \X Nat
    BY <1>3, ExtractionConstants DEF Versions, Docs
  <2> QED BY <1>1, <1>2, <2>1 DEF Commands
<1>6. ExtractTyped'
  BY <1>1, <1>4, <1>5 DEF ExtractInv, ExtractTyped, Underway, Checkpointing
<1>7. StoreInv' /\ RecordedIsCheckpointed'
  BY <1>1, StoreKept
<1>8. PlanInv' /\ MemoryInv'
  BY <1>1, <1>2, <1>4, <1>5, AssetsExist DEF PlanInv, MemoryInv, Underway, Checkpointing, Within
<1>9. cmd.kind # "dry" /\ cmd.run \notin drifted =>
        MadeFrom(mem'.evs, cmd.sel) /\ MadeFrom(cmd'.plan, cmd.sel)
  BY <1>1, <1>3, <1>4, <1>5 DEF ExtractInv, CommandInv, MadeFrom
<1>10. CommandInv'
  BY <1>1, <1>2, <1>4, <1>5, <1>9 DEF ExtractInv, CommandInv
<1>11. DocumentInv'
  BY <1>1, <1>3, <1>4, <1>5 DEF DocumentInv
<1> QED BY <1>6, <1>7, <1>8, <1>10, <1>11 DEF ExtractInv

LEMMA RecordDocumentStep == ASSUME ExtractInv, RecordDocument PROVE ExtractInv'
<1> DEFINE d == cmd.doc[1]
           n == NewRow(cmd.doc, cmd.res)
<1>1. xpc = "record" /\ xpc' = "next" /\ row' = [row EXCEPT ![d] = n]
      /\ cmd' = [cmd EXCEPT !.plan = IF cmd.kind = "pilot" /\ cmd.res # "ok" THEN {} ELSE @,
                            !.doc = NoCmd.doc, !.res = "ok", !.after = "next"]
      /\ UNCHANGED <<src, bundle, files, manifest, mem, drifted>>
  BY DEF RecordDocument, outsideVars, historyVars
<1>2. cmd \in Commands /\ mem \in Assets /\ cmd.run \in XRuns /\ cmd.kind # "dry"
      /\ files[cmd.run] \in Assets /\ Within(files[cmd.run], mem) /\ cmd.after = "record"
  BY <1>1, CheckpointFacts DEF Underway, ExtractInv, MemoryInv
<1>3. cmd.doc \in Versions /\ d \in Docs /\ cmd.doc = <<d, cmd.doc[2]>>
      /\ (cmd.res \in {"ok", "rejects"} => cmd.doc \in mem.evs \cap mem.mats)
      /\ manifest[cmd.run] # Absent /\ manifest[cmd.run].assets = mem
  BY <1>1, <1>2 DEF ExtractInv, DocumentInv, Versions
<1>4. n \in Rows /\ n.run = cmd.run /\ n.src = cmd.doc[2]
      /\ (n.status \in {"success", "partial"} => cmd.res \in {"ok", "rejects"})
  BY <1>2, <1>3 DEF NewRow, RowStatus, Rows, Commands, Versions
<1>5. row'[d] = n /\ \A e \in Docs \ {d} : row'[e] = row[e]
  BY <1>1, <1>3 DEF ExtractInv, ExtractTyped
<1>6. cmd' \in Commands /\ cmd'.run = cmd.run /\ cmd'.kind = cmd.kind /\ cmd'.sel = cmd.sel
      /\ cmd'.status = cmd.status /\ cmd'.after = "next" /\ cmd'.plan \subseteq cmd.plan
  BY <1>1, <1>2 DEF Commands, NoCmd
<1> HIDE DEF n, d
<1>7. ExtractTyped'
  BY <1>1, <1>2, <1>3, <1>4, <1>5, <1>6 DEF ExtractInv, ExtractTyped, Underway
<1>8. StoreInv'
  BY <1>1 DEF ExtractInv, StoreInv, Within, Balanced
<1>9. RecordedIsCheckpointed'
  BY <1>1, <1>3, <1>4, <1>5 DEF ExtractInv, RecordedIsCheckpointed
<1>10. PlanInv' /\ MemoryInv'
  BY <1>1, <1>2, <1>6, AssetsExist DEF PlanInv, MemoryInv, Underway, Checkpointing
<1>11. CommandInv'
  BY <1>1, <1>2, <1>6 DEF ExtractInv, CommandInv, Balanced, MadeFrom
<1>12. DocumentInv'
  BY <1>1 DEF DocumentInv, Checkpointing
<1> QED BY <1>7, <1>8, <1>9, <1>10, <1>11, <1>12 DEF ExtractInv

LEMMA FinishRunStep == ASSUME ExtractInv, FinishRun PROVE ExtractInv'
<1>1. xpc = "next" /\ xpc' = "evidence"
      /\ cmd' = [cmd EXCEPT !.status = IF mem.fails = {} THEN "success" ELSE "partial",
                            !.after = "done"]
      /\ UNCHANGED <<src, bundle, files, manifest, row, mem, drifted>>
  BY DEF FinishRun, outsideVars, runVars, historyVars
<1>2. cmd \in Commands /\ mem \in Assets /\ cmd.run \in XRuns /\ cmd.kind # "dry"
      /\ files[cmd.run] \in Assets /\ Within(files[cmd.run], mem)
  BY <1>1, CheckpointFacts DEF Underway
<1>3. cmd' \in Commands /\ cmd'.run = cmd.run /\ cmd'.kind = cmd.kind /\ cmd'.sel = cmd.sel
      /\ cmd'.status = (IF mem.fails = {} THEN "success" ELSE "partial") /\ cmd'.after = "done"
      /\ cmd'.plan = cmd.plan
  BY <1>1, <1>2 DEF Commands
<1>4. ExtractTyped'
  BY <1>1, <1>2, <1>3 DEF ExtractInv, ExtractTyped, Underway, Checkpointing
<1>5. StoreInv' /\ RecordedIsCheckpointed'
  BY <1>1, StoreKept
<1>6. PlanInv' /\ MemoryInv'
  BY <1>1, <1>2, <1>3, AssetsExist DEF PlanInv, MemoryInv, Underway, Checkpointing, Within
<1>7. CommandInv'
  BY <1>1, <1>3 DEF ExtractInv, CommandInv, Balanced, MadeFrom
<1>8. DocumentInv'
  BY <1>1, <1>3 DEF DocumentInv
<1> QED BY <1>4, <1>5, <1>6, <1>7, <1>8 DEF ExtractInv

\* Report, refusal, return and death end the command.
LEMMA EndingsStep ==
  ASSUME ExtractInv, DryRunReports \/ ExtractRefused \/ ExtractReturns \/ ExtractDies
  PROVE  ExtractInv'
<1>1. xpc' = "idle" /\ UNCHANGED <<src, bundle, files, manifest, row, drifted>>
  BY DEF DryRunReports, ExtractRefused, ExtractReturns, ExtractDies, outsideVars, runVars,
         historyVars
<1> QED BY <1>1, GoesIdle DEF ExtractInv, ExtractTyped

LEMMA BesidesStep ==
  ASSUME ExtractInv,
         DeltaConsumed \/ ConfigChanges \/ \E confirmed \in BOOLEAN : ApprovePilot(confirmed)
  PROVE  ExtractInv'
<1>1. CASE DeltaConsumed \/ \E confirmed \in BOOLEAN : ApprovePilot(confirmed)
  BY <1>1, Unaffected DEF DeltaConsumed, ApprovePilot, outsideVars, historyVars
<1>2. CASE ConfigChanges
  <2>1. xpc' = "idle" /\ src' \in [Docs -> Nat] /\ bundle' \in Nat
    BY <1>2 DEF ConfigChanges, ExtractInv, ExtractTyped
  <2>2. UNCHANGED <<files, manifest, row, drifted>>
    BY <1>2 DEF ConfigChanges, runVars
  <2> QED BY <2>1, <2>2, GoesIdle
<1> QED BY <1>1, <1>2

---------------------------------------------------------------------------
(* The invariant.                                                          *)

LEMMA ExtractInit_Inv == ASSUME ExtractInit PROVE ExtractInv
<1>1. /\ 1 \in Nat /\ xpc = "idle"
      /\ \A d \in Docs : row[d] = Absent
      /\ \A r \in XRuns : manifest[r] = Absent
  BY DEF ExtractInit
<1>2. ExtractTyped
  BY <1>1 DEF ExtractInit, ExtractTyped
<1>3. StoreInv /\ RecordedIsCheckpointed
  BY <1>1 DEF StoreInv, RecordedIsCheckpointed
<1>4. PlanInv /\ MemoryInv /\ CommandInv /\ DocumentInv
  BY <1>1 DEF PlanInv, MemoryInv, CommandInv, DocumentInv, Underway, Checkpointing
<1> QED BY <1>2, <1>3, <1>4 DEF ExtractInv

LEMMA ResultTyped ==
  ASSUME NEW c \in Answers, NEW a \in Answers, NEW s \in Spans
  PROVE  Result(c, s, a) \in {"ok", "rejects", "nothing", "abstract"}
<1>1. (Classified(c) \in BOOLEAN) /\ (Abstracted(a) \in BOOLEAN)
  BY DEF Classified, Abstracted
<1> QED BY <1>1 DEF Result

LEMMA ExtractStutters == ASSUME ExtractInv, UNCHANGED extractVars PROVE ExtractInv'
  BY Unaffected DEF extractVars, runVars

LEMMA ExtractNext_Inv == ASSUME ExtractInv, [ExtractNext]_extractVars PROVE ExtractInv'
<1>1. CASE UNCHANGED extractVars
  BY <1>1, ExtractStutters
<1>2. ASSUME NEW d \in Docs, NEW v \in 0..MaxSrc, SourceMoves(d, v) PROVE ExtractInv'
  BY <1>2, SourceMovesStep
<1>3. CASE DeltaConsumed \/ ConfigChanges \/ \E confirmed \in BOOLEAN : ApprovePilot(confirmed)
  BY <1>3, BesidesStep
<1>4. ASSUME NEW S \in SUBSET Docs, NEW kind \in {"dry", "fixture", "pilot"},
             NEW retry \in BOOLEAN, ExtractNew(S, kind, retry)
      PROVE  ExtractInv'
  BY <1>4, ExtractNewStep
<1>5. ASSUME NEW r \in XRuns, ExtractResume(r) PROVE ExtractInv'
  BY <1>5, ExtractResumeStep
<1>6. ASSUME NEW t \in BOOLEAN, PlanDocument(t) PROVE ExtractInv'
  BY <1>6, PlanDocumentStep
<1>7. CASE DryRunReports \/ ExtractRefused \/ ExtractReturns \/ ExtractDies
  BY <1>7, EndingsStep
<1>8. CASE ExtractBegin
  BY <1>8, ExtractBeginStep
<1>9. CASE WriteEvidence \/ WriteAssets \/ WriteManifest
  BY <1>9, WriteEvidenceStep, WriteAssetsStep, WriteManifestStep
<1>10. ASSUME NEW c \in Answers, NEW a \in Answers, NEW s \in Spans,
              ProcessDocument(Result(c, s, a))
       PROVE  ExtractInv'
  BY <1>10, ResultTyped, ProcessDocumentStep
<1>11. CASE RecordDocument \/ FinishRun
  BY <1>11, RecordDocumentStep, FinishRunStep
<1> QED BY <1>1, <1>2, <1>3, <1>4, <1>5, <1>6, <1>7, <1>8, <1>9, <1>10, <1>11
        DEF ExtractNext, ExtractStep

\* The invariant of the extract command: what files, manifests, rows and a
\* running command say of one another, through every death and resumption.
THEOREM ExtractInvariance == ExtractSpec => []ExtractInv
<1>1. ExtractInit => ExtractInv
  BY ExtractInit_Inv
<1>2. ExtractInv /\ [ExtractNext]_extractVars => ExtractInv'
  BY ExtractNext_Inv
<1> QED BY <1>1, <1>2, PTL DEF ExtractSpec

---------------------------------------------------------------------------
(* Results.                                                                *)

\* The row of a document says success or partial only when the committed
\* manifest of its run holds evidence and materials of the very version the
\* row names (process_document, _write_checkpoint, state.record).
THEOREM RowsAreCheckpointed == ExtractSpec => []RecordedIsCheckpointed
<1>1. ExtractInv => RecordedIsCheckpointed
  BY DEF ExtractInv
<1> QED BY <1>1, ExtractInvariance, PTL

\* The manifest is the commit marker: whenever a command dies and however
\* often its run is continued, the files hold all a manifest describes
\* (_write_checkpoint, _load_checkpoint_assets).
THEOREM MarkerStaysBehind == ExtractSpec => []MarkerNeverAhead
<1>1. ExtractInv => MarkerNeverAhead
  BY DEF ExtractInv, StoreInv, MarkerNeverAhead, Within
<1> QED BY <1>1, ExtractInvariance, PTL

\* A run that ended "success" has a material for every evidence, through
\* every interruption and continuation.
THEOREM SuccessStaysComplete == ExtractSpec => []SuccessIsComplete
<1>1. ExtractInv => SuccessIsComplete
  BY DEF ExtractInv, StoreInv, SuccessIsComplete, Balanced
<1> QED BY <1>1, ExtractInvariance, PTL

\* Unless a source moved between selection and load, everything a run
\* committed was made from the versions its selection pinned.
THEOREM RunsUseTheirSelection == ExtractSpec => []MadeFromSelection
<1>1. ExtractInv => MadeFromSelection
  BY DEF ExtractInv, StoreInv, MadeFromSelection, MadeFrom
<1> QED BY <1>1, ExtractInvariance, PTL

-----------------------------------------------------------------------------
(* Review.                                                                 *)

ReviewEvents == [asset : {"evidence", "material"},
                 decision : {"accepted", "edited", "rejected"}, attempt : Nat]
Log == Seq(ReviewEvents)

Comps == {"complete", "partial"}
Records == {"evidence", "material", "unwritten"}
             \X {"accepted", "edited", "rejected", "pending", "unwritten"}
Snapshots == [comp : Comps, legacy : BOOLEAN, log : Log, data : SUBSET Records,
              marked : BOOLEAN]

\* The steps of an apply before and after the events are those it decided on.
Making == {"snapshot", "files", "marker"}
Showing == {"status", "pointer", "receipt"}

ReviewTyped ==
  /\ events \in Log /\ attempt \in Nat
  /\ snaps \in SUBSET Snapshots
  /\ pointer \in [Comps -> {Nothing} \cup [log : Log]]
  /\ wpc \in {"idle", "log", "append"} \cup Making \cup Showing
  /\ wpc # "idle" => wrk.log \in Log /\ wrk.activate \in BOOLEAN

\* The log an apply decided on extends the events; it is the events once they
\* are written: first for the first apply, after its snapshot for a later one.
ApplyInv ==
  /\ wpc # "idle" => IsPrefix(events, wrk.log)
  /\ wpc \in Showing \/ (wpc \in Making /\ wrk.activate) => events = wrk.log
  /\ wpc = "log" => wrk.activate /\ ~HasHistory
  /\ wpc = "append" => ~wrk.activate
  /\ wpc # "idle" /\ ~wrk.activate => HasHistory

\* A snapshot is of its log; the one in progress is written before it is marked.
SnapsInv ==
  /\ \A s \in snaps : /\ s.comp = Completeness(s.log)
                      /\ s.marked => s.data = AcceptedRecords(s.log)
  /\ wpc \in {"files", "marker"} => \E s \in snaps : InProgress(s)
  /\ wpc = "marker" =>
       \A s \in snaps : InProgress(s) => s.data = AcceptedRecords(wrk.log)
  /\ wpc \in Showing \cup {"append"} => Resolved(wrk.log) # {}

\* Where the events have their snapshot and pointer.
AtRest ==
  \/ wpc = "idle" /\ ~stuck
  \/ wpc \in {"log", "snapshot", "append", "receipt"}
  \/ wpc \in {"files", "marker"} /\ ~wrk.activate

RestInv == AtRest => SnapshotCurrent

\* What the index build read is a decided state of the log, then or earlier.
IndexInv ==
  /\ ipc \in {"idle", "resolve", "read"}
  /\ ipc # "idle" => runStatus = "success"
  /\ ipc = "read" => ibuf \in Log /\ IsPrefix(ibuf, events) /\ Completeness(ibuf) = "complete"
  /\ candidate # Nothing => candidate.log \in Log
  /\ IndexedIsReviewed

ReceiptInv ==
  \A q \in receipts : /\ q.result \in Log /\ IsPrefix(q.result, events)
                      /\ q.result = events => q.decision = Latest(events, "material")

ReviewInv == ReviewTyped /\ ApplyInv /\ SnapsInv /\ RestInv /\ IndexInv /\ ReceiptInv

---------------------------------------------------------------------------
(* Logs, and what the operators make of them.                              *)

\* IsPrefix, element by element.
LEMMA PrefixMeans ==
  ASSUME NEW s \in Log, NEW t \in Log
  PROVE  IsPrefix(s, t) <=> /\ Len(s) <= Len(t)
                            /\ \A i \in 1 .. Len(s) : s[i] = t[i]
<1>1. Len(s) \in Nat /\ Len(t) \in Nat
  BY DEF Log
<1>2. ASSUME Len(s) <= Len(t)
      PROVE  /\ Len(SubSeq(s, 1, Len(s))) = Len(s) /\ Len(SubSeq(t, 1, Len(s))) = Len(s)
             /\ \A i \in 1 .. Len(s) : SubSeq(s, 1, Len(s))[i] = s[i] /\ SubSeq(t, 1, Len(s))[i] = t[i]
             /\ SubSeq(s, 1, Len(s)) \in Log /\ SubSeq(t, 1, Len(s)) \in Log
  BY <1>1, <1>2, SubSeqProperties DEF Log
<1>3. ASSUME Len(s) <= Len(t), \A i \in 1 .. Len(s) : s[i] = t[i]
      PROVE  SubSeq(s, 1, Len(s)) = SubSeq(t, 1, Len(s))
  BY <1>2, <1>3, SeqEqual DEF Log
<1> QED BY <1>1, <1>2, <1>3 DEF IsPrefix

LEMMA PrefixOrder ==
  ASSUME NEW s \in Log, NEW t \in Log, NEW u \in Log
  PROVE  /\ IsPrefix(s, s)
         /\ IsPrefix(s, t) /\ IsPrefix(t, u) => IsPrefix(s, u)
         /\ IsPrefix(s, t) /\ IsPrefix(t, s) => s = t
<1>1. Len(s) \in Nat /\ Len(t) \in Nat /\ Len(u) \in Nat
  BY DEF Log
<1>2. IsPrefix(s, t) /\ IsPrefix(t, s) => s = t
  BY <1>1, PrefixMeans, SeqEqual DEF Log
<1> QED BY <1>1, <1>2, PrefixMeans

\* An apply only appends to the events.
LEMMA CombinedExtends ==
  ASSUME ReviewTyped, NEW D, DOMAIN D \in SUBSET {"evidence", "material"},
         \A a \in DOMAIN D : D[a] \in {"accepted", "edited", "rejected"}
  PROVE  Combined(D) \in Log /\ IsPrefix(events, Combined(D))
<1> DEFINE F == Fresh(D)
           new == [i \in 1 .. Len(F) |-> NewEvent(F[i], D)]
<1>1. F \in Seq(DOMAIN D)
  <2>1. ASSUME NEW A \in SUBSET DOMAIN D PROVE InOrder(A) \in Seq(DOMAIN D)
    <3>0. <<>> \in Seq(DOMAIN D) /\ \A a \in DOMAIN D : <<a>> \in Seq(DOMAIN D)
      OBVIOUS
    <3>1. (IF "evidence" \in A THEN <<"evidence">> ELSE <<>>) \in Seq(DOMAIN D)
      BY <3>0
    <3>2. (IF "material" \in A THEN <<"material">> ELSE <<>>) \in Seq(DOMAIN D)
      BY <3>0
    <3> QED BY <3>1, <3>2, ConcatProperties DEF InOrder
  <2> QED BY <2>1 DEF Fresh
<1>2. Len(F) \in Nat /\ \A i \in 1 .. Len(F) : F[i] \in DOMAIN D
  BY <1>1
<1>3. \A i \in 1 .. Len(F) : NewEvent(F[i], D) \in ReviewEvents
  BY <1>2 DEF NewEvent, ReviewEvents, ReviewTyped
<1>4. new \in [1 .. Len(F) -> ReviewEvents]
  BY <1>3
<1>5. new \in Log
  BY <1>2, <1>4, IsASeq DEF Log
<1>6. events \o new \in Log /\ Len(events \o new) = Len(events) + Len(new)
      /\ \A i \in 1 .. Len(events) : (events \o new)[i] = events[i]
  BY <1>5, ConcatProperties DEF ReviewTyped, Log
<1>7. Combined(D) = events \o new
  BY DEF Combined
<1> HIDE DEF new
<1>8. IsPrefix(events, events \o new)
  <2>1. events \in Log /\ Len(events) \in Nat /\ Len(new) \in Nat
    BY <1>5 DEF ReviewTyped, Log
  <2>2. Len(events) <= Len(events \o new)
    BY <1>6, <2>1
  <2> QED BY <1>6, <2>1, <2>2, PrefixMeans
<1> QED BY <1>6, <1>7, <1>8

LEMMA RecordsTyped == \A log : Completeness(log) \in Comps /\ AcceptedRecords(log) \in SUBSET Records
  BY DEF Completeness, Comps, AcceptedRecords, Records

\* A material is only accepted with the evidence it references.
LEMMA MaterialHasEvidence ==
  ASSUME NEW log, NEW r \in AcceptedRecords(log), r[1] = "material"
  PROVE  <<"evidence", "accepted">> \in AcceptedRecords(log)
  BY DEF AcceptedRecords

---------------------------------------------------------------------------
(* What growing events leave alone.                                        *)

LEMMA IndexKept ==
  ASSUME ReviewInv, events' \in Log, IsPrefix(events, events'), UNCHANGED <<runStatus, indexVars>>
  PROVE  IndexInv'
<1>1. \A s \in Log : IsPrefix(s, events) => IsPrefix(s, events')
  BY PrefixOrder DEF ReviewInv, ReviewTyped
<1> QED BY <1>1 DEF ReviewInv, IndexInv, IndexedIsReviewed, indexVars

LEMMA ReceiptsKept ==
  ASSUME ReviewInv, events' \in Log, IsPrefix(events, events'), UNCHANGED receipts
  PROVE  ReceiptInv'
<1>1. \A s \in Log : IsPrefix(s, events) => /\ IsPrefix(s, events')
                                            /\ s = events' => events' = events
  BY PrefixOrder DEF ReviewInv, ReviewTyped
<1> QED BY <1>1 DEF ReviewInv, ReceiptInv

---------------------------------------------------------------------------
(* The steps of an apply.                                                  *)

LEMMA StartApplyStep ==
  ASSUME ReviewInv, NEW D, DOMAIN D \in SUBSET {"evidence", "material"},
         \A a \in DOMAIN D : D[a] \in {"accepted", "edited", "rejected"},
         NEW allow, NEW quality, StartApply(D, allow, quality)
  PROVE  ReviewInv'
<1> DEFINE log == Combined(D)
<1>1. log \in Log /\ IsPrefix(events, log)
  BY CombinedExtends DEF ReviewInv
<1>2. wrk' = [log |-> log, activate |-> ~(log # events /\ HasHistory), quality |-> quality,
              packet |-> PacketUsed(quality)]
      /\ wpc' = (IF log # events /\ ~HasHistory THEN "log" ELSE "snapshot")
      /\ UNCHANGED <<events, snaps, pointer, runStatus, receipts, indexVars, faultVars>>
  BY DEF StartApply, qualityVars
<1> HIDE DEF log
<1>3. ReviewTyped'
  BY <1>1, <1>2 DEF ReviewInv, ReviewTyped, Making, Showing, faultVars
<1>4. ApplyInv'
  BY <1>1, <1>2 DEF ReviewInv, ApplyInv, HasHistory, Making, Showing
<1>5. SnapsInv'
  BY <1>2 DEF ReviewInv, SnapsInv, Making, Showing
<1>6. RestInv'
  BY <1>2 DEF StartApply, Valid, RestInv, SnapshotCurrent, HasHistory, Resolved
<1>7. IndexInv' /\ ReceiptInv'
  BY <1>2, PrefixOrder, IndexKept, ReceiptsKept DEF ReviewInv, ReviewTyped
<1> QED BY <1>3, <1>4, <1>5, <1>6, <1>7 DEF ReviewInv

\* The first apply of a run: there is no snapshot yet.
LEMMA WriteLogStep == ASSUME ReviewInv, WriteLog PROVE ReviewInv'
<1>1. events' = wrk.log /\ wrk.log \in Log /\ IsPrefix(events, events')
      /\ wpc = "log" /\ wpc' = "snapshot" /\ wrk.activate
      /\ UNCHANGED <<snaps, pointer, runStatus, wrk, receipts, indexVars, attempt, stuck>>
  BY DEF WriteLog, ReviewInv, ReviewTyped, ApplyInv, qualityVars, faultVars
<1>2. ReviewTyped'
  BY <1>1 DEF ReviewInv, ReviewTyped, Making
<1>3. ApplyInv'
  BY <1>1, PrefixOrder DEF ReviewInv, ReviewTyped, ApplyInv, HasHistory, Making, Showing
<1>4. SnapsInv'
  BY <1>1 DEF ReviewInv, SnapsInv, Making, Showing
<1>5. RestInv'
  BY <1>1 DEF ReviewInv, RestInv, AtRest, ApplyInv, SnapshotCurrent, HasHistory, Resolved
<1>6. IndexInv' /\ ReceiptInv'
  BY <1>1, IndexKept, ReceiptsKept
<1> QED BY <1>2, <1>3, <1>4, <1>5, <1>6 DEF ReviewInv

LEMMA ReuseSnapshotStep == ASSUME ReviewInv, ReuseSnapshot PROVE ReviewInv'
<1>1. wpc = "snapshot" /\ wpc' = (IF wrk.activate THEN "status" ELSE "append")
      /\ Resolved(wrk.log) # {}
      /\ UNCHANGED <<events, snaps, pointer, runStatus, wrk, receipts, indexVars, attempt, stuck>>
  BY DEF ReuseSnapshot, qualityVars, faultVars
<1>2. ReviewTyped'
  BY <1>1 DEF ReviewInv, ReviewTyped, Showing
<1>3. ApplyInv'
  BY <1>1 DEF ReviewInv, ApplyInv, HasHistory, Making, Showing
<1>4. SnapsInv'
  BY <1>1 DEF ReviewInv, SnapsInv, Resolved, Showing
<1>5. RestInv'
  BY <1>1 DEF ReviewInv, RestInv, AtRest, SnapshotCurrent, HasHistory, Resolved
<1>6. IndexInv' /\ ReceiptInv'
  BY <1>1, PrefixOrder, IndexKept, ReceiptsKept DEF ReviewInv, ReviewTyped
<1> QED BY <1>2, <1>3, <1>4, <1>5, <1>6 DEF ReviewInv

LEMMA MakeSnapshotDirStep == ASSUME ReviewInv, MakeSnapshotDir PROVE ReviewInv'
<1> DEFINE new == [comp |-> Completeness(wrk.log), legacy |-> ~LegacyTaken(Completeness(wrk.log)),
                   log |-> wrk.log, data |-> Unwritten, marked |-> FALSE]
<1>1. wpc = "snapshot" /\ wpc' = "files" /\ snaps' = snaps \cup {new}
      /\ UNCHANGED <<events, pointer, runStatus, wrk, receipts, indexVars, attempt, stuck>>
  BY DEF MakeSnapshotDir, qualityVars, faultVars
<1>2. new \in Snapshots /\ new.log = wrk.log /\ ~new.marked /\ new.comp = Completeness(new.log)
  <2>1. Unwritten \in SUBSET Records /\ wrk.log \in Log
    BY <1>1 DEF Unwritten, Records, ReviewInv, ReviewTyped
  <2> QED BY <2>1, RecordsTyped DEF Snapshots, LegacyTaken
<1> HIDE DEF new
<1>3. \A log : Resolved(log)' = Resolved(log)
  BY <1>1, <1>2 DEF Resolved
<1>4. ReviewTyped'
  BY <1>1, <1>2 DEF ReviewInv, ReviewTyped, Making
<1>5. ApplyInv'
  BY <1>1 DEF ReviewInv, ApplyInv, HasHistory, Making, Showing
<1>6. SnapsInv'
  BY <1>1, <1>2, <1>3 DEF ReviewInv, SnapsInv, InProgress, Showing
<1>7. RestInv'
  BY <1>1, <1>3 DEF ReviewInv, RestInv, AtRest, ApplyInv, SnapshotCurrent, HasHistory
<1>8. IndexInv' /\ ReceiptInv'
  BY <1>1, PrefixOrder, IndexKept, ReceiptsKept DEF ReviewInv, ReviewTyped
<1> QED BY <1>4, <1>5, <1>6, <1>7, <1>8 DEF ReviewInv

\* The files of the snapshot in progress, which no reader resolves yet.
LEMMA WriteSnapshotFilesStep == ASSUME ReviewInv, WriteSnapshotFiles PROVE ReviewInv'
<1> DEFINE W(s) == IF InProgress(s) THEN [s EXCEPT !.data = AcceptedRecords(wrk.log)] ELSE s
<1>1. wpc = "files" /\ wpc' = "marker" /\ snaps' = {W(s) : s \in snaps}
      /\ UNCHANGED <<events, pointer, runStatus, wrk, receipts, indexVars, attempt, stuck>>
  BY DEF WriteSnapshotFiles, qualityVars, faultVars
<1>2. \A s \in snaps : /\ W(s) \in Snapshots /\ W(s).comp = s.comp /\ W(s).log = s.log
                       /\ W(s).marked = s.marked /\ (s.marked => W(s) = s)
                       /\ s.log = wrk.log /\ ~s.marked => W(s).data = AcceptedRecords(wrk.log)
  BY RecordsTyped DEF InProgress, ReviewInv, ReviewTyped, Snapshots
<1> HIDE DEF W
<1>3. \A log : Resolved(log)' = Resolved(log)
  BY <1>1, <1>2 DEF Resolved
<1>4. ReviewTyped'
  BY <1>1, <1>2 DEF ReviewInv, ReviewTyped, Making
<1>5. ApplyInv'
  BY <1>1 DEF ReviewInv, ApplyInv, HasHistory, Making, Showing
<1>6. SnapsInv'
  BY <1>1, <1>2, <1>3 DEF ReviewInv, SnapsInv, InProgress, Showing
<1>7. RestInv'
  BY <1>1, <1>3 DEF ReviewInv, RestInv, AtRest, ApplyInv, SnapshotCurrent, HasHistory
<1>8. IndexInv' /\ ReceiptInv'
  BY <1>1, PrefixOrder, IndexKept, ReceiptsKept DEF ReviewInv, ReviewTyped
<1> QED BY <1>4, <1>5, <1>6, <1>7, <1>8 DEF ReviewInv
\* The manifest makes the directory the snapshot of its log.
LEMMA MarkSnapshotStep == ASSUME ReviewInv, MarkSnapshot PROVE ReviewInv'
<1> DEFINE W(s) == IF InProgress(s) THEN [s EXCEPT !.marked = TRUE] ELSE s
<1>1. wpc = "marker" /\ wpc' = (IF wrk.activate THEN "status" ELSE "append")
      /\ snaps' = {W(s) : s \in snaps}
      /\ UNCHANGED <<events, pointer, runStatus, wrk, receipts, indexVars, attempt, stuck>>
  BY DEF MarkSnapshot, qualityVars, faultVars
<1>2. \A s \in snaps : /\ W(s) \in Snapshots /\ W(s).comp = s.comp /\ W(s).log = s.log
                       /\ W(s).data = s.data /\ (s.marked => W(s) = s)
                       /\ W(s).marked => s.marked \/ InProgress(s)
                       /\ InProgress(s) => W(s).marked
  BY DEF InProgress, ReviewInv, ReviewTyped, Snapshots
<1> HIDE DEF W
<1>3. \A t \in snaps' : /\ t.comp = Completeness(t.log)
                        /\ t.marked => t.data = AcceptedRecords(t.log)
  BY <1>1, <1>2 DEF ReviewInv, SnapsInv, InProgress
<1>4. ReviewTyped'
  BY <1>1, <1>2 DEF ReviewInv, ReviewTyped, Showing
<1>5. ApplyInv'
  BY <1>1 DEF ReviewInv, ApplyInv, HasHistory, Making, Showing
<1>6. Resolved(wrk.log)' # {}
  <2>1. PICK s \in snaps : InProgress(s)
    BY <1>1 DEF ReviewInv, SnapsInv
  <2>2. W(s) \in snaps' /\ W(s).marked /\ W(s).log = wrk.log
    BY <1>1, <1>2, <2>1 DEF InProgress
  <2> QED BY <1>1, <1>3, <2>2 DEF Resolved
<1>7. SnapsInv'
  BY <1>1, <1>3, <1>6 DEF ReviewInv, SnapsInv, Showing
<1>8. RestInv'
  <2> SUFFICES ASSUME ~wrk.activate PROVE SnapshotCurrent'
    BY <1>1 DEF RestInv, AtRest
  <2>1. SnapshotCurrent /\ HasHistory
    BY <1>1 DEF ReviewInv, RestInv, AtRest, ApplyInv
  <2>2. PICK s \in Resolved(events) : TRUE
    BY <2>1 DEF SnapshotCurrent
  <2>3. s \in snaps' /\ s \in Resolved(events)'
    BY <1>1, <1>2, <2>2 DEF Resolved
  <2>4. \A t \in Resolved(events)' : /\ t.data = AcceptedRecords(events)
                                     /\ t.comp = s.comp
    BY <1>1, <1>3, <2>2 DEF Resolved
  <2> QED BY <1>1, <2>1, <2>2, <2>3, <2>4 DEF SnapshotCurrent
<1>9. IndexInv' /\ ReceiptInv'
  BY <1>1, PrefixOrder, IndexKept, ReceiptsKept DEF ReviewInv, ReviewTyped
<1> QED BY <1>4, <1>5, <1>7, <1>8, <1>9 DEF ReviewInv

LEMMA AppendEventsStep == ASSUME ReviewInv, AppendEvents PROVE ReviewInv'
<1>1. events' = wrk.log /\ wrk.log \in Log /\ IsPrefix(events, events')
      /\ wpc = "append" /\ wpc' = "status"
      /\ UNCHANGED <<snaps, pointer, runStatus, wrk, receipts, indexVars, attempt, stuck>>
  BY DEF AppendEvents, ReviewInv, ReviewTyped, ApplyInv, qualityVars, faultVars
<1>2. ReviewTyped'
  BY <1>1 DEF ReviewInv, ReviewTyped, Showing
<1>3. ApplyInv'
  BY <1>1, PrefixOrder DEF ReviewInv, ReviewTyped, ApplyInv, HasHistory, Making, Showing
<1>4. SnapsInv'
  BY <1>1 DEF ReviewInv, SnapsInv, Resolved, Showing
<1>5. RestInv'
  BY <1>1 DEF RestInv, AtRest
<1>6. IndexInv' /\ ReceiptInv'
  BY <1>1, IndexKept, ReceiptsKept
<1> QED BY <1>2, <1>3, <1>4, <1>5, <1>6 DEF ReviewInv

LEMMA WriteStatusStep == ASSUME ReviewInv, WriteStatus PROVE ReviewInv'
<1>1. wpc = "status" /\ wpc' = "pointer"
      /\ UNCHANGED <<events, snaps, pointer, runStatus, wrk, receipts, indexVars, attempt, stuck>>
  BY DEF WriteStatus, qualityVars, faultVars
<1>2. ReviewTyped'
  BY <1>1 DEF ReviewInv, ReviewTyped, Showing
<1>3. ApplyInv'
  BY <1>1 DEF ReviewInv, ApplyInv, HasHistory, Making, Showing
<1>4. SnapsInv'
  BY <1>1 DEF ReviewInv, SnapsInv, Resolved, Showing
<1>5. RestInv'
  BY <1>1 DEF RestInv, AtRest
<1>6. IndexInv' /\ ReceiptInv'
  BY <1>1, PrefixOrder, IndexKept, ReceiptsKept DEF ReviewInv, ReviewTyped
<1> QED BY <1>2, <1>3, <1>4, <1>5, <1>6 DEF ReviewInv

\* With its pointer written the log is current.
LEMMA ActivateSnapshotStep == ASSUME ReviewInv, ActivateSnapshot PROVE ReviewInv'
<1>1. wpc = "pointer" /\ wpc' \in {"idle", "receipt"} /\ (wpc' = "receipt" => wrk' = wrk)
      /\ pointer' = [pointer EXCEPT ![Completeness(wrk.log)] = [log |-> wrk.log]]
      /\ UNCHANGED <<events, snaps, runStatus, receipts, indexVars, attempt, stuck>>
  BY DEF ActivateSnapshot, qualityVars, faultVars
<1>2. events = wrk.log /\ wrk.log \in Log /\ Resolved(events) # {}
  BY <1>1 DEF ReviewInv, ReviewTyped, ApplyInv, SnapsInv, Showing
<1>3. ReviewTyped'
  BY <1>1, <1>2, RecordsTyped DEF ReviewInv, ReviewTyped, Showing
<1>4. ApplyInv'
  BY <1>1 DEF ReviewInv, ApplyInv, HasHistory, Making, Showing
<1>5. SnapsInv'
  BY <1>1 DEF ReviewInv, SnapsInv, Resolved, Showing
<1>6. RestInv'
  <2>1. pointer'[Completeness(events)] = [log |-> events]
    BY <1>1, <1>2, RecordsTyped DEF ReviewInv, ReviewTyped
  <2>2. Resolved(events)' # {} /\ \A s \in Resolved(events)' :
          s.comp = Completeness(events) /\ s.data = AcceptedRecords(events)
    BY <1>1, <1>2 DEF Resolved, ReviewInv, SnapsInv
  <2> QED BY <1>1, <2>1, <2>2 DEF RestInv, SnapshotCurrent
<1>7. IndexInv' /\ ReceiptInv'
  BY <1>1, PrefixOrder, IndexKept, ReceiptsKept DEF ReviewInv, ReviewTyped
<1> QED BY <1>3, <1>4, <1>5, <1>6, <1>7 DEF ReviewInv

\* A new receipt records the decision in force.
LEMMA ReceiptWritten ==
  ASSUME ReviewInv, NEW log, NEW dec, dec = Latest(events, "material"),
         receipts' = ReceiptsWith(log, dec), UNCHANGED events
  PROVE  ReceiptInv'
  BY PrefixOrder DEF ReceiptsWith, ReviewInv, ReceiptInv, ReviewTyped

LEMMA WriteReceiptStep == ASSUME ReviewInv, WriteReceipt PROVE ReviewInv'
<1>1. wpc = "receipt" /\ wpc' = "idle"
      /\ receipts' = (IF DecisionCurrent(wrk.quality) THEN ReceiptsWith(wrk.packet, wrk.quality)
                      ELSE receipts)
      /\ UNCHANGED <<events, snaps, pointer, runStatus, indexVars, attempt, stuck>>
  BY DEF WriteReceipt, faultVars
<1>2. ReviewTyped'
  BY <1>1 DEF ReviewInv, ReviewTyped
<1>3. ApplyInv'
  BY <1>1 DEF ReviewInv, ApplyInv, HasHistory, Making, Showing
<1>4. SnapsInv'
  BY <1>1 DEF ReviewInv, SnapsInv, Showing
<1>5. RestInv'
  BY <1>1 DEF ReviewInv, RestInv, AtRest, SnapshotCurrent, HasHistory, Resolved
<1>6. ReceiptInv'
  BY <1>1, PrefixOrder, ReceiptWritten, ReceiptsKept DEF ReviewInv, ReviewTyped, DecisionCurrent
<1>7. IndexInv'
  BY <1>1, PrefixOrder, IndexKept DEF ReviewInv, ReviewTyped
<1> QED BY <1>2, <1>3, <1>4, <1>5, <1>6, <1>7 DEF ReviewInv

\* A crash outside the windows of Unrepairable leaves the events with their
\* snapshot and a pointer to it or none.
LEMMA ReviewCrashStep == ASSUME ReviewInv, ReviewCrash PROVE ReviewInv'
<1>1. wpc # "idle" /\ wpc' = "idle" /\ attempt' = attempt + 1 /\ stuck' = (stuck \/ Unrepairable)
      /\ UNCHANGED <<events, snaps, pointer, runStatus, receipts, indexVars>>
  BY DEF ReviewCrash, qualityVars
<1>2. ReviewTyped'
  BY <1>1 DEF ReviewInv, ReviewTyped
<1>3. ApplyInv'
  BY <1>1 DEF ReviewInv, ApplyInv, HasHistory, Making, Showing
<1>4. SnapsInv'
  BY <1>1 DEF ReviewInv, SnapsInv, Showing
<1>5. RestInv'
  <2> SUFFICES ASSUME ~Unrepairable PROVE SnapshotCurrent
    BY <1>1 DEF RestInv, AtRest, SnapshotCurrent, HasHistory, Resolved
  <2>1. CASE AtRest
    BY <2>1 DEF ReviewInv, RestInv
  <2>2. CASE wpc \in {"status", "pointer"}
    <3>1. events = wrk.log /\ Resolved(events) # {}
          /\ pointer[Completeness(events)] \in {Nothing, [log |-> events]}
      BY <2>2 DEF ReviewInv, ApplyInv, SnapsInv, Showing, Unrepairable
    <3>2. \A s \in Resolved(events) :
            s.comp = Completeness(events) /\ s.data = AcceptedRecords(events)
      BY DEF Resolved, ReviewInv, SnapsInv
    <3> QED BY <3>1, <3>2 DEF SnapshotCurrent
  <2> QED BY <1>1, <2>1, <2>2 DEF AtRest, Unrepairable, ReviewInv, ReviewTyped, Making, Showing
<1>6. IndexInv' /\ ReceiptInv'
  BY <1>1, PrefixOrder, IndexKept, ReceiptsKept DEF ReviewInv, ReviewTyped
<1> QED BY <1>2, <1>3, <1>4, <1>5, <1>6 DEF ReviewInv

---------------------------------------------------------------------------
(* Steps beside an apply.                                                  *)

\* Whatever leaves the events, the snapshots and the command alone.
LEMMA ApplyUndisturbed ==
  ASSUME ReviewInv, UNCHANGED <<events, snaps, pointer, wpc, wrk, attempt, stuck>>
  PROVE  ReviewTyped' /\ ApplyInv' /\ SnapsInv' /\ RestInv'
  BY DEF ReviewInv, ReviewTyped, ApplyInv, SnapsInv, RestInv, AtRest, SnapshotCurrent, HasHistory,
         Resolved, InProgress

LEMMA ReadOnlyStep ==
  ASSUME ReviewInv, Render \/ RenderPacket \/ \E F \in Findings : AuditQuality(F)
  PROVE  ReviewInv'
<1>1. UNCHANGED <<events, snaps, pointer, wpc, wrk, attempt, stuck, runStatus, receipts, indexVars>>
  BY DEF Render, RenderPacket, AuditQuality, qualityVars, faultVars
<1> QED BY <1>1, ApplyUndisturbed, PrefixOrder, IndexKept, ReceiptsKept DEF ReviewInv, ReviewTyped

LEMMA ReconcileStep == ASSUME ReviewInv, NEW dec, Reconcile(dec) PROVE ReviewInv'
<1>1. Normalized(dec) = Latest(events, "material")
      /\ receipts' = ReceiptsWith(packet.log, Normalized(dec))
      /\ UNCHANGED <<events, snaps, pointer, wpc, wrk, attempt, stuck, runStatus, indexVars>>
  BY DEF Reconcile, DecisionCurrent, faultVars
<1>2. ReceiptInv'
  BY <1>1, ReceiptWritten
<1> QED BY <1>1, <1>2, ApplyUndisturbed, PrefixOrder, IndexKept DEF ReviewInv, ReviewTyped

\* The build without the lock: the log it resolved was the events at that
\* time, and what it reads is the marked snapshot of that log.
LEMMA IndexStep ==
  ASSUME ReviewInv, IndexValidate \/ IndexResolve \/ IndexRead PROVE ReviewInv'
<1>1. UNCHANGED <<events, snaps, pointer, wpc, wrk, attempt, stuck, runStatus, receipts>>
  BY DEF IndexValidate, IndexResolve, IndexRead, qualityVars, faultVars
<1>2. IndexInv'
  <2>1. CASE IndexValidate
    BY <1>1, <2>1 DEF IndexValidate, Eligible, ReviewInv, IndexInv, IndexedIsReviewed
  <2>2. CASE IndexResolve
    BY <1>1, <2>2, PrefixOrder
       DEF IndexResolve, ReviewInv, ReviewTyped, IndexInv, IndexedIsReviewed
  <2>3. CASE IndexRead
    <3>1. PICK s \in snaps :
            /\ s.marked /\ s.log = ibuf /\ s.comp = "complete"
            /\ candidate' = [log |-> ibuf, data |-> IndexInputs(s.data)]
      BY <2>3 DEF IndexRead
    <3>2. ipc = "read" /\ ipc' = "idle"
      BY <2>3 DEF IndexRead
    <3>3. s.data = AcceptedRecords(ibuf)
      BY <3>1 DEF ReviewInv, SnapsInv
    <3>4. candidate'.log = ibuf /\ candidate'.data = IndexInputs(AcceptedRecords(ibuf))
      BY <3>1, <3>3
    <3> QED BY <1>1, <3>2, <3>4 DEF ReviewInv, IndexInv, IndexedIsReviewed
  <2> QED BY <2>1, <2>2, <2>3
<1> QED BY <1>1, <1>2, ApplyUndisturbed, PrefixOrder, ReceiptsKept DEF ReviewInv, ReviewTyped

---------------------------------------------------------------------------
LEMMA InitReview == ReviewInit => ReviewInv
<1> SUFFICES ASSUME ReviewInit PROVE ReviewInv
  OBVIOUS
<1>1. <<>> \in Log
  BY DEF Log
<1>2. ReviewTyped
  BY <1>1 DEF ReviewInit, ReviewTyped, Comps
<1> QED BY <1>2 DEF ReviewInit, ReviewInv, ApplyInv, SnapsInv, RestInv, AtRest, SnapshotCurrent,
             HasHistory, Resolved, IndexInv, IndexedIsReviewed, ReceiptInv, Making, Showing

LEMMA NextReview == ASSUME ReviewInv, ReviewNext PROVE ReviewInv'
<1>1. ASSUME NEW D \in DecisionSets, NEW partial \in BOOLEAN,
             \A a \in DOMAIN D : D[a] \in Decisions[a], Apply(D, partial)
      PROVE  ReviewInv'
  <2>1. DOMAIN D \in SUBSET {"evidence", "material"}
    BY DEF DecisionSets
  <2>2. \A a \in DOMAIN D : D[a] \in {"accepted", "edited", "rejected"}
    BY <1>1, <2>1 DEF Decisions
  <2> QED BY <1>1, <2>1, <2>2, StartApplyStep DEF Apply
<1>2. ASSUME NEW dec \in Decisions.material, ApplyQuality(dec) PROVE ReviewInv'
  <2> DEFINE D == [a \in {"material"} |-> Normalized(dec)]
  <2>1. DOMAIN D = {"material"} /\ \A a \in DOMAIN D : D[a] \in {"accepted", "edited", "rejected"}
    BY DEF Decisions, Normalized
  <2>2. StartApply(D, FALSE, Normalized(dec))
    BY <1>2 DEF ApplyQuality
  <2> HIDE DEF D
  <2> QED BY <2>1, <2>2, StartApplyStep
<1> QED
  BY <1>1, <1>2, WriteLogStep, ReuseSnapshotStep, MakeSnapshotDirStep, WriteSnapshotFilesStep,
     MarkSnapshotStep, AppendEventsStep, WriteStatusStep, ActivateSnapshotStep, WriteReceiptStep,
     ReviewCrashStep, ReadOnlyStep, ReconcileStep, IndexStep DEF ReviewNext

LEMMA StutterReview == ASSUME ReviewInv, UNCHANGED reviewVars PROVE ReviewInv'
<1>1. UNCHANGED <<events, snaps, pointer, wpc, wrk, attempt, stuck, runStatus, receipts, indexVars>>
  BY DEF reviewVars, indexVars
<1> QED BY <1>1, ApplyUndisturbed, PrefixOrder, IndexKept, ReceiptsKept DEF ReviewInv, ReviewTyped

LEMMA ReviewInvariant == ReviewSpec => []ReviewInv
  BY InitReview, NextReview, StutterReview, PTL DEF ReviewSpec

\* A snapshot whose manifest _materialize_events wrote is exactly what its log
\* accepts, through every crash and every later apply.
THEOREM MarkedStaysWhole == ReviewSpec => []MarkedIsWhole
<1>1. ReviewInv => MarkedIsWhole
  BY MaterialHasEvidence DEF ReviewInv, SnapsInv, MarkedIsWhole
<1> QED BY <1>1, ReviewInvariant, PTL

\* A candidate index is one decided state of the event log of a successful run,
\* whatever is applied while WritingMaterialCandidateIndexer.build reads.
THEOREM IndexStaysReviewed == ReviewSpec => []IndexedIsReviewed
<1>1. ReviewInv => IndexedIsReviewed
  BY DEF ReviewInv, IndexInv
<1> QED BY <1>1, ReviewInvariant, PTL

\* Outside the two windows a crash leaves the events with a snapshot and a
\* pointer that validate accepts.
THEOREM CrashIsRepairable == ReviewSpec => []RepairableAtRest
<1>1. ReviewInv => RepairableAtRest
  BY DEF ReviewInv, RestInv, AtRest, RepairableAtRest
<1> QED BY <1>1, ReviewInvariant, PTL

\* The receipt of a quality import or a reconciliation states the decision in
\* force for as long as its snapshot is the current one.
THEOREM ReceiptsStayCurrent == ReviewSpec => []AcknowledgedIsCurrent
<1>1. ReviewInv => AcknowledgedIsCurrent
  BY DEF ReviewInv, ReceiptInv, AcknowledgedIsCurrent
<1> QED BY <1>1, ReviewInvariant, PTL
=============================================================================
