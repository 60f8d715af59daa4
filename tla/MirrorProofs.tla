----------------------------- MODULE MirrorProofs -----------------------------
(***************************************************************************)
(* Theorems of WebDavCache and AttachmentSync, which share the mirrored    *)
(* directories of Mirror, for any number of objects, uploads, refreshes,   *)
(* attachment keys, syncs and interruptions: an index entry never claims more*)
(* than the mirrored file holds, a refresh implements the abstract mirror, *)
(* and a ready attachment has a PDF of the archive it was made from.       *)
(***************************************************************************)
EXTENDS WebDavCache, AttachmentSync, FiniteSetTheorems, TLAPS

(* The WebDAV cache.                                                       *)

Typed ==
    /\ remote \in [Objects -> Versions]
    /\ clock \in Versions
    /\ file \in [Objects -> Versions]
    /\ stamp \in [Objects -> Nat]
    /\ index \in [Objects -> Versions]
    /\ progress \in [Objects -> Versions]
    /\ rpc \in {"idle", "list", "walk", "checkpoint", "prune", "clean"}
    /\ at \in Objects
    /\ listed \in [Objects -> Versions]
    /\ trusted \subseteq Objects

\* Nothing on this side is newer than the object of the collection, nor than the
\* last upload: what is uploaded next is newer than all of it.
NothingNewer ==
    \A o \in Objects :
        /\ remote[o] <= clock
        /\ file[o] <= clock /\ listed[o] <= clock /\ index[o] <= clock /\ progress[o] <= clock
        /\ remote[o] # 0 => /\ file[o] <= remote[o] /\ listed[o] <= remote[o]
                            /\ index[o] <= remote[o] /\ progress[o] <= remote[o]

\* The refresh is past object o.
Past(o) ==
    \/ rpc = "walk" /\ o < at
    \/ rpc = "checkpoint" /\ o <= at
    \/ rpc \in {"prune", "clean"}

\* The objects that the refresh is past have what it listed, or newer.
WalkedHasListed ==
    \A o \in Objects \ trusted : Past(o) /\ file[o] # 0 => file[o] >= listed[o]

CacheInv == Typed /\ NothingNewer /\ WalkedHasListed /\ IndexNeverAhead

--------------------------------------------------------------------------------
LEMMA ObjectRange == Objects \subseteq Nat /\ 1 \in Objects /\ Versions \subseteq Nat /\ 0 \in Versions
  BY MirrorAssumption DEF Objects, Versions

LEMMA NoEntriesRange == NoEntries \in [Objects -> Versions] /\ \A o \in Objects : NoEntries[o] = 0
  BY ObjectRange DEF NoEntries

LEMMA CacheInitInv == CacheInit => CacheInv
  <1> SUFFICES ASSUME CacheInit PROVE CacheInv
    OBVIOUS
  <1>1. Typed
    BY ObjectRange DEF CacheInit, MirrorInit, NoEntries, Typed
  <1>2. NothingNewer
    BY ObjectRange DEF CacheInit, MirrorInit, NoEntries, NothingNewer
  <1>3. WalkedHasListed /\ IndexNeverAhead
    BY ObjectRange DEF CacheInit, MirrorInit, NoEntries, WalkedHasListed, Past, IndexNeverAhead
  <1> QED BY <1>1, <1>2, <1>3 DEF CacheInv

\* The next object of the walk, when there is one.
LEMMA NextObject ==
    ASSUME NEW o \in Objects
    PROVE  /\ o # 2 * NKeys => o + 1 \in Objects
           /\ \A p \in Objects : p <= 2 * NKeys
  BY MirrorAssumption DEF Objects

\* Steps of the clients of the collection.
LEMMA RemoteSteps ==
    ASSUME CacheInv, NEW o \in Objects, Upload(o) \/ RemoveRemote(o)
    PROVE  CacheInv'
  <1>1. /\ clock' \in Versions /\ clock' >= clock
        /\ remote' \in [Objects -> Versions]
        /\ \A p \in Objects : /\ remote'[p] = remote[p] \/ remote'[p] = 0 \/ remote'[p] = clock'
                              /\ remote'[p] <= clock'
    <2>1. clock \in Nat /\ \A p \in Objects : remote[p] \in Nat /\ remote[p] <= clock
      BY ObjectRange DEF CacheInv, Typed, NothingNewer
    <2>2. CASE Upload(o)
      <3>1. clock' = clock + 1 /\ clock' \in Versions /\ remote' = [remote EXCEPT ![o] = clock']
        BY <2>1, <2>2, MirrorAssumption DEF Upload, Versions
      <3> QED BY <2>1, <3>1 DEF CacheInv, Typed
    <2>3. CASE RemoveRemote(o)
      <3>1. clock' = clock /\ remote' = [remote EXCEPT ![o] = 0]
        BY <2>3 DEF RemoveRemote
      <3> QED BY <2>1, <3>1, ObjectRange DEF CacheInv, Typed
    <2> QED BY <2>2, <2>3
  <1>2. \A p \in Objects : remote'[p] # remote[p] /\ remote'[p] # 0 => remote'[p] = clock'
    BY <1>1
  <1>3. /\ UNCHANGED <<file, stamp, index, progress, rpc, at, listed, trusted>>
    BY DEF Upload, RemoveRemote, mirrorVars, refreshVars
  <1>4. Typed'
    BY <1>1, <1>3 DEF CacheInv, Typed
  <1>5. NothingNewer'
    <2> SUFFICES ASSUME NEW p \in Objects
                 PROVE  /\ remote'[p] <= clock'
                        /\ file[p] <= clock' /\ listed[p] <= clock'
                        /\ index[p] <= clock' /\ progress[p] <= clock'
                        /\ remote'[p] # 0 => /\ file[p] <= remote'[p] /\ listed[p] <= remote'[p]
                                             /\ index[p] <= remote'[p] /\ progress[p] <= remote'[p]
      BY <1>3 DEF NothingNewer
    <2>1. /\ file[p] \in Nat /\ listed[p] \in Nat /\ index[p] \in Nat /\ progress[p] \in Nat
          /\ clock \in Nat /\ clock' \in Nat
      BY <1>1, ObjectRange DEF CacheInv, Typed
    <2>2. /\ file[p] <= clock' /\ listed[p] <= clock' /\ index[p] <= clock' /\ progress[p] <= clock'
      BY <1>1, <2>1 DEF CacheInv, NothingNewer
    <2>3. CASE remote'[p] = remote[p]
      BY <1>1, <2>2, <2>3 DEF CacheInv, NothingNewer
    <2>4. CASE remote'[p] # remote[p]
      BY <1>1, <1>2, <2>2, <2>4
    <2> QED BY <2>3, <2>4
  <1>6. WalkedHasListed' /\ IndexNeverAhead'
    BY <1>3 DEF CacheInv, WalkedHasListed, Past, IndexNeverAhead
  <1> QED BY <1>4, <1>5, <1>6 DEF CacheInv

\* A listing, and a progress index, may be forgotten.
LEMMA ClearedListing ==
    ASSUME CacheInv, UNCHANGED <<remote, clock, file, stamp, index, trusted>>,
           progress' \in {progress, NoEntries}, listed' = NoEntries, at' = 1,
           rpc' \in {"idle", "list"}
    PROVE  Typed' /\ NothingNewer'
  <1>1. Typed'
    BY ObjectRange, NoEntriesRange DEF CacheInv, Typed
  <1>2. ASSUME NEW o \in Objects
        PROVE  listed'[o] <= clock /\ progress'[o] <= clock
               /\ (remote[o] # 0 => listed'[o] <= remote[o] /\ progress'[o] <= remote[o])
    <2>1. listed'[o] = 0 /\ (progress'[o] = progress[o] \/ progress'[o] = 0)
      BY NoEntriesRange
    <2>2. remote[o] \in Nat /\ clock \in Nat
      BY ObjectRange DEF CacheInv, Typed
    <2> QED BY <2>1, <2>2 DEF CacheInv, NothingNewer
  <1>3. NothingNewer'
    BY <1>2 DEF CacheInv, NothingNewer
  <1> QED BY <1>1, <1>3

\* Steps that leave every file, entry and listing alone or forget them.
LEMMA EndSteps ==
    ASSUME CacheInv, RefreshBegins \/ RefreshFails
    PROVE  CacheInv'
  <1>1. /\ UNCHANGED <<remote, clock, file, stamp, index, progress, trusted>>
        /\ listed' = NoEntries /\ at' = 1 /\ rpc' \in {"idle", "list"}
    BY DEF RefreshBegins, RefreshFails, RefreshStops, mirrorVars
  <1>2. Typed' /\ NothingNewer'
    BY <1>1, NoEntriesRange, ClearedListing
  <1>3. WalkedHasListed' /\ IndexNeverAhead'
    BY <1>1 DEF CacheInv, WalkedHasListed, Past, IndexNeverAhead
  <1> QED BY <1>2, <1>3 DEF CacheInv

LEMMA ListSteps ==
    ASSUME CacheInv, NEW repeats \in BOOLEAN, ListPage(repeats)
    PROVE  CacheInv'
  <1>1. /\ UNCHANGED <<remote, clock, file, stamp, index, progress, trusted>>
        /\ listed' \in {NoEntries, [listed EXCEPT ![at] = remote[at]]}
        /\ at' \in {1, at + 1} /\ (at' = at + 1 => at # 2 * NKeys \/ at' = 1)
        /\ rpc' \in {"idle", "list", "walk"} /\ (rpc' = "walk" => at' = 1)
    BY DEF ListPage, RefreshStops, mirrorVars
  <1>2. Typed'
    BY <1>1, ObjectRange, NextObject DEF CacheInv, Typed, NoEntries
  <1>3. NothingNewer'
    <2> SUFFICES ASSUME NEW p \in Objects
                 PROVE  listed'[p] <= clock /\ (remote[p] # 0 => listed'[p] <= remote[p])
      BY <1>1 DEF CacheInv, NothingNewer
    <2>1. listed'[p] = 0 \/ listed'[p] = remote[p] \/ listed'[p] = listed[p]
      BY <1>1, NoEntriesRange DEF CacheInv, Typed
    <2>2. remote[p] \in Nat /\ clock \in Nat /\ remote[p] <= clock /\ listed[p] <= clock
          /\ (remote[p] # 0 => listed[p] <= remote[p])
      BY ObjectRange DEF CacheInv, Typed, NothingNewer
    <2> QED BY <2>1, <2>2
  <1>4. WalkedHasListed' /\ IndexNeverAhead'
    BY <1>1, ObjectRange DEF CacheInv, WalkedHasListed, Past, IndexNeverAhead, Objects
  <1> QED BY <1>2, <1>3, <1>4 DEF CacheInv

\* Object `at` is left behind and has what is listed of it.
LEMMA WalkSteps ==
    ASSUME CacheInv, SkipObject \/ AdoptObject
    PROVE  CacheInv'
  <1>1. /\ UNCHANGED <<remote, clock, file, stamp, index, progress, listed>>
        /\ rpc = "walk" /\ Advance(at)
        /\ trusted' \in {trusted, trusted \union {at}}
    BY DEF SkipObject, AdoptObject, Advance, mirrorVars
  <1>2. Typed'
    BY <1>1, ObjectRange, NextObject DEF CacheInv, Typed, Advance
  <1>3. NothingNewer'
    BY <1>1 DEF CacheInv, NothingNewer
  <1>4. IndexNeverAhead'
    BY <1>1 DEF CacheInv, IndexNeverAhead
  <1>5. at \notin trusted' /\ file[at] # 0 => file[at] >= listed[at]
    <2>1. at \in Objects /\ file[at] \in Nat
      BY ObjectRange DEF CacheInv, Typed
    <2>2. CASE SkipObject
      <3>1. listed[at] = 0 \/ listed[at] = index[at] \/ listed[at] = progress[at]
        BY <2>2 DEF SkipObject, IsUnchanged
      <3>2. trusted' = trusted
        BY <2>2 DEF SkipObject
      <3> QED BY <2>1, <3>1, <3>2 DEF CacheInv, IndexNeverAhead
    <2>3. CASE AdoptObject
      BY <2>3 DEF AdoptObject
    <2> QED BY <2>2, <2>3
  <1>6. WalkedHasListed'
    <2> SUFFICES ASSUME NEW p \in Objects \ trusted', file[p] # 0
                 PROVE  file[p] >= listed[p] \/ ~Past(p)'
      BY <1>1 DEF WalkedHasListed
    <2>1. CASE p = at
      BY <1>5, <2>1
    <2>2. CASE p < at
      BY <1>1, <2>2 DEF CacheInv, WalkedHasListed, Past
    <2>3. CASE p > at
      BY <1>1, <2>3, ObjectRange, NextObject DEF CacheInv, Typed, Advance, Past
    <2> QED BY <2>1, <2>2, <2>3, ObjectRange DEF CacheInv, Typed
  <1> QED BY <1>2, <1>3, <1>4, <1>6 DEF CacheInv

LEMMA DownloadStep ==
    ASSUME CacheInv, Download
    PROVE  CacheInv'
  <1>1. CASE Acceptable(at)
    <2>1. /\ UNCHANGED <<remote, clock, index, progress, listed, at>>
          /\ file' = [file EXCEPT ![at] = remote[at]] /\ stamp' = [stamp EXCEPT ![at] = @ + 1]
          /\ trusted' = trusted \ {at} /\ rpc = "walk" /\ rpc' = "checkpoint"
          /\ remote[at] # 0
      BY <1>1 DEF Download, Put, Acceptable
    <2>2. Typed'
      BY <2>1 DEF CacheInv, Typed
    <2>3. NothingNewer'
      <3> SUFFICES ASSUME NEW p \in Objects
                   PROVE  file'[p] <= clock /\ (remote[p] # 0 => file'[p] <= remote[p])
        BY <2>1 DEF CacheInv, NothingNewer
      <3>1. file'[p] = file[p] \/ file'[p] = remote[p]
        BY <2>1 DEF CacheInv, Typed
      <3>2. remote[p] \in Nat /\ remote[p] <= clock
        BY ObjectRange DEF CacheInv, Typed, NothingNewer
      <3> QED BY <3>1, <3>2 DEF CacheInv, NothingNewer
    <2>4. file'[at] >= listed[at] /\ file'[at] >= index[at] /\ file'[at] >= progress[at]
      BY <2>1, ObjectRange DEF CacheInv, Typed, NothingNewer
    <2>5. \A p \in Objects \ {at} : file'[p] = file[p] /\ (Past(p)' => Past(p))
      BY <2>1, ObjectRange DEF CacheInv, Typed, Past
    <2>6. WalkedHasListed' /\ IndexNeverAhead'
      BY <2>1, <2>4, <2>5 DEF CacheInv, WalkedHasListed, IndexNeverAhead
    <2> QED BY <2>2, <2>3, <2>6 DEF CacheInv
  <1>2. CASE ~Acceptable(at)
    <2>1. /\ UNCHANGED <<remote, clock, file, stamp, index, progress, trusted>>
          /\ listed' = NoEntries /\ at' = 1 /\ rpc' = "idle"
      BY <1>2 DEF Download, RefreshStops, mirrorVars
    <2>2. Typed' /\ NothingNewer'
      BY <2>1, NoEntriesRange, ClearedListing
    <2>3. WalkedHasListed' /\ IndexNeverAhead'
      BY <2>1 DEF CacheInv, WalkedHasListed, Past, IndexNeverAhead
    <2> QED BY <2>2, <2>3 DEF CacheInv
  <1> QED BY <1>1, <1>2

LEMMA CheckpointStep ==
    ASSUME CacheInv, Checkpoint
    PROVE  CacheInv'
  <1>1. /\ UNCHANGED <<remote, clock, file, stamp, index, listed, trusted>>
        /\ rpc = "checkpoint" /\ Advance(at)
        /\ progress' = [progress EXCEPT ![at] = listed[at]]
    BY DEF Checkpoint, Advance, mirrorVars
  <1>2. Typed'
    <2>1. at' \in Objects /\ rpc' \in {"walk", "prune"}
      BY <1>1, ObjectRange, NextObject DEF CacheInv, Typed, Advance
    <2>2. progress' \in [Objects -> Versions]
      BY <1>1 DEF CacheInv, Typed
    <2> QED BY <1>1, <2>1, <2>2 DEF CacheInv, Typed
  <1>3. NothingNewer'
    BY <1>1 DEF CacheInv, Typed, NothingNewer
  <1>4. at \notin trusted /\ file[at] # 0 => file[at] >= listed[at]
    BY <1>1, ObjectRange DEF CacheInv, Typed, WalkedHasListed, Past
  <1>5. IndexNeverAhead'
    BY <1>1, <1>4 DEF CacheInv, Typed, IndexNeverAhead
  <1>6. \A p \in Objects : Past(p)' => Past(p)
    BY <1>1, ObjectRange, NextObject DEF CacheInv, Typed, Advance, Past
  <1>7. WalkedHasListed'
    BY <1>1, <1>6 DEF CacheInv, WalkedHasListed
  <1> QED BY <1>2, <1>3, <1>5, <1>7 DEF CacheInv

LEMMA PruneStep ==
    ASSUME CacheInv, NEW o \in Objects, PruneObject(o)
    PROVE  CacheInv'
  <1>1. /\ UNCHANGED <<remote, clock, index, progress, listed, at, rpc>>
        /\ file' = [file EXCEPT ![o] = 0] /\ stamp' = [stamp EXCEPT ![o] = @ + 1]
        /\ trusted' = trusted \ {o}
    BY DEF PruneObject, Put, refreshVars
  <1>2. Typed'
    BY <1>1, ObjectRange DEF CacheInv, Typed
  <1>3. NothingNewer'
    <2> SUFFICES ASSUME NEW p \in Objects
                 PROVE  file'[p] <= clock /\ (remote[p] # 0 => file'[p] <= remote[p])
      BY <1>1 DEF CacheInv, NothingNewer
    <2>1. file'[p] = file[p] \/ file'[p] = 0
      BY <1>1 DEF CacheInv, Typed
    <2>2. remote[p] \in Nat /\ clock \in Nat
      BY ObjectRange DEF CacheInv, Typed
    <2> QED BY <2>1, <2>2 DEF CacheInv, NothingNewer
  <1>4. \A p \in Objects : file'[p] = file[p] \/ (file'[p] = 0 /\ p = o)
    BY <1>1 DEF CacheInv, Typed
  <1>5. file'[o] = 0
    BY <1>1 DEF CacheInv, Typed
  <1>6. WalkedHasListed' /\ IndexNeverAhead'
    BY <1>1, <1>4, <1>5 DEF CacheInv, WalkedHasListed, Past, IndexNeverAhead
  <1> QED BY <1>2, <1>3, <1>6 DEF CacheInv

LEMMA IndexSteps ==
    ASSUME CacheInv, WriteIndex \/ RemoveProgress
    PROVE  CacheInv'
  <1>1. CASE WriteIndex
    <2>1. /\ UNCHANGED <<remote, clock, file, stamp, progress, listed, at, trusted>>
          /\ rpc = "prune" /\ rpc' = "clean" /\ index' = listed
      BY <1>1 DEF WriteIndex, mirrorVars
    <2>2. Typed' /\ NothingNewer'
      BY <2>1 DEF CacheInv, Typed, NothingNewer
    <2>3. WalkedHasListed' /\ IndexNeverAhead'
      BY <2>1 DEF CacheInv, WalkedHasListed, Past, IndexNeverAhead
    <2> QED BY <2>2, <2>3 DEF CacheInv
  <1>2. CASE RemoveProgress
    <2>1. /\ UNCHANGED <<remote, clock, file, stamp, index, trusted>>
          /\ progress' = NoEntries /\ listed' = NoEntries /\ at' = 1 /\ rpc' = "idle"
      BY <1>2 DEF RemoveProgress, RefreshStops, mirrorVars
    <2>2. Typed' /\ NothingNewer'
      BY <2>1, NoEntriesRange, ClearedListing
    <2>3. WalkedHasListed'
      BY <2>1 DEF CacheInv, WalkedHasListed, Past
    <2>4. IndexNeverAhead'
      <3>1. \A o \in Objects : progress'[o] = 0 /\ file[o] \in Nat
        BY <2>1, NoEntriesRange, ObjectRange DEF CacheInv, Typed
      <3> QED BY <2>1, <3>1 DEF CacheInv, IndexNeverAhead
    <2> QED BY <2>2, <2>3, <2>4 DEF CacheInv
  <1> QED BY <1>1, <1>2

LEMMA CacheNextInv == CacheInv /\ [CacheNext]_cacheVars => CacheInv'
  <1> SUFFICES ASSUME CacheInv, [CacheNext]_cacheVars PROVE CacheInv'
    OBVIOUS
  <1>1. CASE \E o \in Objects : Upload(o) \/ RemoveRemote(o)
    BY <1>1, RemoteSteps
  <1>2. CASE \E o \in Objects : PruneObject(o)
    BY <1>2, PruneStep
  <1>3. CASE RefreshBegins \/ RefreshFails \/ BadPage
    BY <1>3, EndSteps DEF BadPage
  <1>4. CASE \E repeats \in BOOLEAN : ListPage(repeats)
    BY <1>4, ListSteps
  <1>5. CASE SkipObject \/ AdoptObject
    BY <1>5, WalkSteps
  <1>6. CASE Download
    BY <1>6, DownloadStep
  <1>7. CASE Checkpoint
    BY <1>7, CheckpointStep
  <1>8. CASE WriteIndex \/ RemoveProgress
    BY <1>8, IndexSteps
  <1>9. CASE UNCHANGED cacheVars
    BY <1>9 DEF cacheVars, CacheInv, Typed, NothingNewer, WalkedHasListed, Past, IndexNeverAhead
  <1> QED BY <1>1, <1>2, <1>3, <1>4, <1>5, <1>6, <1>7, <1>8, <1>9 DEF CacheNext

LEMMA CacheInvariant == CacheSpec => []CacheInv
  BY CacheInitInv, CacheNextInv, PTL DEF CacheSpec

\* However refreshes were interrupted and whatever was uploaded or removed
\* meanwhile, neither the index nor the progress index of
\* refresh_webdav_cache names a version the mirrored file is older than.
THEOREM IndexIsNeverAhead == CacheSpec => []IndexNeverAhead
  BY CacheInvariant, PTL DEF CacheInv

--------------------------------------------------------------------------------
\* While nobody uploads or removes, the listing is the collection as far as it
\* goes, and what the walk is past is as listed; before the index is written the
\* objects that are gone are.
QuietWalk ==
    quiet =>
        /\ rpc = "list" => \A o \in Objects : o < at => listed[o] = remote[o]
        /\ rpc \in {"walk", "checkpoint", "prune", "clean"} => listed = remote
        /\ \A o \in Objects \ trusted : Past(o) /\ listed[o] # 0 => file[o] = listed[o]
        /\ rpc = "clean" /\ "prune" \in opts =>
               \A o \in Objects : listed[o] = 0 => file[o] = 0

LEMMA QuietInit == CacheInit => QuietWalk
  BY DEF CacheInit, QuietWalk

\* An upload or a removal ends the quiet; the end of a refresh ends the walk.
LEMMA QuietEnds == ASSUME ~quiet' \/ rpc' = "idle" PROVE QuietWalk'
  BY DEF QuietWalk, Past

LEMMA QuietListing ==
    ASSUME CacheInv, QuietWalk, NEW repeats \in BOOLEAN, ListPage(repeats)
    PROVE  QuietWalk'
  <1>1. CASE repeats /\ remote[at - 1] # listed[at - 1]
    BY <1>1, QuietEnds DEF ListPage, RefreshStops
  <1>2. CASE ~(repeats /\ remote[at - 1] # listed[at - 1])
    <2>1. /\ rpc = "list" /\ listed' = [listed EXCEPT ![at] = remote[at]]
          /\ at' = (IF at = 2 * NKeys THEN 1 ELSE at + 1)
          /\ rpc' = (IF at = 2 * NKeys THEN "walk" ELSE "list")
          /\ UNCHANGED <<opts, remote, file, trusted, quiet>>
      BY <1>2 DEF ListPage, mirrorVars
    <2>2. at \in Objects /\ Objects \subseteq Nat /\ 1 \in Objects
          /\ listed \in [Objects -> Versions] /\ remote \in [Objects -> Versions]
      BY ObjectRange DEF CacheInv, Typed
    <2>3. \A o \in Objects : o <= 2 * NKeys
      BY MirrorAssumption DEF Objects
    <2>4. ASSUME quiet, NEW o \in Objects, o <= at PROVE listed'[o] = remote[o]
      BY <2>1, <2>2, <2>4 DEF QuietWalk
    <2>5. CASE at = 2 * NKeys
      <3>1. quiet => listed' = remote
        BY <2>1, <2>2, <2>3, <2>4, <2>5
      <3>2. rpc' = "walk" /\ \A o \in Objects : ~(o < at')
        BY <2>1, <2>2, <2>5 DEF Objects
      <3> QED BY <2>1, <3>1, <3>2 DEF QuietWalk, Past
    <2>6. CASE at # 2 * NKeys
      <3>1. rpc' = "list" /\ \A o \in Objects : o < at' => o <= at
        BY <2>1, <2>2, <2>6
      <3> QED BY <2>1, <2>4, <3>1 DEF QuietWalk, Past
    <2> QED BY <2>5, <2>6
  <1> QED BY <1>1, <1>2

\* What the walk skips is as listed: its entry is that version, the file is no
\* older than the entry, and nothing is newer than the collection.
LEMMA UnchangedIsListed ==
    ASSUME CacheInv, NEW o \in Objects \ trusted, listed = remote,
           IsUnchanged(o, index[o]) \/ IsUnchanged(o, progress[o])
    PROVE  file[o] = listed[o]
  <1>1. file[o] # 0 /\ listed[o] # 0 /\ (index[o] = listed[o] \/ progress[o] = listed[o])
    BY DEF IsUnchanged
  <1>2. file[o] >= index[o] /\ file[o] >= progress[o] /\ file[o] <= remote[o]
    BY <1>1 DEF CacheInv, IndexNeverAhead, NothingNewer
  <1>3. file[o] \in Nat /\ listed[o] \in Nat
    BY ObjectRange DEF CacheInv, Typed
  <1> QED BY <1>1, <1>2, <1>3

\* The walk is past one object more.
LEMMA PastMore ==
    ASSUME CacheInv, NEW o \in Objects, o = at, rpc \in {"walk", "checkpoint"}, Advance(o),
           NEW q \in Objects, Past(q)'
    PROVE  Past(q) \/ q = o
  <1>1. at' = (IF o = 2 * NKeys THEN 1 ELSE o + 1) /\ rpc' = (IF o = 2 * NKeys THEN "prune" ELSE "walk")
    BY DEF Advance
  <1>2. o \in Nat /\ q \in Nat /\ q <= 2 * NKeys
    BY ObjectRange, NextObject
  <1> QED BY <1>1, <1>2 DEF Past

LEMMA QuietWalking ==
    ASSUME CacheInv, QuietWalk, SkipObject \/ AdoptObject \/ Checkpoint
    PROVE  QuietWalk'
  <1>1. /\ rpc \in {"walk", "checkpoint"} /\ Advance(at) /\ at \in Objects
        /\ UNCHANGED <<remote, file, listed, opts, quiet>> /\ trusted \subseteq trusted'
        /\ rpc' \in {"prune", "walk"}
    BY DEF SkipObject, AdoptObject, Checkpoint, Advance, mirrorVars, CacheInv, Typed
  <1>2. ASSUME quiet, NEW q \in Objects \ trusted', Past(q)', listed[q] # 0
        PROVE  file[q] = listed[q]
    <2>1. Past(q) \/ q = at
      BY <1>1, <1>2, PastMore
    <2>2. CASE Past(q)
      BY <1>1, <1>2, <2>2 DEF QuietWalk
    <2>3. CASE q = at /\ ~Past(q)
      <3>1. SkipObject
        BY <1>1, <1>2, <2>3 DEF AdoptObject, Checkpoint, Past, CacheInv, Typed, Objects
      <3>2. listed = remote /\ (IsUnchanged(q, index[q]) \/ IsUnchanged(q, progress[q]))
        BY <1>1, <1>2, <2>3, <3>1 DEF SkipObject, QuietWalk
      <3> QED BY <1>1, <1>2, <3>2, UnchangedIsListed
    <2> QED BY <2>1, <2>2, <2>3
  <1> QED BY <1>1, <1>2 DEF QuietWalk

LEMMA QuietDownload == ASSUME CacheInv, QuietWalk, Download PROVE QuietWalk'
  <1>1. CASE ~Acceptable(at)
    BY <1>1, QuietEnds DEF Download, RefreshStops
  <1>2. CASE Acceptable(at)
    <2>1. /\ rpc = "walk" /\ rpc' = "checkpoint" /\ file' = [file EXCEPT ![at] = remote[at]]
          /\ trusted' = trusted \ {at} /\ UNCHANGED <<remote, listed, at, opts, quiet>>
      BY <1>2 DEF Download, Put
    <2>2. at \in Objects /\ Objects \subseteq Nat /\ file \in [Objects -> Versions]
      BY ObjectRange DEF CacheInv, Typed
    <2>3. ASSUME quiet, NEW o \in Objects \ trusted', Past(o)', listed[o] # 0
          PROVE  file'[o] = listed[o]
      <3>1. listed = remote
        BY <2>1, <2>3 DEF QuietWalk
      <3>2. CASE o = at
        BY <2>1, <2>2, <3>1, <3>2
      <3>3. CASE o # at
        BY <2>1, <2>2, <2>3, <3>3 DEF QuietWalk, Past
      <3> QED BY <3>2, <3>3
    <2> QED BY <2>1, <2>3 DEF QuietWalk
  <1> QED BY <1>1, <1>2

LEMMA QuietEnding ==
    ASSUME CacheInv, QuietWalk,
           WriteIndex \/ \E o \in Objects : PruneObject(o)
    PROVE  QuietWalk'
  <1>1. CASE WriteIndex
    <2>1. rpc = "prune" /\ rpc' = "clean" /\ UNCHANGED <<file, listed, remote, opts, trusted, quiet>>
          /\ ("prune" \in opts => Gone = {})
      BY <1>1 DEF WriteIndex, mirrorVars
    <2> QED BY <2>1 DEF QuietWalk, Past, Gone
  <1>2. ASSUME NEW o \in Objects, PruneObject(o) PROVE QuietWalk'
    <2>1. rpc = "prune" /\ listed[o] = 0 /\ file' = [file EXCEPT ![o] = 0]
          /\ trusted' = trusted \ {o} /\ UNCHANGED <<rpc, at, listed, remote, opts, quiet>>
      BY <1>2 DEF PruneObject, Gone, Put, refreshVars
    <2>2. file \in [Objects -> Versions]
      BY DEF CacheInv, Typed
    <2> QED BY <2>1, <2>2 DEF QuietWalk, Past
  <1> QED BY <1>1, <1>2

LEMMA QuietNext == ASSUME CacheInv, QuietWalk, [CacheNext]_cacheVars PROVE QuietWalk'
  <1>1. CASE \E o \in Objects : Upload(o) \/ RemoveRemote(o)
    BY <1>1, QuietEnds DEF Upload, RemoveRemote
  <1>2. CASE RefreshFails \/ BadPage \/ RemoveProgress
    BY <1>2, QuietEnds DEF RefreshFails, BadPage, RemoveProgress, RefreshStops
  <1>3. CASE RefreshBegins
    BY <1>3, ObjectRange DEF RefreshBegins, QuietWalk, Past, Objects
  <1>4. CASE \E repeats \in BOOLEAN : ListPage(repeats)
    BY <1>4, QuietListing
  <1>5. CASE SkipObject \/ AdoptObject \/ Checkpoint
    BY <1>5, QuietWalking
  <1>6. CASE Download
    BY <1>6, QuietDownload
  <1>7. CASE WriteIndex \/ \E o \in Objects : PruneObject(o)
    BY <1>7, QuietEnding
  <1>8. CASE UNCHANGED cacheVars
    BY <1>8 DEF cacheVars, QuietWalk, Past
  <1> QED BY <1>1, <1>2, <1>3, <1>4, <1>5, <1>6, <1>7, <1>8 DEF CacheNext

\* A refresh_webdav_cache during which the collection did not change leaves a
\* mirror equal to it, but for adopted files; with prune, nothing else is left.
THEOREM RefreshLeavesMirror == CacheSpec => []RefreshMirrors
  <1>1. QuietWalk => RefreshMirrors
    BY DEF QuietWalk, RefreshMirrors, Past
  <1> QED BY <1>1, CacheInvariant, QuietInit, QuietNext, PTL DEF CacheSpec

--------------------------------------------------------------------------------
\* A step replaces one file by complete content that is no older, removes one,
\* or leaves the mirror alone.
LEMMA StepIsMirrorStep == CacheInv /\ [CacheNext]_cacheVars => [MirrorNext]_mirrorVars
  <1> SUFFICES ASSUME CacheInv, [CacheNext]_cacheVars PROVE [MirrorNext]_mirrorVars
    OBVIOUS
  <1>1. CASE Download /\ Acceptable(at)
    <2>1. at \in Objects /\ remote[at] \in 1..MaxVersion /\ remote[at] >= file[at]
      BY <1>1, ObjectRange, MirrorAssumption
      DEF CacheInv, Typed, NothingNewer, Acceptable, Versions
    <2>2. Put(at, remote[at])
      BY <1>1 DEF Download
    <2> QED BY <2>1, <2>2 DEF MirrorNext, Replace
  <1>2. CASE Download /\ ~Acceptable(at)
    BY <1>2 DEF Download
  <1>3. ASSUME NEW o \in Objects, PruneObject(o) PROVE MirrorNext
    <2>1. Put(o, 0) /\ file[o] # 0
      BY <1>3 DEF PruneObject, Gone
    <2> QED BY <2>1 DEF MirrorNext, Remove
  <1>4. CASE \/ \E o \in Objects : Upload(o) \/ RemoveRemote(o)
             \/ RefreshBegins \/ RefreshFails \/ BadPage
             \/ \E repeats \in BOOLEAN : ListPage(repeats)
             \/ SkipObject \/ AdoptObject \/ Checkpoint \/ WriteIndex \/ RemoveProgress
    BY <1>4 DEF Upload, RemoveRemote, RefreshBegins, RefreshFails, BadPage, ListPage, SkipObject,
                AdoptObject, Checkpoint, WriteIndex, RemoveProgress
  <1>5. CASE UNCHANGED cacheVars
    BY <1>5 DEF cacheVars, mirrorVars
  <1> QED BY <1>1, <1>2, <1>3, <1>4, <1>5 DEF CacheNext

\* The refresh implements the mirror that attachment syncs, which hold another
\* lock, read files from (NutstoreWebDAVClient.download, _prune_cache).
THEOREM RefreshImplementsMirror == CacheSpec => RefreshIsMirror
  <1>1. CacheInit => MirrorInit
    BY DEF CacheInit
  <1> QED BY <1>1, CacheInvariant, StepIsMirrorStep, PTL DEF CacheSpec, RefreshIsMirror, MirrorSpec

-----------------------------------------------------------------------------
(* The attachments.                                                        *)

MemberNames == Names \cup {"none"}
Pdfs == Versions \X MemberNames
Metas == [name : MemberNames, ver : Nat, live : BOOLEAN]
Statuses ==
    {"none", "ready", "mapping_unverified", "unsupported_attachment", "missing_archive",
     "unstable_archive", "invalid_archive", "missing_pdf", "ambiguous_attachment", "error"}
AttachmentRows ==
    [status : Statuses, dir : {0, 1}, arch : Versions, stamp : Nat, pdf : Pdfs,
     prop : BOOLEAN, name : MemberNames, ver : Nat]
Looks == [problem : {"none", "missing_archive", "unstable_archive"}, sig : Nat \X Nat]
Mappings == [status : {"none", "verified", "unverified"}, dir : {0, 1}]
Jobs == [meta : [Keys -> Metas], policy : {"all", "changed", "none"}, chosen : SUBSET Keys,
         asked : SUBSET Keys, mapping : Mappings]

\* Where a sync has an attachment at hand.
Resolving == {"hash", "reuse", "extract", "stage"}

AttachmentTyped ==
    /\ file \in [Objects -> Versions] /\ stamp \in [Objects -> Nat]
    /\ meta \in [Keys -> Metas] /\ rows \in [Keys -> AttachmentRows]
    /\ extracted \in [Keys -> Pdfs] /\ mapping \in Mappings /\ dir \in {0, 1}
    /\ spc \in {"idle", "map", "observe", "confirm", "commit"} \cup Resolving
    /\ spc # "idle" => job \in Jobs
    /\ look \in [Keys -> Looks] /\ found \in [Keys -> AttachmentRows]
    /\ staged \in [Keys -> Pdfs]
    /\ arch \in Versions /\ pdf \in Pdfs
    /\ spc \in Resolving => cur \in job.asked

\* A row with a PDF has it from the archive it names, by its own file name.
RowIsFromArchive(r) ==
    /\ r.status = "ready" => r.pdf # NoPdf
    /\ r.pdf # NoPdf =>
         /\ r.arch # 0 /\ r.pdf[1] = r.arch
         /\ Selected(r.arch, r.name) = [status |-> "ready", member |-> r.pdf[2]]

\* The stamp of a ready row that is still the archive's tells that the archive
\* is still the one it was made from.
RowKnowsArchive(k, r) ==
    r.status = "ready" /\ r.dir = dir =>
        /\ r.stamp <= stamp[Zip(k)]
        /\ r.stamp = stamp[Zip(k)] => r.arch = file[Zip(k)]

RowsInv ==
    \A k \in Keys :
        /\ RowIsFromArchive(rows[k]) /\ RowKnowsArchive(k, rows[k]) /\ rows[k].dir <= dir
        /\ rows[k].status # "none" => rows[k].name = meta[k].name /\ rows[k].ver = meta[k].ver

\* What the sync asks for is live, and an attachment it does not ask for kept
\* its metadata.
JobInv ==
    spc # "idle" =>
        /\ job.asked \subseteq Eligible(job.meta)
        /\ \A k \in Eligible(job.meta) \ job.asked : job.meta[k] = meta[k]
        /\ spc \in Resolving \cup {"observe", "confirm"} => job.asked # {}

\* The resolutions so far, and the files staged for them.
FoundInv ==
    \A k \in Keys :
        /\ found[k].status # "none" =>
             /\ k \in job.asked /\ found[k].dir = dir
             /\ spc = "commit" \/ (spc \in Resolving /\ k < cur)
             /\ found[k].name = job.meta[k].name /\ found[k].ver = job.meta[k].ver
        /\ RowIsFromArchive(found[k]) /\ RowKnowsArchive(k, found[k]) /\ found[k].dir <= dir
        /\ staged[k] # NoPdf => found[k].status = "ready" /\ staged[k] = found[k].pdf
        /\ found[k].status = "ready" /\ staged[k] = NoPdf => extracted[k] = found[k].pdf

\* The archive at hand, as long as its stamp is the first observed one.
CurrentInv ==
    spc \in {"reuse", "extract", "stage"} =>
        /\ arch # 0
        /\ look[cur].sig[1] <= stamp[Zip(cur)]
        /\ look[cur].sig[1] = stamp[Zip(cur)] => file[Zip(cur)] = arch
        /\ spc = "stage" =>
             /\ pdf[1] # 0
             /\ Selected(pdf[1], job.meta[cur].name) = [status |-> "ready", member |-> pdf[2]]
             /\ look[cur].sig[1] = stamp[Zip(cur)] => pdf[1] = arch

\* What was seen of an archive was seen before.
LookInv ==
    \A k \in Keys : look[k].sig[1] <= stamp[Zip(k)]

\* A row that tells what the archive of k lets be selected now.
TellsArchive(k, name, r) ==
    IF Located(k) = "none" /\ Selected(file[Zip(k)], name).status = "ready"
    THEN r.status = "ready" /\ r.arch = file[Zip(k)]
    ELSE r.status # "ready"

\* The sync is past attachment k.
IsResolved(k) ==
    \/ spc \in Resolving /\ k < cur
    \/ spc = "commit" /\ job.mapping.status = "verified"

\* In a complete scan during which no archive changed, rows and resolutions tell
\* the archives as they are.
CalmInv ==
    spc # "idle" /\ calm =>
        /\ \A k \in Eligible(job.meta) \ job.asked : TellsArchive(k, job.meta[k].name, rows[k])
        /\ \A k \in job.asked :
              /\ spc \in Resolving \cup {"confirm"} =>
                    look[k] = [problem |-> Located(k), sig |-> Signature(k)]
              /\ IsResolved(k) => TellsArchive(k, job.meta[k].name, found[k])

AttachmentInv ==
    /\ AttachmentTyped /\ RowsInv /\ JobInv /\ FoundInv /\ LookInv /\ CurrentInv /\ CalmInv
    /\ ReadyHasFile /\ ScanIsComplete

--------------------------------------------------------------------------------
LEMMA KeyObjects ==
    /\ Keys \subseteq Nat /\ 0 \notin Keys
    /\ \A k \in Keys : Zip(k) \in Objects /\ Prop(k) \in Objects
    /\ Versions \subseteq Nat /\ 0 \in Versions
  BY MirrorAssumption DEF Keys, Objects, Zip, Prop, Versions

LEMMA NothingTyped ==
    /\ NoPdf \in Pdfs /\ NoMeta \in Metas /\ NoRow \in AttachmentRows /\ NoLook \in Looks
    /\ RowIsFromArchive(NoRow) /\ NoRow.status = "none" /\ NoRow.dir = 0
  <1>1. NoPdf \in Pdfs /\ NoMeta \in Metas /\ NoLook \in Looks
    BY KeyObjects DEF NoPdf, NoMeta, NoLook, Pdfs, Metas, Looks, MemberNames
  <1>2. NoRow \in AttachmentRows /\ NoRow.status = "none" /\ NoRow.dir = 0
    BY <1>1, KeyObjects DEF NoRow, AttachmentRows, MemberNames, Statuses
  <1>3. NoRow.pdf = NoPdf
    BY DEF NoRow
  <1> QED BY <1>1, <1>2, <1>3 DEF RowIsFromArchive

\* The rule of _inspect_open picks a member of the archive, or says why not.
LEMMA SelectedTyped ==
    ASSUME NEW v \in Versions, v # 0, NEW name
    PROVE  /\ Selected(v, name).status \in
                 {"ready", "invalid_archive", "missing_pdf", "ambiguous_attachment"}
           /\ Selected(v, name).member \in MemberNames
           /\ Selected(v, name) = [status |-> Selected(v, name).status,
                                   member |-> Selected(v, name).member]
  <1>1. v \in 1..MaxVersion
    BY MirrorAssumption DEF Versions
  <1>2. Members[v] \subseteq Names
    BY <1>1, AttachmentAssumption
  <1>3. Members[v] # {} => (CHOOSE m \in Members[v] : TRUE) \in Members[v]
    OBVIOUS
  <1> QED BY <1>2, <1>3 DEF Selected, MemberNames

LEMMA LeastKey == ASSUME NEW S \in SUBSET Nat, S # {} PROVE \E x \in S : \A y \in S : x <= y
  <1> DEFINE T == {0..x : x \in S}
  <1>1. T \subseteq FiniteSubsetsOf(Nat) /\ T # {}
    <2>1. \A x \in S : IsFiniteSet(0..x) /\ 0..x \in SUBSET Nat
      BY FS_Interval
    <2> QED BY <2>1 DEF FiniteSubsetsOf
  <1>2. PICK t \in T : \A u \in T : <<u, t>> \notin StrictSubsetOrdering(Nat)
    BY <1>1, FS_StrictSubsetOrderingWellFounded, WFMin
  <1>3. PICK x \in S : t = 0..x
    BY <1>2
  <1>4. ASSUME NEW y \in S, y < x PROVE FALSE
    <2>1. 0..y \subseteq t /\ 0..y # t /\ 0..y \in T
      BY <1>3, <1>4
    <2>2. 0..y \in SUBSET Nat /\ t \in SUBSET Nat
      BY <1>3
    <2>3. <<0..y, t>> \in StrictSubsetOrdering(Nat)
      BY <2>1, <2>2 DEF StrictSubsetOrdering
    <2> QED BY <2>1, <2>3, <1>2
  <1> QED BY <1>4

\* The attachments are resolved in the order of their numbers.
LEMMA NextKeyIsNext ==
    ASSUME NEW k \in Nat, job.asked \subseteq Keys, Following(k) # {}
    PROVE  /\ NextKey(k) \in job.asked /\ NextKey(k) > k
           /\ \A j \in job.asked : j < NextKey(k) => j <= k
  <1>1. Following(k) \in SUBSET Nat
    BY KeyObjects DEF Following
  <1>2. NextKey(k) \in Following(k) /\ \A i \in Following(k) : NextKey(k) <= i
    BY <1>1, LeastKey DEF NextKey
  <1>3. NextKey(k) \in Nat /\ NextKey(k) \in job.asked /\ NextKey(k) > k
    BY <1>1, <1>2 DEF Following
  <1>4. \A j \in job.asked : j > k => NextKey(k) <= j
    BY <1>2 DEF Following
  <1>5. job.asked \subseteq Nat
    BY KeyObjects
  <1> QED BY <1>3, <1>4, <1>5

LEMMA LocatedTyped ==
    ASSUME AttachmentTyped, NEW k \in Keys
    PROVE  /\ Located(k) \in {"none", "missing_archive", "unstable_archive"}
           /\ Located(k) = "none" => file[Zip(k)] # 0
           /\ Signature(k) \in Nat \X Nat /\ Signature(k)[1] = stamp[Zip(k)]
  BY KeyObjects DEF Located, LocationWithProp, Signature, AttachmentTyped

--------------------------------------------------------------------------------
LEMMA AttachmentInitInv == AttachmentInit => AttachmentInv
  <1> SUFFICES ASSUME AttachmentInit PROVE AttachmentInv
    OBVIOUS
  <1>1. /\ spc = "idle" /\ mapping = [status |-> "none", dir |-> 0] /\ dir = 0
        /\ file = NoEntries /\ stamp = NoEntries /\ arch = 0 /\ pdf = NoPdf
        /\ meta = [k \in Keys |-> NoMeta] /\ rows = [k \in Keys |-> NoRow]
        /\ extracted = [k \in Keys |-> NoPdf] /\ look = [k \in Keys |-> NoLook]
        /\ found = [k \in Keys |-> NoRow] /\ staged = [k \in Keys |-> NoPdf]
    BY DEF AttachmentInit, MirrorInit
  <1>2. file \in [Objects -> Versions] /\ stamp \in [Objects -> Nat]
    BY <1>1, KeyObjects DEF NoEntries
  <1>3. AttachmentTyped
    BY <1>1, <1>2, NothingTyped, KeyObjects DEF AttachmentTyped, Mappings, Resolving
  <1>4. \A k \in Keys : NoLook.sig[1] <= stamp[Zip(k)]
    BY <1>1, KeyObjects DEF NoLook, NoEntries
  <1> QED BY <1>1, <1>3, <1>4, NothingTyped
          DEF AttachmentInv, RowsInv, JobInv, FoundInv, LookInv, CurrentInv, CalmInv, ReadyHasFile,
              ScanIsComplete, RowKnowsArchive, Resolving

\* The mirror changes: a file that has its old stamp is the old file.
LEMMA MirrorMoves ==
    ASSUME AttachmentTyped, MirrorNext
    PROVE  /\ file' \in [Objects -> Versions] /\ stamp' \in [Objects -> Nat]
           /\ \A o \in Objects : /\ stamp[o] <= stamp'[o]
                                 /\ stamp'[o] = stamp[o] => file'[o] = file[o]
  <1>1. PICK o \in Objects, v \in Versions :
            file' = [file EXCEPT ![o] = v] /\ stamp' = [stamp EXCEPT ![o] = @ + 1]
    BY KeyObjects, MirrorAssumption DEF MirrorNext, Replace, Remove, Put, Versions
  <1> QED BY <1>1 DEF AttachmentTyped

LEMMA MirrorStepInv == ASSUME AttachmentInv, MirrorStep PROVE AttachmentInv'
  <1>1. /\ MirrorNext /\ ~calm'
        /\ UNCHANGED <<meta, rows, extracted, mapping, dir, spc, job, look, cur, arch, pdf, found,
                       staged, lost>>
    BY DEF MirrorStep, tables, work
  <1>2. /\ file' \in [Objects -> Versions] /\ stamp' \in [Objects -> Nat]
        /\ \A k \in Keys : /\ stamp[Zip(k)] <= stamp'[Zip(k)] /\ stamp[Zip(k)] \in Nat
                           /\ stamp'[Zip(k)] \in Nat
                           /\ stamp'[Zip(k)] = stamp[Zip(k)] => file'[Zip(k)] = file[Zip(k)]
    BY <1>1, MirrorMoves, KeyObjects DEF AttachmentInv, AttachmentTyped
  <1>3. AttachmentTyped'
    BY <1>1, <1>2 DEF AttachmentInv, AttachmentTyped
  <1>4. ASSUME NEW k \in Keys, NEW r \in AttachmentRows, RowKnowsArchive(k, r)
        PROVE  r.status = "ready" /\ r.dir = dir =>
                 /\ r.stamp <= stamp'[Zip(k)]
                 /\ r.stamp = stamp'[Zip(k)] => r.arch = file'[Zip(k)]
    BY <1>2, <1>4 DEF RowKnowsArchive, AttachmentRows
  <1>5. RowsInv'
    BY <1>1, <1>4 DEF AttachmentInv, AttachmentTyped, RowsInv, RowKnowsArchive, RowIsFromArchive
  <1>6. JobInv' /\ ReadyHasFile'
    BY <1>1 DEF AttachmentInv, JobInv, ReadyHasFile, Eligible
  <1>7. FoundInv'
    BY <1>1, <1>4 DEF AttachmentInv, AttachmentTyped, FoundInv, RowKnowsArchive, RowIsFromArchive
  <1>8. \A k \in Keys : look[k].sig[1] \in Nat
    BY DEF AttachmentInv, AttachmentTyped, Looks
  <1>9. LookInv'
    BY <1>1, <1>2, <1>8 DEF AttachmentInv, LookInv
  <1>10. spc \in Resolving => cur \in Keys
    BY DEF AttachmentInv, AttachmentTyped, Jobs, Resolving
  <1>11. CurrentInv'
    BY <1>1, <1>2, <1>8, <1>10 DEF AttachmentInv, CurrentInv, Resolving
  <1>12. CalmInv' /\ ScanIsComplete'
    BY <1>1 DEF CalmInv, ScanIsComplete
  <1> QED BY <1>3, <1>5, <1>6, <1>7, <1>9, <1>11, <1>12 DEF AttachmentInv

--------------------------------------------------------------------------------
\* While a sync works, its tables are as they were.
LEMMA TablesKept ==
    ASSUME AttachmentInv, spc' # "idle", UNCHANGED <<file, stamp, tables, dir, lost>>
    PROVE  RowsInv' /\ ReadyHasFile' /\ ScanIsComplete'
  BY DEF AttachmentInv, tables, RowsInv, RowIsFromArchive, RowKnowsArchive, ReadyHasFile,
         ScanIsComplete

\* Nothing is resolved before the sync hashes archives.
LEMMA NothingFound ==
    ASSUME AttachmentInv, spc \in {"idle", "map", "observe", "confirm"}
    PROVE  \A k \in Keys : found[k].status = "none" /\ staged[k] = NoPdf
  BY DEF AttachmentInv, FoundInv, Resolving

LEMMA FoundKept ==
    ASSUME AttachmentInv, spc \in {"idle", "map", "observe", "confirm"},
           UNCHANGED <<found, staged>>, dir' \in {dir, 1}
    PROVE  FoundInv'
  <1>1. ASSUME NEW k \in Keys PROVE found[k].dir \in {0, 1} /\ found[k].dir <= dir
    BY DEF AttachmentInv, AttachmentTyped, AttachmentRows, FoundInv
  <1>2. dir \in {0, 1}
    BY DEF AttachmentInv, AttachmentTyped
  <1> QED BY <1>1, <1>2, NothingFound DEF AttachmentInv, FoundInv, RowIsFromArchive, RowKnowsArchive

\* The attachments that a sync has to resolve: all it was given, or those whose
\* archive is not the one of their ready row.
LEMMA AskedIsLive ==
    ASSUME NEW m, NEW policy, NEW chosen, NEW k \in chosen \ Asked(m, policy, chosen)
    PROVE  policy # "all" /\ (policy = "changed" => ~NeedsScan(k))
  BY DEF Asked

LEMMA BeginInv ==
    ASSUME AttachmentInv, UNCHANGED mirrorVars,
           NEW m \in [Keys -> Metas], NEW policy \in {"all", "changed", "none"},
           NEW chosen \in SUBSET Eligible(m), Begin(m, policy, chosen),
           m = meta \/ (policy = "all" /\ chosen = Eligible(m))
    PROVE  AttachmentInv'
  <1> DEFINE asked == Asked(m, policy, chosen)
  <1>1. /\ spc = "idle" /\ spc' = "map" /\ calm' = (policy # "none" /\ chosen = Eligible(m))
        /\ job' = [meta |-> m, policy |-> policy, chosen |-> chosen, asked |-> asked,
                   mapping |-> mapping]
        /\ UNCHANGED <<file, stamp, tables, dir, look, cur, arch, pdf, found, staged, lost>>
    BY DEF Begin, mirrorVars
  <1>2. asked \subseteq chosen /\ Eligible(m) \subseteq Keys
    BY DEF Asked, Eligible
  <1>3. \A k \in chosen \ asked : policy # "all" /\ (policy = "changed" => ~NeedsScan(k))
    BY AskedIsLive
  <1> HIDE DEF asked
  <1>4. AttachmentTyped'
    BY <1>1, <1>2 DEF AttachmentInv, AttachmentTyped, Jobs, tables, Resolving
  <1>5. RowsInv' /\ ReadyHasFile' /\ ScanIsComplete'
    BY <1>1, TablesKept
  <1>6. FoundInv'
    BY <1>1, FoundKept
  <1>7. JobInv'
    BY <1>1, <1>2, <1>3 DEF JobInv, Resolving, Eligible, tables
  <1>8. LookInv' /\ CurrentInv'
    BY <1>1 DEF AttachmentInv, LookInv, CurrentInv
  <1>9. ASSUME calm', NEW k \in Eligible(m) \ asked
        PROVE  TellsArchive(k, m[k].name, rows[k])
    <2>1. k \in Keys /\ m = meta /\ ~NeedsScan(k)
      BY <1>1, <1>2, <1>3, <1>9
    <2>2. /\ rows[k].status = "ready" /\ Located(k) = "none" /\ rows[k].dir = dir
          /\ stamp[Zip(k)] = rows[k].stamp
      BY <2>1 DEF NeedsScan
    <2>3. rows[k].arch = file[Zip(k)] /\ rows[k].name = m[k].name
          /\ Selected(rows[k].arch, rows[k].name).status = "ready"
      <3>1. RowIsFromArchive(rows[k]) /\ RowKnowsArchive(k, rows[k]) /\ rows[k].name = meta[k].name
        BY <2>1, <2>2 DEF AttachmentInv, RowsInv
      <3> QED BY <2>1, <2>2, <3>1 DEF RowKnowsArchive, RowIsFromArchive
    <2> QED BY <2>2, <2>3 DEF TellsArchive
  <1>10. CalmInv'
    BY <1>1, <1>9 DEF CalmInv, TellsArchive, Located, LocationWithProp, IsResolved, Resolving, tables,
                      Eligible
  <1> QED BY <1>4, <1>5, <1>6, <1>7, <1>8, <1>10 DEF AttachmentInv


LEMMA ValidateMappingInv ==
    ASSUME AttachmentInv, ValidateMapping, UNCHANGED mirrorVars PROVE AttachmentInv'
  <1> DEFINE valid == MappingValid \/ MappingHolds(job.meta)
             tried == [status |-> IF valid THEN "verified" ELSE "unverified", dir |-> dir]
  <1>1. /\ spc = "map" /\ spc' = (IF job.asked = {} \/ ~valid THEN "commit" ELSE "observe")
        /\ job' = (IF job.asked = {} \/ MappingValid THEN job ELSE [job EXCEPT !.mapping = tried])
        /\ UNCHANGED <<file, stamp, tables, dir, look, cur, arch, pdf, found, staged, lost, calm>>
    BY DEF ValidateMapping, mirrorVars
  <1>2. job \in Jobs /\ tried \in Mappings
    BY <1>1 DEF AttachmentInv, AttachmentTyped, Mappings
  <1>3. /\ job' \in Jobs /\ job'.meta = job.meta /\ job'.asked = job.asked
        /\ spc' = "commit" /\ job.asked # {} => job'.mapping.status # "verified"
    BY <1>1, <1>2 DEF Jobs
  <1> HIDE DEF valid, tried
  <1>4. AttachmentTyped'
    BY <1>1, <1>3 DEF AttachmentInv, AttachmentTyped, tables, Resolving
  <1>5. RowsInv' /\ ReadyHasFile' /\ ScanIsComplete'
    BY <1>1, TablesKept
  <1>6. FoundInv'
    BY <1>1, FoundKept
  <1>7. JobInv'
    BY <1>1, <1>3 DEF AttachmentInv, JobInv, Resolving, tables, Eligible
  <1>8. LookInv' /\ CurrentInv'
    BY <1>1 DEF AttachmentInv, LookInv, CurrentInv
  <1>9. CalmInv'
    BY <1>1, <1>3 DEF AttachmentInv, CalmInv, TellsArchive, Located, LocationWithProp, IsResolved,
                      Resolving, tables, Eligible
  <1> QED BY <1>4, <1>5, <1>6, <1>7, <1>8, <1>9 DEF AttachmentInv

LEMMA ObserveInv == ASSUME AttachmentInv, Observe, UNCHANGED mirrorVars PROVE AttachmentInv'
  <1>1. /\ spc = "observe" /\ spc' = "confirm"
        /\ look' = [k \in Keys |->
                      IF k \in job.asked THEN [problem |-> Located(k), sig |-> Signature(k)]
                                         ELSE NoLook]
        /\ UNCHANGED <<file, stamp, tables, dir, job, cur, arch, pdf, found, staged, lost, calm>>
    BY DEF Observe, mirrorVars
  <1>2. /\ job \in Jobs /\ job.asked \subseteq Keys
        /\ \A k \in Keys : [problem |-> Located(k), sig |-> Signature(k)] \in Looks
    BY <1>1, LocatedTyped DEF AttachmentInv, AttachmentTyped, Jobs, Looks
  <1>3. AttachmentTyped'
    BY <1>1, <1>2, NothingTyped DEF AttachmentInv, AttachmentTyped, tables, Resolving
  <1>4. RowsInv' /\ ReadyHasFile' /\ ScanIsComplete'
    BY <1>1, TablesKept
  <1>5. FoundInv'
    BY <1>1, FoundKept
  <1>6. JobInv'
    BY <1>1 DEF AttachmentInv, JobInv, Resolving, tables, Eligible
  <1>7. ASSUME NEW k \in Keys PROVE look'[k].sig[1] <= stamp'[Zip(k)]
    <2>1. stamp[Zip(k)] \in Nat
      BY KeyObjects DEF AttachmentInv, AttachmentTyped
    <2> QED BY <1>1, <2>1 DEF Signature, NoLook
  <1>8. LookInv' /\ CurrentInv'
    BY <1>1, <1>7 DEF LookInv, CurrentInv
  <1>9. CalmInv'
    BY <1>1, <1>2 DEF AttachmentInv, CalmInv, TellsArchive, Located, LocationWithProp, Signature,
                      IsResolved, Resolving, tables, Eligible
  <1> QED BY <1>3, <1>4, <1>5, <1>6, <1>8, <1>9 DEF AttachmentInv

LEMMA ConfirmInv == ASSUME AttachmentInv, Confirm, UNCHANGED mirrorVars PROVE AttachmentInv'
  <1>1. /\ spc = "confirm" /\ spc' = "hash" /\ cur' = NextKey(0)
        /\ look' = [k \in Keys |->
                      IF k \in job.asked /\ look[k].problem = "none" /\ ~SignatureUnchanged(k)
                      THEN [look[k] EXCEPT !.problem = "unstable_archive"] ELSE look[k]]
        /\ UNCHANGED <<file, stamp, tables, dir, job, arch, pdf, found, staged, lost, calm>>
    BY DEF Confirm, mirrorVars
  <1>2. job \in Jobs /\ job.asked \subseteq Keys /\ job.asked # {} /\ look \in [Keys -> Looks]
    BY <1>1 DEF AttachmentInv, AttachmentTyped, JobInv, Jobs
  <1>3. \A k \in Keys : look'[k] \in Looks /\ look'[k].sig = look[k].sig
    BY <1>1, <1>2 DEF Looks
  <1>4. Following(0) # {} /\ 0 \in Nat
    BY <1>2, KeyObjects DEF Following, Keys
  <1>5. cur' \in job.asked /\ \A j \in job.asked : ~(j < cur')
    BY <1>1, <1>2, <1>4, NextKeyIsNext, KeyObjects DEF Keys
  <1>6. spc' \notin {"reuse", "extract", "stage"} /\ spc' \in Resolving
    BY <1>1 DEF Resolving
  <1>7. AttachmentTyped'
    BY <1>1, <1>2, <1>3, <1>5, <1>6 DEF AttachmentInv, AttachmentTyped, tables
  <1>8. RowsInv' /\ ReadyHasFile' /\ ScanIsComplete'
    BY <1>1, TablesKept
  <1>9. FoundInv'
    BY <1>1, NothingFound DEF AttachmentInv, FoundInv, RowIsFromArchive, RowKnowsArchive
  <1>10. JobInv'
    BY <1>1 DEF AttachmentInv, JobInv, Resolving, tables, Eligible
  <1>11. LookInv' /\ CurrentInv'
    BY <1>1, <1>3, <1>6 DEF AttachmentInv, LookInv, CurrentInv
  <1>12. ASSUME calm, NEW k \in job.asked
         PROVE  look'[k] = [problem |-> Located(k), sig |-> Signature(k)]
    <2>1. look[k] = [problem |-> Located(k), sig |-> Signature(k)]
      BY <1>1, <1>12 DEF AttachmentInv, CalmInv
    <2>2. look[k].problem = "none" => SignatureUnchanged(k)
      BY <2>1 DEF SignatureUnchanged
    <2> QED BY <1>1, <1>2, <2>1, <2>2
  <1>13. CalmInv'
    BY <1>1, <1>5, <1>6, <1>12
       DEF AttachmentInv, CalmInv, TellsArchive, Located, LocationWithProp, Signature,
           IsResolved, Resolving, tables, Eligible
  <1> QED BY <1>7, <1>8, <1>9, <1>10, <1>11, <1>13 DEF AttachmentInv

--------------------------------------------------------------------------------
(***************************************************************************)
(* The resolution of one attachment.                                       *)
(***************************************************************************)
\* What a step that handles the attachment at hand starts from.
LEMMA AtHand ==
    ASSUME AttachmentInv, spc \in Resolving
    PROVE  /\ job \in Jobs /\ job.asked \subseteq Keys /\ cur \in job.asked /\ cur \in Keys
           /\ job.meta[cur] \in Metas /\ look[cur] \in Looks
           /\ file[Zip(cur)] \in Versions /\ stamp[Zip(cur)] \in Nat
           /\ look[cur].sig[1] <= stamp[Zip(cur)] /\ look[cur].sig[1] \in Nat
           /\ found[cur].status = "none" /\ staged[cur] = NoPdf
           /\ calm => look[cur] = [problem |-> Located(cur), sig |-> Signature(cur)]
  <1>1. job \in Jobs /\ job.asked \subseteq Keys /\ cur \in job.asked /\ cur \in Keys
    BY DEF AttachmentInv, AttachmentTyped, Jobs, Resolving
  <1>2. job.meta[cur] \in Metas /\ look[cur] \in Looks
        /\ file[Zip(cur)] \in Versions /\ stamp[Zip(cur)] \in Nat
    BY <1>1, KeyObjects DEF AttachmentInv, AttachmentTyped, Jobs
  <1>3. look[cur].sig[1] \in Nat /\ look[cur].sig[1] <= stamp[Zip(cur)]
    BY <1>1, <1>2 DEF AttachmentInv, LookInv, Looks
  <1>4. found[cur].status = "none" /\ staged[cur] = NoPdf
    BY <1>1, KeyObjects DEF AttachmentInv, FoundInv, Resolving
  <1>5. calm => look[cur] = [problem |-> Located(cur), sig |-> Signature(cur)]
    BY <1>1 DEF AttachmentInv, CalmInv, Resolving
  <1> QED BY <1>1, <1>2, <1>3, <1>4, <1>5

\* A resolution that is right about the attachment at hand ends its turn.
LEMMA ResolvedInv ==
    ASSUME AttachmentInv, spc \in Resolving, UNCHANGED mirrorVars,
           NEW row \in AttachmentRows, Resolved(row), row.status # "none", row.dir = dir,
           row.name = job.meta[cur].name, row.ver = job.meta[cur].ver,
           RowIsFromArchive(row), RowKnowsArchive(cur, row),
           calm => TellsArchive(cur, job.meta[cur].name, row),
           \/ /\ UNCHANGED staged
              /\ row.status = "ready" => extracted[cur] = row.pdf
           \/ /\ staged' = [staged EXCEPT ![cur] = row.pdf]
              /\ row.status = "ready"
    PROVE  AttachmentInv'
  <1>1. /\ found' = [found EXCEPT ![cur] = row] /\ arch' = 0 /\ pdf' = NoPdf
        /\ IF Following(cur) = {} THEN spc' = "commit" /\ cur' = 0
                                  ELSE spc' = "hash" /\ cur' = NextKey(cur)
        /\ UNCHANGED <<file, stamp, tables, dir, job, look, lost, calm>>
    BY DEF Resolved, mirrorVars
  <1>2. /\ job \in Jobs /\ job.asked \subseteq Keys /\ cur \in job.asked /\ cur \in Keys
        /\ found[cur].status = "none" /\ staged[cur] = NoPdf /\ Keys \subseteq Nat
    BY AtHand, KeyObjects
  <1>3. /\ spc' \in {"commit", "hash"}
        /\ spc' = "hash" => /\ cur' \in job.asked /\ cur < cur'
                            /\ \A j \in job.asked : j < cur' => j <= cur
        /\ spc' = "commit" => \A j \in job.asked : j <= cur
    BY <1>1, <1>2, NextKeyIsNext DEF Following
  <1>4. /\ found' \in [Keys -> AttachmentRows] /\ found'[cur] = row
        /\ \A k \in Keys \ {cur} : found'[k] = found[k]
        /\ staged' \in [Keys -> Pdfs] /\ \A k \in Keys \ {cur} : staged'[k] = staged[k]
    BY <1>1, <1>2 DEF AttachmentInv, AttachmentTyped, AttachmentRows
  <1>5. spc \in Resolving /\ spc # "idle" /\ spc # "commit" /\ (spc' = "hash" => spc' \in Resolving)
        /\ spc' \notin {"idle", "reuse", "extract", "stage", "confirm"}
    BY <1>3 DEF Resolving
  <1>6. AttachmentTyped'
    BY <1>1, <1>3, <1>4, <1>5, KeyObjects, NothingTyped
       DEF AttachmentInv, AttachmentTyped, tables, Resolving
  <1>7. RowsInv' /\ ReadyHasFile' /\ ScanIsComplete'
    BY <1>1, <1>5, TablesKept
  <1>8. JobInv'
    BY <1>1, <1>5 DEF AttachmentInv, JobInv, tables, Eligible
  <1>9. LookInv' /\ CurrentInv'
    BY <1>1, <1>5 DEF AttachmentInv, LookInv, CurrentInv
  <1>10. FoundInv'
    <2> SUFFICES ASSUME NEW k \in Keys
                 PROVE  /\ found'[k].status # "none" =>
                             /\ k \in job.asked /\ found'[k].dir = dir
                             /\ spc' = "commit" \/ (spc' \in Resolving /\ k < cur')
                             /\ found'[k].name = job.meta[k].name
                             /\ found'[k].ver = job.meta[k].ver
                        /\ RowIsFromArchive(found'[k]) /\ RowKnowsArchive(k, found'[k])
                        /\ found'[k].dir <= dir
                        /\ staged'[k] # NoPdf =>
                             found'[k].status = "ready" /\ staged'[k] = found'[k].pdf
                        /\ found'[k].status = "ready" /\ staged'[k] = NoPdf =>
                             extracted[k] = found'[k].pdf
      BY <1>1 DEF FoundInv, RowIsFromArchive, RowKnowsArchive, tables
    <2>1. CASE k = cur
      <3>1. staged'[k] # NoPdf => row.status = "ready" /\ staged'[k] = row.pdf
        BY <1>2, <2>1 DEF AttachmentInv, AttachmentTyped
      <3>2. row.status = "ready" /\ staged'[k] = NoPdf => extracted[k] = row.pdf
        BY <1>2, <2>1 DEF AttachmentInv, AttachmentTyped, RowIsFromArchive
      <3>3. row.dir <= dir
        BY DEF AttachmentInv, AttachmentTyped
      <3> QED BY <1>2, <1>3, <1>4, <1>5, <2>1, <3>1, <3>2, <3>3
    <2>2. CASE k # cur
      <3>1. found[k].status # "none" => k \in job.asked /\ k < cur
        BY <1>5 DEF AttachmentInv, FoundInv
      <3>2. found[k].status # "none" => spc' = "commit" \/ (spc' \in Resolving /\ k < cur')
        <4>1. k \in Nat /\ cur \in Nat /\ (spc' = "hash" => cur' \in Nat)
          BY <1>2, <1>3
        <4> QED BY <1>3, <1>5, <3>1, <4>1
      <3> QED BY <1>4, <2>2, <3>1, <3>2 DEF AttachmentInv, FoundInv
    <2> QED BY <2>1, <2>2
  <1>11. ASSUME calm, NEW k \in job.asked, IsResolved(k)'
         PROVE  TellsArchive(k, job.meta[k].name, found'[k])
    <2>1. k <= cur
      BY <1>1, <1>3, <1>5, <1>11, <1>2 DEF IsResolved
    <2>2. CASE k = cur
      BY <1>4, <1>11, <2>2
    <2>3. CASE k # cur
      <3>1. IsResolved(k) /\ found'[k] = found[k]
        <4>1. k \in Nat /\ cur \in Nat /\ k \in Keys
          BY <1>2
        <4> QED BY <1>4, <1>5, <2>1, <2>3, <4>1 DEF IsResolved
      <3> QED BY <1>5, <1>11, <3>1 DEF AttachmentInv, CalmInv
    <2> QED BY <2>2, <2>3
  <1>12. CalmInv'
    BY <1>1, <1>5, <1>11
       DEF AttachmentInv, CalmInv, TellsArchive, Located, LocationWithProp, Signature, tables, Eligible
  <1> QED BY <1>6, <1>7, <1>8, <1>9, <1>10, <1>12 DEF AttachmentInv

\* A resolution without a PDF.
LEMMA NotReady ==
    ASSUME AttachmentInv, spc \in Resolving,
           NEW status \in Statuses \ {"none", "ready"}, NEW a \in Versions
    PROVE  LET row == Resolution(status, a, NoPdf)
           IN  /\ row \in AttachmentRows /\ row.status = status /\ row.dir = dir
               /\ [row EXCEPT !.stamp = 0] \in AttachmentRows
               /\ [row EXCEPT !.stamp = 0].status = status /\ [row EXCEPT !.stamp = 0].dir = dir
               /\ [row EXCEPT !.stamp = 0].name = row.name
               /\ [row EXCEPT !.stamp = 0].ver = row.ver
               /\ [row EXCEPT !.stamp = 0].pdf = NoPdf
               /\ row.name = job.meta[cur].name /\ row.ver = job.meta[cur].ver
               /\ row.pdf = NoPdf
  <1>1. /\ job.meta[cur].name \in MemberNames /\ job.meta[cur].ver \in Nat
        /\ look[cur].sig[1] \in Nat /\ dir \in {0, 1} /\ NoPdf \in Pdfs
    BY AtHand, NothingTyped DEF Metas, AttachmentInv, AttachmentTyped
  <1> QED BY <1>1 DEF Resolution, AttachmentRows

LEMMA NotReadyInv ==
    ASSUME AttachmentInv, spc \in Resolving, UNCHANGED <<mirrorVars, staged>>,
           NEW row \in AttachmentRows, Resolved(row), row.status \notin {"none", "ready"},
           row.dir = dir, row.pdf = NoPdf,
           row.name = job.meta[cur].name, row.ver = job.meta[cur].ver,
           calm => Located(cur) # "none"
                     \/ Selected(file[Zip(cur)], job.meta[cur].name).status # "ready"
    PROVE  AttachmentInv'
  <1>1. RowIsFromArchive(row) /\ RowKnowsArchive(cur, row)
    BY DEF RowIsFromArchive, RowKnowsArchive
  <1>2. calm => TellsArchive(cur, job.meta[cur].name, row)
    BY DEF TellsArchive
  <1> QED BY <1>1, <1>2, ResolvedInv

LEMMA HashArchiveInv ==
    ASSUME AttachmentInv, HashArchive, UNCHANGED mirrorVars PROVE AttachmentInv'
  <1>1. spc = "hash" /\ spc \in Resolving
    BY DEF HashArchive, Resolving
  <1>2. CASE look[cur].problem # "none"
    <2> DEFINE status == look[cur].problem
               row == [Resolution(status, 0, NoPdf) EXCEPT !.stamp = 0]
    <2>1. Resolved(row) /\ UNCHANGED staged
      BY <1>2 DEF HashArchive
    <2>2. status \in Statuses \ {"none", "ready"} /\ 0 \in Versions
      BY <1>1, <1>2, AtHand, KeyObjects DEF Looks, Statuses
    <2>3. calm => Located(cur) # "none"
      BY <1>1, <1>2, AtHand
    <2> HIDE DEF row, status
    <2>4. /\ row \in AttachmentRows /\ row.status = status /\ row.dir = dir /\ row.pdf = NoPdf
          /\ row.name = job.meta[cur].name /\ row.ver = job.meta[cur].ver
      BY <1>1, <2>2, NotReady DEF row
    <2> QED BY <1>1, <2>1, <2>2, <2>3, <2>4, NotReadyInv
  <1>3. CASE look[cur].problem = "none" /\ file[Zip(cur)] = 0
    <2> DEFINE row == Resolution("invalid_archive", 0, NoPdf)
    <2>1. Resolved(row) /\ UNCHANGED staged
      BY <1>3 DEF HashArchive
    <2>2. "invalid_archive" \in Statuses \ {"none", "ready"} /\ 0 \in Versions
      BY KeyObjects DEF Statuses
    <2>3. calm => Located(cur) # "none"
      BY <1>1, <1>3, AtHand, LocatedTyped DEF AttachmentInv
    <2> HIDE DEF row
    <2>4. /\ row \in AttachmentRows /\ row.status = "invalid_archive" /\ row.dir = dir
          /\ row.pdf = NoPdf /\ row.name = job.meta[cur].name /\ row.ver = job.meta[cur].ver
      BY <1>1, <2>2, NotReady DEF row
    <2> QED BY <1>1, <2>1, <2>3, <2>4, NotReadyInv
  <1>4. CASE look[cur].problem = "none" /\ file[Zip(cur)] # 0
    <2>1. /\ arch' = file[Zip(cur)] /\ spc' = "reuse"
          /\ UNCHANGED <<file, stamp, tables, dir, job, look, cur, pdf, found, staged, lost, calm>>
      BY <1>4 DEF HashArchive, mirrorVars
    <2>2. spc' \in Resolving /\ spc' # "idle"
      BY <2>1 DEF Resolving
    <2>3. AttachmentTyped'
      BY <1>1, <2>1, <2>2, AtHand DEF AttachmentInv, AttachmentTyped, tables
    <2>4. RowsInv' /\ ReadyHasFile' /\ ScanIsComplete'
      BY <2>1, TablesKept
    <2>5. JobInv' /\ FoundInv'
      BY <1>1, <2>1, <2>2 DEF AttachmentInv, JobInv, FoundInv, RowIsFromArchive, RowKnowsArchive,
                              tables, Eligible
    <2>6. LookInv' /\ CurrentInv'
      BY <1>1, <1>4, <2>1, AtHand DEF AttachmentInv, LookInv, CurrentInv
    <2>7. CalmInv'
      BY <1>1, <2>1, <2>2 DEF AttachmentInv, CalmInv, TellsArchive, Located, LocationWithProp,
                              Signature, IsResolved, tables, Eligible
    <2> QED BY <2>3, <2>4, <2>5, <2>6, <2>7 DEF AttachmentInv
  <1> QED BY <1>2, <1>3, <1>4

\* The hashed archive is the one at hand while the first signature stands.
LEMMA SignatureTells ==
    ASSUME AttachmentInv, spc \in {"reuse", "extract", "stage"}
    PROVE  /\ SignatureUnchanged(cur) => look[cur].sig[1] = stamp[Zip(cur)]
           /\ look[cur].sig[1] = stamp[Zip(cur)] => file[Zip(cur)] = arch
           /\ calm => look[cur].sig[1] = stamp[Zip(cur)]
           /\ calm /\ ~SignatureUnchanged(cur) => Located(cur) # "none"
           /\ arch \in Versions /\ arch # 0
  <1>1. cur \in Keys /\ calm => look[cur] = [problem |-> Located(cur), sig |-> Signature(cur)]
    BY AtHand DEF Resolving
  <1>2. cur \in Keys /\ Signature(cur)[1] = stamp[Zip(cur)]
    BY AtHand, LocatedTyped DEF Resolving, AttachmentInv
  <1> QED BY <1>1, <1>2 DEF SignatureUnchanged, AttachmentInv, CurrentInv, AttachmentTyped

\* A ready resolution: its PDF is from the archive, by the attachment's own name.
LEMMA ReadyInv ==
    ASSUME AttachmentInv, spc \in {"reuse", "stage"}, UNCHANGED mirrorVars,
           SignatureUnchanged(cur), NEW p \in Pdfs, p # NoPdf, p[1] = arch,
           Selected(arch, job.meta[cur].name) = [status |-> "ready", member |-> p[2]],
           Resolved(Resolution("ready", arch, p)),
           \/ UNCHANGED staged /\ extracted[cur] = p
           \/ staged' = [staged EXCEPT ![cur] = p]
    PROVE  AttachmentInv'
  <1> DEFINE row == Resolution("ready", arch, p)
  <1>1. /\ job.meta[cur].name \in MemberNames /\ job.meta[cur].ver \in Nat /\ spc \in Resolving
        /\ look[cur].sig[1] \in Nat /\ dir \in {0, 1} /\ "ready" \in Statuses
    BY AtHand DEF Metas, AttachmentInv, AttachmentTyped, Resolving, Statuses
  <1>2. /\ look[cur].sig[1] = stamp[Zip(cur)] /\ file[Zip(cur)] = arch
        /\ arch \in Versions /\ arch # 0 /\ stamp[Zip(cur)] \in Nat /\ Located(cur) = "none"
    BY <1>1, SignatureTells, AtHand DEF SignatureUnchanged
  <1>3. /\ row \in AttachmentRows /\ row.status = "ready" /\ row.arch = arch /\ row.pdf = p
        /\ row.dir = dir /\ row.stamp = look[cur].sig[1]
        /\ row.name = job.meta[cur].name /\ row.ver = job.meta[cur].ver
    BY <1>1, <1>2 DEF Resolution, AttachmentRows
  <1>4. Resolved(row)
    OBVIOUS
  <1> HIDE DEF row
  <1>5. RowIsFromArchive(row) /\ RowKnowsArchive(cur, row)
    BY <1>2, <1>3 DEF RowIsFromArchive, RowKnowsArchive
  <1>6. TellsArchive(cur, job.meta[cur].name, row)
    BY <1>2, <1>3 DEF TellsArchive
  <1> QED BY <1>1, <1>3, <1>4, <1>5, <1>6, ResolvedInv

LEMMA ReuseExtractedInv ==
    ASSUME AttachmentInv, ReuseExtracted, UNCHANGED mirrorVars PROVE AttachmentInv'
  <1>1. spc = "reuse" /\ spc \in Resolving
    BY DEF ReuseExtracted, Resolving
  <1>2. CASE ~SignatureUnchanged(cur)
    <2> DEFINE row == Resolution("unstable_archive", 0, NoPdf)
    <2>1. Resolved(row) /\ UNCHANGED staged
      BY <1>2 DEF ReuseExtracted
    <2>2. "unstable_archive" \in Statuses \ {"none", "ready"} /\ 0 \in Versions
      BY KeyObjects DEF Statuses
    <2>3. calm => Located(cur) # "none"
      BY <1>1, <1>2, SignatureTells
    <2> HIDE DEF row
    <2>4. /\ row \in AttachmentRows /\ row.status = "unstable_archive" /\ row.dir = dir
          /\ row.pdf = NoPdf /\ row.name = job.meta[cur].name /\ row.ver = job.meta[cur].ver
      BY <1>1, <2>2, NotReady DEF row
    <2> QED BY <1>1, <2>1, <2>3, <2>4, NotReadyInv
  <1>3. CASE SignatureUnchanged(cur) /\ CanReuse(cur)
    <2>1. Resolved(Resolution("ready", arch, rows[cur].pdf)) /\ UNCHANGED staged
      BY <1>3 DEF ReuseExtracted
    <2>2. /\ rows[cur].name = job.meta[cur].name /\ rows[cur].arch = arch
          /\ rows[cur].pdf # NoPdf /\ extracted[cur] = rows[cur].pdf
      BY <1>3 DEF CanReuse
    <2>3. cur \in Keys /\ rows[cur] \in AttachmentRows /\ RowIsFromArchive(rows[cur])
      BY <1>1, AtHand DEF AttachmentInv, AttachmentTyped, RowsInv
    <2>4. /\ rows[cur].pdf \in Pdfs /\ rows[cur].pdf[1] = arch
          /\ Selected(arch, job.meta[cur].name) = [status |-> "ready", member |-> rows[cur].pdf[2]]
      BY <2>2, <2>3 DEF RowIsFromArchive, AttachmentRows
    <2> QED BY <1>1, <1>3, <2>1, <2>2, <2>4, ReadyInv
  <1>4. CASE SignatureUnchanged(cur) /\ ~CanReuse(cur)
    <2>1. /\ spc' = "extract"
          /\ UNCHANGED <<file, stamp, tables, dir, job, look, cur, arch, pdf, found, staged, lost,
                         calm>>
      BY <1>4 DEF ReuseExtracted, mirrorVars
    <2>2. spc' \in Resolving /\ spc' # "idle"
      BY <2>1 DEF Resolving
    <2>3. AttachmentTyped'
      BY <1>1, <2>1, <2>2 DEF AttachmentInv, AttachmentTyped, tables
    <2>4. RowsInv' /\ ReadyHasFile' /\ ScanIsComplete'
      BY <2>1, TablesKept
    <2>5. JobInv' /\ FoundInv'
      BY <1>1, <2>1, <2>2 DEF AttachmentInv, JobInv, FoundInv, RowIsFromArchive, RowKnowsArchive,
                              tables, Eligible
    <2>6. LookInv' /\ CurrentInv'
      BY <1>1, <2>1 DEF AttachmentInv, LookInv, CurrentInv
    <2>7. CalmInv'
      BY <1>1, <2>1, <2>2 DEF AttachmentInv, CalmInv, TellsArchive, Located, LocationWithProp,
                              Signature, IsResolved, tables, Eligible
    <2> QED BY <2>3, <2>4, <2>5, <2>6, <2>7 DEF AttachmentInv
  <1> QED BY <1>2, <1>3, <1>4

LEMMA ExtractPdfInv == ASSUME AttachmentInv, Extract, UNCHANGED mirrorVars PROVE AttachmentInv'
  <1> DEFINE v == file[Zip(cur)]
             s == Selected(v, job.meta[cur].name)
  <1>1. spc = "extract" /\ spc \in Resolving /\ UNCHANGED staged /\ v \in Versions
        /\ arch \in Versions
    BY AtHand DEF Extract, Resolving, AttachmentInv, AttachmentTyped
  <1>2. CASE v = 0
    <2> DEFINE row == Resolution("error", arch, NoPdf)
    <2>1. Resolved(row)
      BY <1>2 DEF Extract
    <2>2. "error" \in Statuses \ {"none", "ready"}
      BY DEF Statuses
    <2>3. calm => Located(cur) # "none"
      BY <1>1, <1>2, SignatureTells
    <2> HIDE DEF row
    <2>4. /\ row \in AttachmentRows /\ row.status = "error" /\ row.dir = dir
          /\ row.pdf = NoPdf /\ row.name = job.meta[cur].name /\ row.ver = job.meta[cur].ver
      BY <1>1, <2>2, NotReady DEF row
    <2> QED BY <1>1, <2>1, <2>3, <2>4, NotReadyInv
  <1>3. CASE v # 0 /\ s.status # "ready"
    <2> DEFINE row == Resolution(s.status, arch, NoPdf)
    <2>1. Resolved(row)
      BY <1>3 DEF Extract
    <2>2. s.status \in Statuses \ {"none", "ready"}
      BY <1>1, <1>3, SelectedTyped DEF Statuses
    <2> HIDE DEF row
    <2>4. /\ row \in AttachmentRows /\ row.status = s.status /\ row.dir = dir
          /\ row.pdf = NoPdf /\ row.name = job.meta[cur].name /\ row.ver = job.meta[cur].ver
      BY <1>1, <2>2, NotReady DEF row
    <2> QED BY <1>1, <1>3, <2>1, <2>2, <2>4, NotReadyInv
  <1>4. CASE v # 0 /\ s.status = "ready"
    <2>1. /\ pdf' = <<v, s.member>> /\ spc' = "stage"
          /\ UNCHANGED <<file, stamp, tables, dir, job, look, cur, arch, found, staged, lost, calm>>
      BY <1>4 DEF Extract, mirrorVars
    <2>2. s.member \in MemberNames /\ s = [status |-> "ready", member |-> s.member]
      BY <1>1, <1>4, SelectedTyped
    <2>3. pdf' \in Pdfs /\ pdf'[1] = v /\ pdf'[2] = s.member
      BY <1>1, <2>1, <2>2 DEF Pdfs
    <2>4. spc' \in Resolving /\ spc' # "idle"
      BY <2>1 DEF Resolving
    <2>5. AttachmentTyped'
      BY <1>1, <2>1, <2>3, <2>4 DEF AttachmentInv, AttachmentTyped, tables
    <2>6. RowsInv' /\ ReadyHasFile' /\ ScanIsComplete'
      BY <2>1, <2>4, TablesKept
    <2>7. JobInv' /\ FoundInv'
      BY <1>1, <2>1, <2>4 DEF AttachmentInv, JobInv, FoundInv, RowIsFromArchive, RowKnowsArchive,
                              tables, Eligible
    <2>8. LookInv' /\ CurrentInv'
      BY <1>1, <1>4, <2>1, <2>2, <2>3 DEF AttachmentInv, LookInv, CurrentInv
    <2>9. CalmInv'
      BY <1>1, <2>1, <2>4 DEF AttachmentInv, CalmInv, TellsArchive, Located, LocationWithProp,
                              Signature, IsResolved, tables, Eligible
    <2> QED BY <2>5, <2>6, <2>7, <2>8, <2>9 DEF AttachmentInv
  <1> QED BY <1>2, <1>3, <1>4

LEMMA StageInv == ASSUME AttachmentInv, Stage, UNCHANGED mirrorVars PROVE AttachmentInv'
  <1>1. spc = "stage" /\ spc \in Resolving /\ arch \in Versions /\ pdf \in Pdfs
    BY DEF Stage, Resolving, AttachmentInv, AttachmentTyped
  <1>2. CASE SignatureUnchanged(cur)
    <2>1. staged' = [staged EXCEPT ![cur] = pdf] /\ Resolved(Resolution("ready", arch, pdf))
      BY <1>2 DEF Stage
    <2>2. /\ pdf[1] = arch /\ pdf # NoPdf
          /\ Selected(arch, job.meta[cur].name) = [status |-> "ready", member |-> pdf[2]]
      BY <1>1, <1>2, SignatureTells DEF AttachmentInv, CurrentInv, NoPdf
    <2> QED BY <1>1, <1>2, <2>1, <2>2, ReadyInv
  <1>3. CASE ~SignatureUnchanged(cur)
    <2> DEFINE row == Resolution("unstable_archive", arch, NoPdf)
    <2>1. Resolved(row) /\ UNCHANGED staged
      BY <1>3 DEF Stage
    <2>2. "unstable_archive" \in Statuses \ {"none", "ready"}
      BY DEF Statuses
    <2>3. calm => Located(cur) # "none"
      BY <1>1, <1>3, SignatureTells
    <2> HIDE DEF row
    <2>4. /\ row \in AttachmentRows /\ row.status = "unstable_archive" /\ row.dir = dir
          /\ row.pdf = NoPdf /\ row.name = job.meta[cur].name /\ row.ver = job.meta[cur].ver
      BY <1>1, <2>2, NotReady DEF row
    <2> QED BY <1>1, <2>1, <2>3, <2>4, NotReadyInv
  <1> QED BY <1>2, <1>3

--------------------------------------------------------------------------------
(***************************************************************************)
(* The end of a sync, and the operator.                                    *)
(***************************************************************************)
LEMMA SyncEndsInv ==
    ASSUME AttachmentInv, SyncEnds, UNCHANGED <<file, stamp, dir>>
    PROVE  /\ JobInv' /\ FoundInv' /\ LookInv' /\ CurrentInv' /\ CalmInv'
           /\ spc' = "idle" /\ spc' \notin Resolving
           /\ look' \in [Keys -> Looks] /\ found' \in [Keys -> AttachmentRows]
           /\ staged' \in [Keys -> Pdfs] /\ arch' \in Versions /\ pdf' \in Pdfs
  <1>1. /\ spc' = "idle" /\ look' = [k \in Keys |-> NoLook] /\ arch' = 0 /\ pdf' = NoPdf
        /\ found' = [k \in Keys |-> NoRow] /\ staged' = [k \in Keys |-> NoPdf]
    BY DEF SyncEnds
  <1>2. dir' \in {0, 1} /\ \A k \in Keys : stamp[Zip(k)] \in Nat
    BY KeyObjects DEF AttachmentInv, AttachmentTyped
  <1>3. JobInv' /\ CurrentInv' /\ CalmInv'
    BY <1>1 DEF JobInv, CurrentInv, CalmInv
  <1>4. LookInv'
    BY <1>1, <1>2 DEF LookInv, NoLook
  <1>5. FoundInv'
    <2> SUFFICES ASSUME NEW k \in Keys
                 PROVE  found'[k] = NoRow /\ staged'[k] = NoPdf /\ NoRow.dir <= dir'
      BY NothingTyped DEF FoundInv, RowIsFromArchive, RowKnowsArchive
    <2> QED BY <1>1, <1>2, NothingTyped
  <1> QED BY <1>1, <1>3, <1>4, <1>5, NothingTyped, KeyObjects DEF Resolving

LEMMA SyncFailsInv == ASSUME AttachmentInv, SyncFails, UNCHANGED mirrorVars PROVE AttachmentInv'
  <1>1. ~calm' /\ SyncEnds /\ UNCHANGED <<file, stamp, meta, rows, extracted, mapping, dir, lost>>
    BY DEF SyncFails, tables, mirrorVars
  <1>2. /\ JobInv' /\ FoundInv' /\ LookInv' /\ CurrentInv' /\ CalmInv'
        /\ spc' = "idle" /\ spc' \notin Resolving
        /\ look' \in [Keys -> Looks] /\ found' \in [Keys -> AttachmentRows]
        /\ staged' \in [Keys -> Pdfs] /\ arch' \in Versions /\ pdf' \in Pdfs
    BY <1>1, SyncEndsInv
  <1>3. AttachmentTyped'
    BY <1>1, <1>2 DEF AttachmentInv, AttachmentTyped
  <1>4. RowsInv' /\ ReadyHasFile' /\ ScanIsComplete'
    BY <1>1 DEF AttachmentInv, RowsInv, RowIsFromArchive, RowKnowsArchive, ReadyHasFile,
                ScanIsComplete
  <1> QED BY <1>2, <1>3, <1>4 DEF AttachmentInv

\* The row that a sync writes of a live attachment.
LEMMA NewRowIsRight ==
    ASSUME AttachmentInv, spc = "commit", NEW k \in Keys, job.meta[k].live
    PROVE  /\ NewRow(k) \in AttachmentRows /\ NewRow(k).dir <= dir
           /\ RowIsFromArchive(NewRow(k)) /\ RowKnowsArchive(k, NewRow(k))
           /\ NewRow(k).status # "none" =>
                NewRow(k).name = job.meta[k].name /\ NewRow(k).ver = job.meta[k].ver
           /\ NewRow(k).status = "ready" =>
                IF k \in job.asked
                THEN found[k].status = "ready" /\ NewRow(k).pdf = found[k].pdf
                ELSE rows[k].status = "ready" /\ NewRow(k).pdf = rows[k].pdf
           /\ job.asked = {} \/ job.mapping.status = "verified" =>
                IF k \in job.asked
                THEN NewRow(k).status = found[k].status /\ NewRow(k).arch = found[k].arch
                ELSE IF rows[k].status # "none"
                THEN NewRow(k).status = rows[k].status /\ NewRow(k).arch = rows[k].arch
                ELSE NewRow(k).status # "ready"
  <1> DEFINE name == job.meta[k].name
             ver == job.meta[k].ver
             prop == file[Zip(k)] # 0 /\ file[Prop(k)] # 0
             kept == IF k \notin job.asked /\ rows[k].status # "none" THEN rows[k] ELSE NoRow
             projected(r) == [r EXCEPT !.name = name, !.ver = ver]
  <1>1. /\ rows[k] \in AttachmentRows /\ found[k] \in AttachmentRows /\ NoRow \in AttachmentRows
        /\ name \in MemberNames /\ ver \in Nat /\ dir \in {0, 1} /\ prop \in BOOLEAN
        /\ job.asked \subseteq Keys
    BY NothingTyped DEF AttachmentInv, AttachmentTyped, Jobs, Metas
  <1>2. /\ RowIsFromArchive(rows[k]) /\ RowKnowsArchive(k, rows[k]) /\ rows[k].dir <= dir
        /\ RowIsFromArchive(found[k]) /\ RowKnowsArchive(k, found[k])
        /\ found[k].status # "none" => found[k].name = name /\ found[k].ver = ver
                                       /\ found[k].dir = dir
        /\ RowIsFromArchive(NoRow) /\ NoRow.status = "none" /\ NoRow.dir = 0 /\ NoRow.pdf = NoPdf
    BY NothingTyped DEF AttachmentInv, RowsInv, FoundInv, NoRow
  <1>3. k \notin job.asked /\ rows[k].status # "none" => rows[k].name = name /\ rows[k].ver = ver
    BY DEF AttachmentInv, JobInv, RowsInv, Eligible
  <1>4. CASE job.asked # {} /\ job.mapping.status # "verified"
    <2>1. NewRow(k) = [projected(kept) EXCEPT !.status = "mapping_unverified", !.prop = prop]
      BY <1>4 DEF NewRow
    <2>2. kept \in AttachmentRows /\ RowIsFromArchive(kept) /\ kept.dir <= dir
          /\ (kept.pdf # NoPdf => kept.name = name)
      BY <1>1, <1>2, <1>3
    <2> HIDE DEF kept, prop, name, ver
    <2>3. /\ NewRow(k) \in AttachmentRows /\ NewRow(k).status = "mapping_unverified"
          /\ NewRow(k).dir = kept.dir /\ NewRow(k).pdf = kept.pdf /\ NewRow(k).arch = kept.arch
          /\ NewRow(k).name = name /\ NewRow(k).ver = ver
      BY <1>1, <2>1, <2>2 DEF AttachmentRows, Statuses
    <2>4. RowIsFromArchive(NewRow(k)) /\ RowKnowsArchive(k, NewRow(k))
      BY <2>2, <2>3 DEF RowIsFromArchive, RowKnowsArchive
    <2> QED BY <1>4, <2>2, <2>3, <2>4 DEF name, ver
  <1>5. CASE ~(job.asked # {} /\ job.mapping.status # "verified") /\ k \in job.asked
    <2>1. NewRow(k) = [found[k] EXCEPT !.prop = prop]
      BY <1>5 DEF NewRow
    <2> HIDE DEF kept, prop, name, ver
    <2>2. /\ NewRow(k) \in AttachmentRows /\ NewRow(k).status = found[k].status
          /\ NewRow(k).dir = found[k].dir /\ NewRow(k).pdf = found[k].pdf
          /\ NewRow(k).arch = found[k].arch /\ NewRow(k).stamp = found[k].stamp
          /\ NewRow(k).name = found[k].name /\ NewRow(k).ver = found[k].ver
      BY <1>1, <2>1 DEF AttachmentRows
    <2>3. RowIsFromArchive(NewRow(k)) /\ RowKnowsArchive(k, NewRow(k))
      BY <1>2, <2>2 DEF RowIsFromArchive, RowKnowsArchive
    <2>4. NewRow(k).dir <= dir
      BY <2>2 DEF AttachmentInv, FoundInv
    <2> QED BY <1>2, <1>5, <2>2, <2>3, <2>4 DEF name, ver
  <1>6. CASE k \notin job.asked /\ ~(job.asked # {} /\ job.mapping.status # "verified")
             /\ rows[k].status # "none"
    <2>1. NewRow(k) = projected(rows[k])
      BY <1>6 DEF NewRow
    <2> HIDE DEF kept, prop, name, ver
    <2>2. /\ NewRow(k) \in AttachmentRows /\ NewRow(k).status = rows[k].status
          /\ NewRow(k).dir = rows[k].dir /\ NewRow(k).pdf = rows[k].pdf
          /\ NewRow(k).arch = rows[k].arch /\ NewRow(k).stamp = rows[k].stamp
          /\ NewRow(k).name = name /\ NewRow(k).ver = ver /\ NewRow(k).name = rows[k].name
      BY <1>1, <1>3, <1>6, <2>1 DEF AttachmentRows
    <2>3. RowIsFromArchive(NewRow(k)) /\ RowKnowsArchive(k, NewRow(k))
      BY <1>2, <2>2 DEF RowIsFromArchive, RowKnowsArchive
    <2> QED BY <1>2, <1>6, <2>2, <2>3 DEF name, ver
  <1>7. CASE k \notin job.asked /\ ~(job.asked # {} /\ job.mapping.status # "verified")
             /\ rows[k].status = "none"
    <2>1. NewRow(k) = [projected(NoRow) EXCEPT !.status = "unsupported_attachment"]
      BY <1>7 DEF NewRow
    <2> HIDE DEF kept, prop, name, ver
    <2>2. /\ NewRow(k) \in AttachmentRows /\ NewRow(k).status = "unsupported_attachment"
          /\ NewRow(k).dir = 0 /\ NewRow(k).pdf = NoPdf
          /\ NewRow(k).name = name /\ NewRow(k).ver = ver
      BY <1>1, <1>2, <2>1 DEF AttachmentRows, Statuses
    <2>3. RowIsFromArchive(NewRow(k)) /\ RowKnowsArchive(k, NewRow(k))
      BY <2>2 DEF RowIsFromArchive, RowKnowsArchive
    <2> QED BY <1>1, <1>7, <2>2, <2>3 DEF name, ver
  <1> QED BY <1>4, <1>5, <1>6, <1>7

LEMMA CommitInv == ASSUME AttachmentInv, Commit, UNCHANGED mirrorVars PROVE AttachmentInv'
  <1>1. /\ spc = "commit" /\ meta' = job.meta /\ mapping' = job.mapping
        /\ rows' = [k \in Keys |-> IF job.meta[k].live THEN NewRow(k) ELSE NoRow]
        /\ extracted' = [k \in Keys |-> IF staged[k] # NoPdf THEN staged[k] ELSE extracted[k]]
        /\ lost' = lost \ {k \in job.asked : found[k].status = "ready"}
        /\ SyncEnds /\ UNCHANGED <<file, stamp, dir, calm>>
    BY DEF Commit, mirrorVars
  <1>2. /\ JobInv' /\ FoundInv' /\ LookInv' /\ CurrentInv' /\ CalmInv'
        /\ spc' = "idle" /\ spc' \notin Resolving
        /\ look' \in [Keys -> Looks] /\ found' \in [Keys -> AttachmentRows]
        /\ staged' \in [Keys -> Pdfs] /\ arch' \in Versions /\ pdf' \in Pdfs
    BY <1>1, SyncEndsInv
  <1>3. job \in Jobs /\ dir \in {0, 1} /\ extracted' \in [Keys -> Pdfs]
    BY <1>1 DEF AttachmentInv, AttachmentTyped
  <1>4. ASSUME NEW k \in Keys
        PROVE  /\ rows'[k] \in AttachmentRows /\ rows'[k].dir <= dir
               /\ RowIsFromArchive(rows'[k]) /\ RowKnowsArchive(k, rows'[k])
               /\ rows'[k].status # "none" =>
                    rows'[k].name = job.meta[k].name /\ rows'[k].ver = job.meta[k].ver
    <2>1. CASE job.meta[k].live
      <3>1. rows'[k] = NewRow(k)
        BY <1>1, <2>1
      <3> QED BY <1>1, <2>1, <3>1, NewRowIsRight
    <2>2. CASE ~job.meta[k].live
      <3>1. rows'[k] = NoRow
        BY <1>1, <2>2
      <3> QED BY <1>3, <3>1, NothingTyped DEF RowKnowsArchive
    <2> QED BY <2>1, <2>2
  <1>5. AttachmentTyped'
    BY <1>1, <1>2, <1>3, <1>4 DEF AttachmentInv, AttachmentTyped, Jobs
  <1>6. RowsInv'
    BY <1>1, <1>4 DEF RowsInv, RowIsFromArchive, RowKnowsArchive
  <1>7. ASSUME NEW k \in Keys \ lost', rows'[k].status = "ready"
        PROVE  extracted'[k] = rows'[k].pdf
    <2>1. job.meta[k].live /\ rows'[k] = NewRow(k)
      BY <1>1, <1>7, NothingTyped
    <2>2. CASE k \in job.asked
      <3>1. found[k].status = "ready" /\ rows'[k].pdf = found[k].pdf
        BY <1>1, <1>7, <2>1, <2>2, NewRowIsRight
      <3>2. IF staged[k] # NoPdf THEN staged[k] = found[k].pdf ELSE extracted[k] = found[k].pdf
        BY <3>1 DEF AttachmentInv, FoundInv
      <3> QED BY <1>1, <3>1, <3>2
    <2>3. CASE k \notin job.asked
      <3>1. rows[k].status = "ready" /\ rows'[k].pdf = rows[k].pdf
        BY <1>1, <1>7, <2>1, <2>3, NewRowIsRight
      <3>2. staged[k] = NoPdf /\ k \notin lost
        BY <1>1, <1>7, <2>3 DEF AttachmentInv, FoundInv
      <3> QED BY <1>1, <3>1, <3>2 DEF AttachmentInv, ReadyHasFile
    <2> QED BY <2>2, <2>3
  <1>8. ReadyHasFile'
    BY <1>7 DEF ReadyHasFile
  <1>9. ASSUME calm, job.mapping.status = "verified", NEW k \in Eligible(job.meta)
        PROVE  TellsArchive(k, job.meta[k].name, rows'[k])
    <2>1. k \in Keys /\ job.meta[k].live /\ rows'[k] = NewRow(k)
      BY <1>1 DEF Eligible
    <2>2. IF k \in job.asked
          THEN rows'[k].status = found[k].status /\ rows'[k].arch = found[k].arch
          ELSE IF rows[k].status # "none"
          THEN rows'[k].status = rows[k].status /\ rows'[k].arch = rows[k].arch
          ELSE rows'[k].status # "ready"
      BY <1>1, <1>9, <2>1, NewRowIsRight
    <2>3. CASE k \in job.asked
      <3>1. TellsArchive(k, job.meta[k].name, found[k])
        BY <1>1, <1>9, <2>3 DEF AttachmentInv, CalmInv, IsResolved
      <3> QED BY <2>2, <2>3, <3>1 DEF TellsArchive
    <2>4. CASE k \notin job.asked
      <3>1. TellsArchive(k, job.meta[k].name, rows[k])
        BY <1>1, <1>9, <2>4 DEF AttachmentInv, CalmInv
      <3> QED BY <2>2, <2>4, <3>1 DEF TellsArchive
    <2> QED BY <2>3, <2>4
  <1>10. ScanIsComplete'
    BY <1>1, <1>9 DEF ScanIsComplete, TellsArchive, Located, LocationWithProp, Eligible
  <1> QED BY <1>2, <1>5, <1>6, <1>8, <1>10 DEF AttachmentInv

LEMMA LoseExtractedInv ==
    ASSUME AttachmentInv, NEW k \in Keys, LoseExtracted(k), UNCHANGED mirrorVars
    PROVE  AttachmentInv'
  <1>1. /\ spc = "idle" /\ extracted' = [extracted EXCEPT ![k] = NoPdf] /\ lost' = lost \union {k}
        /\ UNCHANGED <<file, stamp, meta, rows, mapping, dir, spc, job, look, cur, arch, pdf, found,
                       staged, calm>>
    BY DEF LoseExtracted, work, mirrorVars
  <1>2. extracted \in [Keys -> Pdfs] /\ dir \in {0, 1}
    BY DEF AttachmentInv, AttachmentTyped
  <1>3. AttachmentTyped'
    BY <1>1, <1>2, NothingTyped DEF AttachmentInv, AttachmentTyped
  <1>4. RowsInv' /\ JobInv' /\ LookInv' /\ CurrentInv' /\ CalmInv'
    BY <1>1 DEF AttachmentInv, RowsInv, RowIsFromArchive, RowKnowsArchive, JobInv, LookInv,
                CurrentInv, CalmInv
  <1>5. FoundInv'
    BY <1>1, <1>2, FoundKept
  <1>6. ReadyHasFile'
    BY <1>1, <1>2 DEF AttachmentInv, ReadyHasFile
  <1>7. ScanIsComplete'
    BY <1>1 DEF AttachmentInv, ScanIsComplete, Located, LocationWithProp, Eligible
  <1> QED BY <1>3, <1>4, <1>5, <1>6, <1>7 DEF AttachmentInv

\* In another directory no stamp of a row counts.
LEMMA ChangeDirectoryInv ==
    ASSUME AttachmentInv, ChangeDirectory, UNCHANGED mirrorVars PROVE AttachmentInv'
  <1>1. /\ dir = 0 /\ dir' = 1 /\ spc = "idle" /\ ~calm'
        /\ UNCHANGED <<file, stamp, meta, rows, extracted, mapping, spc, job, look, cur, arch, pdf,
                       found, staged, lost>>
    BY DEF ChangeDirectory, tables, work, mirrorVars
  <1>2. AttachmentTyped'
    BY <1>1 DEF AttachmentInv, AttachmentTyped
  <1>3. ASSUME NEW k \in Keys PROVE rows[k].dir \in {0, 1} /\ rows[k].dir <= 0
    BY <1>1 DEF AttachmentInv, AttachmentTyped, AttachmentRows, RowsInv
  <1>4. RowsInv'
    BY <1>1, <1>3 DEF AttachmentInv, RowsInv, RowIsFromArchive, RowKnowsArchive
  <1>5. FoundInv'
    BY <1>1, FoundKept
  <1>6. JobInv' /\ LookInv' /\ CurrentInv' /\ CalmInv' /\ ReadyHasFile' /\ ScanIsComplete'
    BY <1>1 DEF AttachmentInv, JobInv, LookInv, CurrentInv, CalmInv, ReadyHasFile, ScanIsComplete
  <1> QED BY <1>2, <1>4, <1>5, <1>6 DEF AttachmentInv

--------------------------------------------------------------------------------
LEMMA BeginsInv ==
    ASSUME AttachmentInv, UNCHANGED mirrorVars,
           \/ \E k \in Keys : SyncChanged(k)
           \/ \E policy \in {"changed", "none"} : SyncUnmodified(policy)
           \/ \E chosen \in SUBSET Keys : SyncAttachments(chosen)
    PROVE  AttachmentInv'
  <1>1. meta \in [Keys -> Metas] /\ Eligible(meta) \in SUBSET Eligible(meta)
    BY DEF AttachmentInv, AttachmentTyped
  <1>2. ASSUME NEW k \in Keys, SyncChanged(k) PROVE AttachmentInv'
    <2>1. PICK n \in Names, live \in BOOLEAN :
              LET m == [meta EXCEPT ![k] = [name |-> n, ver |-> @.ver + 1, live |-> live]]
              IN  Begin(m, "all", Eligible(m))
      BY <1>2 DEF SyncChanged
    <2> DEFINE m == [meta EXCEPT ![k] = [name |-> n, ver |-> @.ver + 1, live |-> live]]
    <2>2. meta[k].ver + 1 \in Nat /\ n \in MemberNames
      BY <1>1 DEF Metas, MemberNames
    <2>3. m \in [Keys -> Metas] /\ Begin(m, "all", Eligible(m)) /\ Eligible(m) \in SUBSET Eligible(m)
      BY <1>1, <2>1, <2>2 DEF Metas
    <2> HIDE DEF m
    <2> QED BY <2>3, BeginInv
  <1>3. ASSUME NEW policy \in {"changed", "none"}, SyncUnmodified(policy) PROVE AttachmentInv'
    BY <1>1, <1>3, BeginInv DEF SyncUnmodified
  <1>4. ASSUME NEW chosen \in SUBSET Keys, SyncAttachments(chosen) PROVE AttachmentInv'
    BY <1>1, <1>4, BeginInv DEF SyncAttachments
  <1> QED BY <1>2, <1>3, <1>4

LEMMA AttachmentStutters == ASSUME AttachmentInv, UNCHANGED allVars PROVE AttachmentInv'
  <1>1. UNCHANGED <<file, stamp, meta, rows, extracted, mapping, dir, spc, job, look, cur, arch, pdf,
                    found, staged, lost, calm>>
    BY DEF allVars, mirrorVars, syncVars, tables, work
  <1>2. AttachmentTyped' /\ RowsInv' /\ JobInv' /\ LookInv' /\ CurrentInv' /\ ReadyHasFile'
    BY <1>1 DEF AttachmentInv, AttachmentTyped, RowsInv, RowIsFromArchive, RowKnowsArchive, JobInv,
                LookInv, CurrentInv, ReadyHasFile, Eligible
  <1>3. FoundInv'
    BY <1>1 DEF AttachmentInv, FoundInv, RowIsFromArchive, RowKnowsArchive
  <1>4. CalmInv' /\ ScanIsComplete'
    BY <1>1 DEF AttachmentInv, CalmInv, TellsArchive, Located, LocationWithProp, Signature,
                IsResolved, ScanIsComplete, Eligible
  <1> QED BY <1>2, <1>3, <1>4 DEF AttachmentInv

LEMMA AttachmentNextInv ==
    ASSUME AttachmentInv, [AttachmentNext]_allVars PROVE AttachmentInv'
  <1>1. CASE UNCHANGED allVars
    BY <1>1, AttachmentStutters
  <1>2. CASE MirrorStep
    BY <1>2, MirrorStepInv
  <1>3. CASE SyncStep /\ UNCHANGED mirrorVars
    <2>1. CASE \/ \E k \in Keys : SyncChanged(k)
               \/ \E policy \in {"changed", "none"} : SyncUnmodified(policy)
               \/ \E chosen \in SUBSET Keys : SyncAttachments(chosen)
      BY <1>3, <2>1, BeginsInv
    <2>2. CASE ValidateMapping \/ Observe \/ Confirm
      BY <1>3, <2>2, ValidateMappingInv, ObserveInv, ConfirmInv
    <2>3. CASE HashArchive \/ ReuseExtracted \/ Extract \/ Stage
      BY <1>3, <2>3, HashArchiveInv, ReuseExtractedInv, ExtractPdfInv, StageInv
    <2>4. CASE Commit \/ SyncFails \/ ChangeDirectory \/ \E k \in Keys : LoseExtracted(k)
      BY <1>3, <2>4, CommitInv, SyncFailsInv, ChangeDirectoryInv, LoseExtractedInv
    <2> QED BY <1>3, <2>1, <2>2, <2>3, <2>4 DEF SyncStep
  <1> QED BY <1>1, <1>2, <1>3 DEF AttachmentNext

LEMMA AttachmentInvariant == AttachmentSpec => []AttachmentInv
  BY AttachmentInitInv, AttachmentNextInv, PTL DEF AttachmentSpec

\* However refreshes replace archives while _resolve_stable hashes, reuses, opens
\* and extracts them, the PDF of a ready row is from the archive whose hash the
\* row records, the member that _inspect_open picks for the row's file name.
THEOREM ReadyStaysFromArchive == AttachmentSpec => []ReadyIsFromArchive
  <1>1. AttachmentInv => ReadyIsFromArchive
    BY DEF AttachmentInv, RowsInv, RowIsFromArchive, ReadyIsFromArchive
  <1> QED BY <1>1, AttachmentInvariant, PTL

\* The file of a ready row is the recorded PDF unless someone removed it since
\* the last scan that found the row ready (_reuse_cache, the commit).
THEOREM ReadyKeepsFile == AttachmentSpec => []ReadyHasFile
  BY AttachmentInvariant, PTL DEF AttachmentInv

\* After a scan of everything with archives that stood still, exactly the
\* attachments whose archive lets a PDF be selected are ready, with that archive:
\* what _attachment_needs_scan skips and _reuse_cache keeps is never stale.
THEOREM ScansAreComplete == AttachmentSpec => []ScanIsComplete
  BY AttachmentInvariant, PTL DEF AttachmentInv
=============================================================================
