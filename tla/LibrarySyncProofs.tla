-------------------------- MODULE LibrarySyncProofs --------------------------
(***************************************************************************)
(* Theorems of LibrarySync, for any number of edits, drifts and failed     *)
(* requests: what a sync commits is one version of the library, and the    *)
(* published deltas add up to the published document.                      *)
(***************************************************************************)
EXTENDS LibrarySync, SequenceTheorems, TLAPS

AfterListing == {"fetchCollections", "fetchItems", "deleted", "apply"}
Reading == {"searches", "items"} \cup AfterListing
PCs == {"idle", "collections", "unmodified"} \cup Reading
Library == [Objects -> Nat]

Typed ==
  /\ lib \in Library /\ gone \in Library /\ local \in Library /\ past \in Seq(Library)
  /\ version \in Nat /\ target \in Nat
  /\ listing \in Library /\ fetched \in Library
  /\ pc \in PCs /\ mode \in {"incremental", "full", "rebuild"}

---------------------------------------------------------------------------
(* The library's versions.                                                 *)

\* What was neither edited nor deleted after v is as it was at v, and nothing
\* disappears without an entry in the deletion log.
HistoryInv ==
  /\ IF past = <<>> THEN lib = NoObjects ELSE lib = past[Len(past)]
  /\ \A k \in Objects : /\ lib[k] <= Len(past) /\ gone[k] <= Len(past)
                        /\ gone[k] # 0 => lib[k] = 0
  /\ \A v \in 1 .. Len(past), k \in Objects :
       /\ past[v][k] <= v
       /\ lib[k] <= v /\ gone[k] <= v => lib[k] = past[v][k]
       /\ past[v][k] # 0 => lib[k] # 0 \/ gone[k] # 0

StoreInv ==
  /\ version = 0 => local = NoObjects
  /\ version # 0 => version <= Len(past) /\ local = past[version]

---------------------------------------------------------------------------
(* The answers of a sync, as long as the library has not moved.            *)

Changed(k) == IF lib[k] > Since THEN lib[k] ELSE 0
Needed(k) == Changed(k) # 0 /\ (mode = "full" \/ Base[k] # Changed(k))
Wanted(k) == IF Needed(k) THEN lib[k] ELSE 0

\* Answers of requests not sent yet.
Unanswered ==
  /\ pc \in {"idle", "collections"} => listing = NoObjects
  /\ pc \in {"searches", "items"} => \A k \in ItemKeys : listing[k] = 0
  /\ pc \in {"idle", "collections", "searches", "items", "fetchCollections"} => fetched = NoObjects
  /\ pc = "fetchItems" => \A k \in ItemKeys : fetched[k] = 0

Answered ==
  /\ \A k \in CollectionKeys : listing[k] = Changed(k)
  /\ pc \in AfterListing => \A k \in ItemKeys : listing[k] = Changed(k)
  /\ pc \in {"fetchItems", "deleted", "apply"} => \A k \in CollectionKeys : fetched[k] = Wanted(k)
  /\ pc \in {"deleted", "apply"} => \A k \in ItemKeys : fetched[k] = Wanted(k)
  /\ pc = "apply" => dels = {k \in Objects : gone[k] > Since}

AnswersInv ==
  /\ Unanswered
  /\ pc \in Reading => target <= Len(past)
  /\ pc \in Reading /\ target = Len(past) => Answered
  /\ pc = "unmodified" => target = version

LibInv == Typed /\ HistoryInv /\ StoreInv /\ AnswersInv

---------------------------------------------------------------------------
LEMMA InitLib == Init => LibInv
  BY DEF Init, LibInv, Typed, HistoryInv, StoreInv, AnswersInv, Unanswered, Library, NoObjects,
     Reading, AfterListing, PCs

\* One more version of the library.
LEMMA LibraryMoves ==
  ASSUME LibInv, NEW K \in SUBSET Objects,
         \/ (\A k \in K : gone[k] = 0) /\ gone' = gone
              /\ lib' = [o \in Objects |-> IF o \in K THEN LibraryVersion + 1 ELSE lib[o]]
         \/ gone' = [o \in Objects |-> IF o \in K THEN LibraryVersion + 1 ELSE gone[o]]
              /\ lib' = [o \in Objects |-> IF o \in K THEN 0 ELSE lib[o]],
         past' = Append(past, lib'),
         UNCHANGED <<local, version, pc, mode, target, listing, fetched, dels>>
  PROVE  LibInv'
<1> DEFINE n == Len(past)
<1>1. n \in Nat /\ LibraryVersion = n
  BY DEF LibInv, Typed, LibraryVersion
<1>11. \A k \in Objects :
        \/ lib'[k] = lib[k] /\ gone'[k] = gone[k]
        \/ gone[k] = 0 /\ gone'[k] = 0 /\ lib'[k] = n + 1
        \/ gone'[k] = n + 1 /\ lib'[k] = 0
  BY <1>1
<1>12. \A k \in Objects : lib[k] \in Nat /\ gone[k] \in Nat
  BY DEF LibInv, Typed, Library
<1>2. lib' \in Library /\ gone' \in Library
  <2>1. DOMAIN lib' = Objects /\ lib' = [o \in Objects |-> lib'[o]]
    OBVIOUS
  <2>2. gone' = [o \in Objects |-> gone'[o]]
    BY DEF LibInv, Typed, Library
  <2>3. \A k \in Objects : lib'[k] \in Nat /\ gone'[k] \in Nat
    BY <1>1, <1>11, <1>12
  <2> QED BY <2>1, <2>2, <2>3 DEF Library
<1>3. /\ past' \in Seq(Library) /\ Len(past') = n + 1 /\ past' # <<>>
      /\ \A v \in 1 .. n : past'[v] = past[v]
      /\ past'[n + 1] = lib'
  BY <1>1, <1>2, AppendProperties DEF LibInv, Typed
<1>4. Typed'
  BY <1>2, <1>3 DEF LibInv, Typed
<1>5. \A k \in Objects : /\ lib'[k] <= n + 1 /\ gone'[k] <= n + 1
                         /\ gone'[k] # 0 => lib'[k] = 0
  BY <1>1, <1>11, <1>12 DEF LibInv, HistoryInv
<1>6. \A v \in 1 .. n, k \in Objects :
        /\ past[v][k] <= v
        /\ lib'[k] <= v /\ gone'[k] <= v => lib'[k] = past[v][k]
        /\ past[v][k] # 0 => lib'[k] # 0 \/ gone'[k] # 0
  BY <1>1, <1>11, <1>12 DEF LibInv, HistoryInv
<1>7. HistoryInv'
  <2> SUFFICES ASSUME NEW v \in 1 .. n + 1, NEW k \in Objects
               PROVE  /\ past'[v][k] <= v
                      /\ lib'[k] <= v /\ gone'[k] <= v => lib'[k] = past'[v][k]
                      /\ past'[v][k] # 0 => lib'[k] # 0 \/ gone'[k] # 0
    BY <1>3, <1>5 DEF HistoryInv
  <2>1. CASE v \in 1 .. n
    BY <1>3, <1>6, <2>1
  <2>2. CASE v = n + 1
    BY <1>3, <1>5, <2>2
  <2> QED BY <1>1, <2>1, <2>2
<1>8. StoreInv'
  BY <1>1, <1>3 DEF LibInv, StoreInv, Typed
<1>9. AnswersInv'
  BY <1>1, <1>3 DEF LibInv, AnswersInv, Unanswered, Typed
<1> QED BY <1>4, <1>7, <1>8, <1>9 DEF LibInv

LEMMA EditMoves == LibInv /\ (\E k \in Objects : Edit(k) \/ Delete(k)) => LibInv'
<1>1. ASSUME LibInv, NEW k \in Objects, Edit(k) PROVE LibInv'
  <2>1. lib' = [o \in Objects |-> IF o \in {k} THEN LibraryVersion + 1 ELSE lib[o]]
    BY <1>1 DEF Edit, LibInv, Typed, Library
  <2>2. \A o \in {k} : gone[o] = 0
    BY <1>1 DEF Edit
  <2> QED BY <1>1, <2>1, <2>2, LibraryMoves DEF Edit, storeVars, answers
<1>2. ASSUME LibInv, NEW k \in Objects, Delete(k) PROVE LibInv'
  <2> DEFINE K == IF k = "P" /\ lib["A"] # 0 THEN {"P", "A"} ELSE {k}
  <2>1. K \in SUBSET Objects
    BY DEF Objects
  <2> HIDE DEF K
  <2>2. /\ lib' = [o \in Objects |-> IF o \in K THEN 0 ELSE lib[o]]
        /\ gone' = [o \in Objects |-> IF o \in K THEN LibraryVersion + 1 ELSE gone[o]]
    BY <1>2 DEF Delete, K
  <2> QED BY <1>2, <2>1, <2>2, LibraryMoves DEF Delete, storeVars, answers
<1> QED BY <1>1, <1>2

---------------------------------------------------------------------------
(* The steps of a sync.                                                    *)

\* A request changes neither the library nor the store.
LEMMA RequestFrame ==
  ASSUME UNCHANGED <<lib, gone, past, local, version, mode>>
  PROVE  /\ Since' = Since /\ Base' = Base
         /\ \A k \in Objects : Changed(k)' = Changed(k) /\ Wanted(k)' = Wanted(k)
         /\ HistoryInv => HistoryInv'
         /\ StoreInv => StoreInv'
  BY DEF Since, Base, Changed, Wanted, Needed, HistoryInv, StoreInv

\* Nothing is left of the answers.
LEMMA Forgotten ==
  ASSUME Typed, HistoryInv, HistoryInv', StoreInv', ForgetAnswers, pc' \in {"idle", "collections"},
         mode' \in {"incremental", "full", "rebuild"}, version' \in Nat, local' \in Library,
         UNCHANGED remoteVars
  PROVE  LibInv'
  BY DEF ForgetAnswers, remoteVars, LibInv, Typed, AnswersInv, Unanswered, NoObjects, Library, PCs,
     Reading, AfterListing

LEMMA DriftedKeeps ==
  ASSUME LibInv, Drifted \/ SyncStops, UNCHANGED <<remoteVars, local, version>>
  PROVE  LibInv'
<1>1. HistoryInv' /\ StoreInv'
  BY DEF LibInv, HistoryInv, StoreInv, remoteVars
<1> QED BY <1>1, Forgotten DEF LibInv, Typed, Drifted, SyncStops

LEMMA StartKeeps ==
  ASSUME LibInv, NEW m \in {"incremental", "full", "rebuild"}, SyncStarts(m)
  PROVE  LibInv'
  BY DEF LibInv, Typed, HistoryInv, StoreInv, AnswersInv, Unanswered, SyncStarts, remoteVars,
     storeVars, answers, PCs, Reading, AfterListing

\* A listing names the objects changed since the base version.
LEMMA ListedChanged ==
  ASSUME Typed, NEW keys \in SUBSET Objects, \A k \in keys : listing[k] = 0
  PROVE  /\ Listed(keys) \in Library
         /\ \A k \in keys : Listed(keys)[k] = Changed(k)
         /\ \A k \in Objects \ keys : Listed(keys)[k] = listing[k]
  BY DEF Typed, Listed, Changed, Library

LEMMA ListingsKeep ==
  ASSUME LibInv, ListCollections \/ ListSearches \/ ListItems
  PROVE  LibInv'
<1> USE DEF LibInv, PCs, Reading, AfterListing, CollectionKeys, ItemKeys, Objects
<1>1. CASE ListCollections
  <2>1. UNCHANGED <<lib, gone, past, local, version, mode, fetched>>
    BY <1>1 DEF ListCollections, remoteVars, storeVars
  <2>2. CASE NotModified
    BY <1>1, <2>1, <2>2, RequestFrame DEF ListCollections, Typed, AnswersInv, Unanswered
  <2>3. CASE ~NotModified
    <3>1. /\ pc = "collections" /\ pc' = "searches" /\ target' = Len(past)
          /\ listing' = Listed(CollectionKeys)
      BY <1>1, <2>3 DEF ListCollections, LibraryVersion
    <3>2. \A k \in Objects : listing[k] = 0
      BY <3>1 DEF AnswersInv, Unanswered, NoObjects
    <3>3. /\ listing' \in Library /\ listing'["C"] = Changed("C")
          /\ \A k \in ItemKeys : listing'[k] = 0
      BY <3>1, <3>2, ListedChanged
    <3>4. Len(past) \in Nat
      BY DEF Typed
    <3>5. Typed'
      BY <2>1, <3>1, <3>3, <3>4 DEF Typed
    <3>6. AnswersInv'
      BY <2>1, <3>1, <3>3, <3>4, RequestFrame DEF AnswersInv, Unanswered, Answered
    <3> QED BY <2>1, <3>5, <3>6, RequestFrame
  <2> QED BY <2>2, <2>3
<1>2. CASE ListSearches
  BY <1>2, RequestFrame DEF ListSearches, remoteVars, storeVars, Typed, AnswersInv, Unanswered,
     Answered
<1>3. CASE ListItems
  <2>1. UNCHANGED <<lib, gone, past, local, version>>
    BY <1>3 DEF ListItems, remoteVars, storeVars
  <2>2. CASE seen \union {LibraryVersion} = {target}
    <3>1. /\ pc = "items" /\ pc' = "fetchCollections" /\ listing' = Listed(ItemKeys)
          /\ UNCHANGED <<mode, target, fetched>>
      BY <1>3, <2>2 DEF ListItems
    <3>2. \A k \in ItemKeys : listing[k] = 0
      BY <3>1 DEF AnswersInv, Unanswered
    <3>3. /\ listing' \in Library /\ listing'["C"] = listing["C"]
          /\ \A k \in ItemKeys : listing'[k] = Changed(k)
      BY <3>1, <3>2, ListedChanged
    <3>4. Typed'
      BY <2>1, <3>1, <3>3 DEF Typed
    <3>5. AnswersInv'
      BY <2>1, <3>1, <3>3, RequestFrame DEF AnswersInv, Unanswered, Answered
    <3> QED BY <2>1, <3>1, <3>4, <3>5, RequestFrame
  <2>3. CASE seen \union {LibraryVersion} # {target}
    BY <1>3, <2>1, <2>3, DriftedKeeps DEF ListItems, remoteVars, storeVars
  <2> QED BY <2>2, <2>3
<1> QED BY <1>1, <1>2, <1>3

\* A batch holds what is wanted of its kind, when the library is still the one
\* that was listed.
LEMMA BatchWanted ==
  ASSUME Typed, NEW keys \in SUBSET Objects, NEW next, FetchBatch(Outdated(keys), next),
         BatchMatches(Outdated(keys)), \A k \in keys : fetched[k] = 0
  PROVE  /\ fetched' \in Library /\ pc' = next
         /\ \A k \in Objects \ keys : fetched'[k] = fetched[k]
         /\ \A k \in keys : listing[k] = Changed(k) => fetched'[k] = Wanted(k)
<1>1. \A k \in Objects : fetched'[k] = IF k \in Outdated(keys) THEN lib[k] ELSE fetched[k]
  BY DEF FetchBatch
<1>2. \A k \in keys : listing[k] = Changed(k) => (k \in Outdated(keys) <=> Needed(k))
  BY DEF Outdated, Needed
<1>3. Outdated(keys) \subseteq keys
  BY DEF Outdated
<1>4. fetched' \in Library
  BY DEF FetchBatch, Typed, Library
<1> QED BY <1>1, <1>2, <1>3, <1>4 DEF Wanted, FetchBatch

LEMMA BatchesKeep ==
  ASSUME LibInv, FetchCollections \/ FetchItems \/ FetchDeleted
  PROVE  LibInv'
<1> USE DEF LibInv, PCs, Reading, AfterListing, CollectionKeys, ItemKeys, Objects
<1>1. UNCHANGED <<lib, gone, past, local, version>>
  BY DEF FetchCollections, FetchItems, FetchDeleted, remoteVars, storeVars
<1>2. CASE Drifted \/ SyncStops
  BY <1>1, <1>2, DriftedKeeps DEF FetchCollections, FetchItems, FetchDeleted, remoteVars, storeVars
<1>3. CASE FetchCollections /\ BatchMatches(Outdated(CollectionKeys))
  <2>1. /\ pc = "fetchCollections" /\ FetchBatch(Outdated(CollectionKeys), "fetchItems")
        /\ UNCHANGED <<mode, target, listing>>
    BY <1>3 DEF FetchCollections, FetchBatch
  <2>2. \A k \in Objects : fetched[k] = 0
    BY <2>1 DEF AnswersInv, Unanswered, NoObjects
  <2>3. /\ fetched' \in Library /\ pc' = "fetchItems" /\ \A k \in ItemKeys : fetched'[k] = 0
        /\ listing["C"] = Changed("C") => fetched'["C"] = Wanted("C")
    BY <1>3, <2>1, <2>2, BatchWanted
  <2>4. Typed'
    BY <1>1, <2>1, <2>3 DEF Typed
  <2>5. AnswersInv'
    BY <1>1, <2>1, <2>3, RequestFrame DEF AnswersInv, Unanswered, Answered
  <2> QED BY <1>1, <2>1, <2>4, <2>5, RequestFrame
<1>4. CASE FetchItems /\ FetchBatch(Outdated(ItemKeys), "deleted") /\ BatchMatches(Outdated(ItemKeys))
  <2>1. pc = "fetchItems" /\ UNCHANGED <<mode, target, listing>>
    BY <1>4 DEF FetchItems, FetchBatch
  <2>2. \A k \in ItemKeys : fetched[k] = 0
    BY <2>1 DEF AnswersInv, Unanswered
  <2>3. /\ fetched' \in Library /\ pc' = "deleted" /\ fetched'["C"] = fetched["C"]
        /\ \A k \in ItemKeys : listing[k] = Changed(k) => fetched'[k] = Wanted(k)
    BY <1>4, <2>1, <2>2, BatchWanted
  <2>4. Typed'
    BY <1>1, <2>1, <2>3 DEF Typed
  <2>5. AnswersInv'
    BY <1>1, <2>1, <2>3, RequestFrame DEF AnswersInv, Unanswered, Answered
  <2> QED BY <1>1, <2>1, <2>4, <2>5, RequestFrame
<1>5. CASE FetchDeleted /\ LibraryVersion = target
  <2>1. /\ pc = "deleted" /\ pc' = "apply" /\ dels' = {k \in Objects : gone[k] > Since}
        /\ UNCHANGED <<mode, target, listing, fetched>>
    BY <1>5 DEF FetchDeleted
  <2>2. Typed'
    BY <1>1, <2>1 DEF Typed
  <2>3. AnswersInv'
    BY <1>1, <2>1, RequestFrame DEF AnswersInv, Unanswered, Answered
  <2> QED BY <1>1, <2>1, <2>2, <2>3, RequestFrame
<1> QED BY <1>2, <1>3, <1>4, <1>5 DEF FetchCollections, FetchItems, FetchDeleted

\* The merge gives the library, when it has not moved since it was listed.
LEMMA AppliedIsLibrary ==
  ASSUME LibInv, pc = "apply", LibraryVersion = target
  PROVE  Applied = lib
<1>1. Answered
  BY DEF LibInv, AnswersInv, Reading, AfterListing, LibraryVersion
<1>2. dels = {k \in Objects : gone[k] > Since} /\ \A k \in Objects : fetched[k] = Wanted(k)
  BY <1>1 DEF Answered, CollectionKeys, ItemKeys, Objects
<1>3. \A k \in Objects : lib[k] \in Nat /\ gone[k] \in Nat /\ local[k] \in Nat
  BY DEF LibInv, Typed, Library
<1>4. ASSUME NEW k \in Objects PROVE Applied[k] = lib[k]
  <2>1. CASE gone[k] > Since
    <3>1. Since \in Nat
      BY DEF Since, LibInv, Typed
    <3>2. gone[k] # 0
      BY <1>3, <2>1, <3>1
    <3> QED BY <1>2, <2>1, <3>2 DEF Applied, LibInv, HistoryInv
  <2>2. CASE ~(gone[k] > Since) /\ fetched[k] # 0
    BY <1>2, <2>2 DEF Applied, Upserted, Wanted
  <2>3. CASE ~(gone[k] > Since) /\ fetched[k] = 0
    <3>1. Applied[k] = Base[k]
      BY <1>2, <2>3 DEF Applied, Upserted
    <3>2. ~Needed(k)
      BY <1>2, <2>3 DEF Wanted, Needed, Changed
    <3>3. CASE Changed(k) # 0
      BY <3>1, <3>2, <3>3 DEF Needed, Changed
    <3>4. CASE Changed(k) = 0
      <4>1. lib[k] <= Since /\ gone[k] <= Since
        <5>1. Since \in Nat
          BY DEF Since, LibInv, Typed
        <5> QED BY <1>3, <2>3, <3>4, <5>1 DEF Changed
      <4>2. version # 0 => /\ version \in 1 .. Len(past) /\ local[k] = past[version][k]
        BY DEF LibInv, StoreInv, Typed
      <4>3. version = 0 => local[k] = 0
        BY DEF LibInv, StoreInv, NoObjects
      <4>4. CASE mode = "incremental"
        BY <1>3, <3>1, <4>1, <4>2, <4>3, <4>4 DEF Since, Base, LibInv, HistoryInv
      <4>5. CASE mode = "full"
        BY <1>3, <3>1, <4>1, <4>2, <4>3, <4>5 DEF Since, Base, LibInv, HistoryInv
      <4>6. CASE mode = "rebuild"
        BY <1>3, <3>1, <4>1, <4>6 DEF Since, Base, NoObjects
      <4> QED BY <4>4, <4>5, <4>6 DEF LibInv, Typed
    <3> QED BY <3>3, <3>4
  <2> QED BY <2>1, <2>2, <2>3
<1> QED BY <1>4 DEF Applied, LibInv, Typed, Library

LEMMA CommitKeeps ==
  ASSUME LibInv, NEW r \in Resolutions, Commit(r)
  PROVE  LibInv'
<1>1. CASE LibraryVersion # target
  BY <1>1, DriftedKeeps DEF Commit, storeVars
<1>2. CASE LibraryVersion = target
  <2>1. /\ UNCHANGED remoteVars /\ SyncStops /\ version' = target /\ target = Len(past)
        /\ local' = IF pc = "unmodified" THEN local ELSE Applied
    BY <1>2 DEF Commit, LibraryVersion
  <2>2. local' \in Library /\ StoreInv'
    <3>1. CASE pc = "unmodified"
      BY <2>1, <3>1 DEF LibInv, AnswersInv, StoreInv, Typed, remoteVars
    <3>2. CASE pc = "apply"
      <4>1. local' = lib
        BY <1>2, <2>1, <3>2, AppliedIsLibrary
      <4>2. Len(past) = 0 <=> past = <<>>
        BY DEF LibInv, Typed
      <4> QED BY <2>1, <4>1, <4>2 DEF LibInv, HistoryInv, StoreInv, Typed, remoteVars
    <3> QED BY <3>1, <3>2 DEF Commit
  <2>3. HistoryInv'
    BY <2>1 DEF LibInv, HistoryInv, remoteVars
  <2> QED BY <2>1, <2>2, <2>3, Forgotten DEF LibInv, Typed, SyncStops
<1> QED BY <1>1, <1>2

LEMMA LibNext == LibInv /\ [Next]_vars => LibInv'
<1> SUFFICES ASSUME LibInv, [Next]_vars PROVE LibInv'
  OBVIOUS
<1>1. CASE UNCHANGED vars
  BY <1>1 DEF vars, remoteVars, storeVars, answers, LibInv, Typed, HistoryInv, StoreInv, AnswersInv,
     Unanswered, Answered, Changed, Wanted, Needed, Since, Base
<1>2. CASE \E m \in Modes \ {"rebuild"} : SyncStarts(m)
  BY <1>2, StartKeeps, LibraryAssumption
<1>3. CASE RebuildStarts
  BY <1>3, StartKeeps DEF RebuildStarts
<1>4. CASE SyncFails
  BY <1>4, DriftedKeeps DEF SyncFails, storeVars
<1> QED BY <1>1, <1>2, <1>3, <1>4, EditMoves, ListingsKeep, BatchesKeep, CommitKeeps
        DEF Next, SyncSteps

\* A sync never commits a mixture of versions, nor misses an edit or a deletion:
\* the objects of the store are the library at the recorded version.
THEOREM SyncCommitsLibrary == Spec => []CommittedIsLibrary
<1>1. LibInv => CommittedIsLibrary
  BY DEF LibInv, StoreInv, CommittedIsLibrary
<1> QED BY <1>1, InitLib, LibNext, PTL DEF Spec

---------------------------------------------------------------------------
(* The deltas.                                                             *)

Documents == [meta : Nat \X Nat, status : {r.status : r \in Resolutions} \cup {"none"},
              pdf : {r.pdf : r \in Resolutions} \cup {"none"},
              arch : {r.arch : r \in Resolutions} \cup {"none"}]

\* The inductive part besides LibInv.
DeltaInv == Typed /\ doc \in Documents /\ DeltasTellAll

\* A change that no reason names is none, and a document that is ready and not
\* chunked again was ready with the same PDF.
LEMMA ReasonFacts ==
  ASSUME NEW old \in Documents, NEW new \in Documents
  PROVE  /\ Delta(old, new) = "none" => old = new
         /\ new.status = "ready" /\ new # NoDoc /\ ~ChunkRequired(Delta(old, new), new)
              => old # NoDoc /\ old.status = "ready" /\ old.pdf = new.pdf
<1>1. (/\ old.meta = new.meta /\ old.status = new.status /\ old.pdf = new.pdf /\ old.arch = new.arch)
        => old = new
  BY DEF Documents
<1>2. ASSUME Delta(old, new) = "none" PROVE old = new
  <2>1. CASE old = NoDoc \/ new = NoDoc
    BY <1>2, <2>1 DEF Delta
  <2>2. CASE old # NoDoc /\ new # NoDoc
    <3>1. Reason(old, new) = "none"
      BY <1>2, <2>2 DEF Delta
    <3>2. /\ ~(old.status # "ready" /\ new.status = "ready")
          /\ ~(old.status = "ready" /\ new.status = "missing_archive")
          /\ ~(old.status # new.status /\ new.status # "missing_archive")
      BY <3>1 DEF Reason
    <3>3. old.pdf = new.pdf /\ old.arch = new.arch /\ old.meta = new.meta /\ old.status = new.status
      BY <3>1, <3>2 DEF Reason
    <3> QED BY <1>1, <3>3
  <2> QED BY <2>1, <2>2
<1>3. ASSUME new.status = "ready", new # NoDoc, ~ChunkRequired(Delta(old, new), new)
      PROVE  old # NoDoc /\ old.status = "ready" /\ old.pdf = new.pdf
  <2>1. old # NoDoc /\ Delta(old, new) = Reason(old, new)
    BY <1>3 DEF Delta, ChunkRequired
  <2>2. Reason(old, new) \notin {"attachment_became_available", "content_changed"}
    BY <1>3, <2>1 DEF ChunkRequired
  <2>3. old.status = "ready"
    <3>1. old.status # "ready" => Reason(old, new) = "attachment_became_available"
      BY <1>3 DEF Reason
    <3> QED BY <2>2, <3>1
  <2>4. old.pdf # new.pdf => Reason(old, new) = "content_changed"
    BY <1>3, <2>3 DEF Reason
  <2> QED BY <2>1, <2>2, <2>3, <2>4
<1> QED BY <1>2, <1>3

LEMMA CommitTells ==
  ASSUME DeltaInv, NEW r \in Resolutions, Commit(r), local' \in Library
  PROVE  doc' \in Documents /\ DeltasTellAll'
<1>1. CASE LibraryVersion # target
  BY <1>1 DEF Commit, storeVars, DeltaInv, DeltasTellAll
<1>2. CASE LibraryVersion = target
  <2> DEFINE objects == IF pc = "unmodified" THEN local ELSE Applied
             old == IF mode = "rebuild" THEN NoDoc ELSE doc
             new == Record(objects, r)
             reason == Delta(old, new)
  <2>1. /\ local' = objects /\ doc' = new
        /\ replay' = IF reason = "none" /\ mode # "rebuild" THEN replay ELSE new
        /\ chunked' = IF ChunkRequired(reason, new) THEN new.pdf
                      ELSE IF new = NoDoc THEN "none" ELSE chunked
    BY <1>2 DEF Commit
  <2>2. new \in Documents /\ old \in Documents
    <3>1. NoDoc \in Documents
      BY DEF NoDoc, Documents
    <3>2. objects["P"] \in Nat /\ objects["C"] \in Nat
      BY <2>1 DEF Library, Objects
    <3>3. new \in Documents
      BY <3>1, <3>2 DEF Record, Documents
    <3> QED BY <3>1, <3>3 DEF DeltaInv
  <2>3. NoDoc.status = "none"
    BY DEF NoDoc
  <2> HIDE DEF objects, new
  <2>4. /\ reason = "none" => old = new
        /\ (new.status = "ready" /\ new # NoDoc /\ ~ChunkRequired(reason, new))
              => (old # NoDoc /\ old.status = "ready" /\ old.pdf = new.pdf)
    BY <2>2, ReasonFacts
  <2>5. replay' = doc'
    BY <2>1, <2>4 DEF DeltaInv, DeltasTellAll
  <2>6. doc'.status = "ready" => chunked' = doc'.pdf
    BY <2>1, <2>3, <2>4 DEF DeltaInv, DeltasTellAll
  <2> QED BY <2>1, <2>2, <2>5, <2>6 DEF DeltasTellAll
<1> QED BY <1>1, <1>2

\* The deltas published so far, applied in order, give the published document,
\* and the PDF of a ready document was announced for chunking.
THEOREM DeltasAddUp == Spec => []DeltasTellAll
<1> DEFINE Inv == LibInv /\ doc \in Documents /\ DeltasTellAll
<1>1. Init => Inv
  BY InitLib DEF Init, Documents, NoDoc, DeltasTellAll
<1>2. Inv /\ [Next]_vars => Inv'
  <2> SUFFICES ASSUME Inv, [Next]_vars, LibInv' PROVE doc' \in Documents /\ DeltasTellAll'
    BY LibNext
  <2>1. CASE UNCHANGED <<doc, replay, chunked>>
    BY <2>1 DEF DeltasTellAll
  <2>2. ASSUME NEW r \in Resolutions, Commit(r) PROVE doc' \in Documents /\ DeltasTellAll'
    BY <2>2, CommitTells DEF LibInv, Typed, DeltaInv
  <2> QED BY <2>1, <2>2 DEF Next, vars, storeVars, Edit, Delete, SyncStarts, RebuildStarts, SyncSteps,
        ListCollections, ListSearches, ListItems, FetchCollections, FetchItems, FetchDeleted, SyncFails
<1> QED BY <1>1, <1>2, PTL DEF Spec
=============================================================================
