------------------------------ MODULE LibrarySync ------------------------------
(***************************************************************************)
(* A Zotero sync as a reader of a library that others keep editing         *)
(* (sources/zotero/client.py, sync.py, manifest.py, rebuild.py): version   *)
(* listings, object batches and the deletion log are separate requests,    *)
(* and the sync must commit one version of the library, not a mixture.     *)
(* It then publishes the documents and the delta that leads to them.       *)
(*                                                                         *)
(* The library has a collection C and an item P in it with a PDF           *)
(* attachment A.  The content of an object is the version of its last      *)
(* edit, 0 for no object.  What the attachment resolves to (the module     *)
(* AttachmentSync) is an input of each sync.  Publication and commit are   *)
(* one step here (the module ZoteroPublication has their parts).           *)
(***************************************************************************)
EXTENDS Integers, Sequences

CONSTANTS
    MaxVersion,   \* bound on the number of edits of the library
    Attempts,     \* sync_max_retries + 1
    MaxFaults,    \* bound on the number of failed requests and crashes
    Modes,        \* incremental, full, rebuild
    Resolutions   \* what an attachment may resolve to: records of status, pdf and arch

ASSUME LibraryAssumption ==
    /\ MaxVersion \in Nat
    /\ Attempts \in Nat \ {0}
    /\ MaxFaults \in Nat
    /\ Modes \subseteq {"incremental", "full", "rebuild"}

VARIABLES
    lib,       \* the remote library
    gone,      \* its deletion log: the version that deleted an object, or 0
    past,      \* history: the library at each version
    local,     \* objects and collections tables: version of the live objects
    version,   \* library_version of the last successful sync
    doc,       \* documents table: the record of P and A, or none
    pc, mode, attempt, \* the running sync
    target,    \* the version it reads, 0 before the first answer
    seen,      \* library versions of its answers
    listing, fetched, dels, \* the answers
    faults,    \* failed requests and crashes so far
    replay,    \* history: what the published deltas add up to
    chunked    \* history: the PDF of the last delta that asked for chunking

remoteVars == <<lib, gone, past>>
storeVars == <<local, version, doc, replay, chunked>>
answers == <<target, seen, listing, fetched, dels>>
vars == <<remoteVars, storeVars, pc, mode, attempt, answers, faults>>

Objects == {"C", "P", "A"}
CollectionKeys == {"C"}
ItemKeys == {"P", "A"}
NoObjects == [k \in Objects |-> 0]
NoDoc == [meta |-> <<0, 0>>, status |-> "none", pdf |-> "none", arch |-> "none"]

LibraryVersion == Len(past)

Init ==
    /\ lib = NoObjects
    /\ gone = NoObjects
    /\ past = <<>>
    /\ local = NoObjects
    /\ version = 0
    /\ doc = NoDoc
    /\ pc = "idle"
    /\ mode = "incremental"
    /\ attempt = 1
    /\ target = 0
    /\ seen = {}
    /\ listing = NoObjects
    /\ fetched = NoObjects
    /\ dels = {}
    /\ faults = 0
    /\ replay = NoDoc
    /\ chunked = "none"

--------------------------------------------------------------------------------
(***************************************************************************)
(* Others edit the library.                                                *)
(***************************************************************************)
Edit(k) ==
    /\ LibraryVersion < MaxVersion
    /\ gone[k] = 0
    /\ k = "A" => lib["P"] # 0
    /\ lib' = [lib EXCEPT ![k] = LibraryVersion + 1]
    /\ past' = Append(past, lib')
    /\ UNCHANGED <<gone, storeVars, pc, mode, attempt, answers, faults>>

Delete(k) ==
    /\ LibraryVersion < MaxVersion
    /\ lib[k] # 0
    /\ LET with == IF k = "P" /\ lib["A"] # 0 THEN {"P", "A"} ELSE {k}
       IN  /\ lib' = [o \in Objects |-> IF o \in with THEN 0 ELSE lib[o]]
           /\ gone' = [o \in Objects |-> IF o \in with THEN LibraryVersion + 1 ELSE gone[o]]
    /\ past' = Append(past, lib')
    /\ UNCHANGED <<storeVars, pc, mode, attempt, answers, faults>>

--------------------------------------------------------------------------------
(***************************************************************************)
(* The requests of a sync.                                                 *)
(***************************************************************************)
Since == IF mode = "incremental" THEN version ELSE 0
Base == IF mode = "rebuild" THEN NoObjects ELSE local
Listed(keys) == [k \in Objects |-> IF k \in keys /\ lib[k] > Since THEN lib[k] ELSE listing[k]]

ForgetAnswers ==
    /\ target' = 0
    /\ seen' = {}
    /\ listing' = NoObjects
    /\ fetched' = NoObjects
    /\ dels' = {}

SyncStops ==
    /\ pc' = "idle"
    /\ attempt' = 1
    /\ mode' = "incremental"
    /\ ForgetAnswers

\* RemoteVersionChanged: the whole library is read again, or the sync fails.
Drifted ==
    IF attempt < Attempts
    THEN /\ pc' = "collections"
         /\ attempt' = attempt + 1
         /\ ForgetAnswers
         /\ UNCHANGED mode
    ELSE SyncStops

SyncStarts(m) ==
    /\ pc = "idle"
    /\ mode' = m
    /\ pc' = "collections"
    /\ UNCHANGED <<remoteVars, storeVars, attempt, answers, faults>>

\* rebuild_source: a full sync into an empty candidate that replaces everything if it succeeds
RebuildStarts ==
    /\ "rebuild" \in Modes
    /\ SyncStarts("rebuild")

\* mutant: no changed collection is taken for no change
NotModifiedCollections ==
    mode = "incremental" /\ version > 0 /\ \A k \in CollectionKeys : lib[k] <= version

\* If-Modified-Since-Version: 304
NotModified == mode = "incremental" /\ version > 0 /\ LibraryVersion = version

ListCollections ==
    /\ pc = "collections"
    /\ IF NotModified
       THEN /\ target' = version
            /\ pc' = "unmodified"
            /\ UNCHANGED <<seen, listing, fetched, dels>>
       ELSE /\ target' = LibraryVersion
            /\ listing' = Listed(CollectionKeys)
            /\ pc' = "searches"
            /\ UNCHANGED <<seen, fetched, dels>>
    /\ UNCHANGED <<remoteVars, storeVars, mode, attempt, faults>>

ListSearches ==
    /\ pc = "searches"
    /\ seen' = seen \union {LibraryVersion}
    /\ pc' = "items"
    /\ UNCHANGED <<remoteVars, storeVars, mode, attempt, target, listing, fetched, dels, faults>>

ListItems ==
    /\ pc = "items"
    /\ IF seen \union {LibraryVersion} = {target}
       THEN /\ listing' = Listed(ItemKeys)
            /\ pc' = "fetchCollections"
            /\ UNCHANGED <<mode, attempt, target, seen, fetched, dels>>
       ELSE Drifted
    /\ UNCHANGED <<remoteVars, storeVars, faults>>

\* The listed objects that are not at hand in the listed version.
Outdated(keys) == {k \in keys : listing[k] # 0 /\ (mode = "full" \/ Base[k] # listing[k])}

\* A batch that lacks an object, or has another version of it than listed, is an error.
BatchMatches(keys) == \A k \in keys : lib[k] = listing[k]

FetchBatch(keys, last) ==
    /\ fetched' = [k \in Objects |-> IF k \in keys THEN lib[k] ELSE fetched[k]]
    /\ seen' = IF keys = {} THEN seen ELSE seen \union {LibraryVersion}
    /\ pc' = last
    /\ UNCHANGED <<mode, attempt, target, listing, dels>>

FetchCollections ==
    /\ pc = "fetchCollections"
    /\ IF BatchMatches(Outdated(CollectionKeys))
       THEN FetchBatch(Outdated(CollectionKeys), "fetchItems")
       ELSE SyncStops
    /\ UNCHANGED <<remoteVars, storeVars, faults>>

FetchItems ==
    /\ pc = "fetchItems"
    /\ LET keys == Outdated(ItemKeys)
       IN  IF ~BatchMatches(keys) THEN SyncStops
           ELSE IF seen # {target} \/ (keys # {} /\ LibraryVersion # target) THEN Drifted
           ELSE FetchBatch(keys, "deleted")
    /\ UNCHANGED <<remoteVars, storeVars, faults>>

FetchDeleted ==
    /\ pc = "deleted"
    /\ IF LibraryVersion = target
       THEN /\ dels' = {k \in Objects : gone[k] > Since}
            /\ pc' = "apply"
            /\ UNCHANGED <<mode, attempt, target, seen, listing, fetched>>
       ELSE Drifted
    /\ UNCHANGED <<remoteVars, storeVars, faults>>

--------------------------------------------------------------------------------
(***************************************************************************)
(* The documents and their delta.                                          *)
(***************************************************************************)
Upserted(k) == IF fetched[k] # 0 THEN fetched[k] ELSE Base[k]

\* mutant: the deletion log is not applied
AppliedWithoutDeletes == [k \in Objects |-> Upserted(k)]

\* _apply_remote_state
Applied == [k \in Objects |-> IF k \in dels THEN 0 ELSE Upserted(k)]

\* build_snapshot_records: the metadata fingerprint covers the item and its collection
Record(objects, r) ==
    IF objects["P"] # 0 /\ objects["A"] # 0
    THEN [meta |-> <<objects["P"], objects["C"]>>, status |-> r.status, pdf |-> r.pdf,
          arch |-> r.arch]
    ELSE NoDoc

\* mutant: metadata is looked at first
ReasonMetadataFirst(old, new) ==
    IF old.meta # new.meta THEN "metadata_changed"
    ELSE IF old.status # "ready" /\ new.status = "ready" THEN "attachment_became_available"
    ELSE IF old.pdf # new.pdf THEN "content_changed"
    ELSE IF old.arch # new.arch THEN "attachment_replaced"
    ELSE IF old.status # new.status THEN "attachment_became_invalid"
    ELSE "none"

\* _change_reason: the first that holds
Reason(old, new) ==
    IF old.status # "ready" /\ new.status = "ready" THEN "attachment_became_available"
    ELSE IF old.status = "ready" /\ new.status = "missing_archive" THEN "attachment_missing"
    ELSE IF old.status # new.status /\ new.status # "missing_archive"
         THEN "attachment_became_invalid"
    ELSE IF old.pdf # new.pdf THEN "content_changed"
    ELSE IF old.arch # new.arch THEN "attachment_replaced"
    ELSE IF old.meta[2] # new.meta[2] THEN "collection_changed"
    ELSE IF old.meta # new.meta THEN "metadata_changed"
    ELSE IF old.status # new.status THEN "attachment_became_invalid"
    ELSE "none"

\* build_delta_records
Delta(old, new) ==
    IF old = NoDoc /\ new = NoDoc THEN "none"
    ELSE IF new = NoDoc THEN "delete"
    ELSE IF old = NoDoc THEN "new_document"
    ELSE Reason(old, new)

\* chunk_required
ChunkRequired(reason, new) ==
    /\ new.status = "ready"
    /\ reason \in {"new_document", "attachment_became_available", "content_changed",
                   "attachment_replaced"}

\* One transaction: remote state, attachments, documents, files, and last the version.
\* The library is asked once more before the files are written (ensure_target_unchanged).
Commit(r) ==
    /\ pc \in {"apply", "unmodified"}
    /\ IF LibraryVersion # target
       THEN Drifted /\ UNCHANGED storeVars
       ELSE LET objects == IF pc = "unmodified" THEN local ELSE Applied
                old == IF mode = "rebuild" THEN NoDoc ELSE doc
                new == Record(objects, r)
                reason == Delta(old, new)
            IN  /\ local' = objects
                /\ version' = target
                /\ doc' = new
                /\ replay' = IF reason = "none" /\ mode # "rebuild" THEN replay ELSE new
                /\ chunked' = IF ChunkRequired(reason, new) THEN new.pdf
                              ELSE IF new = NoDoc THEN "none" ELSE chunked
                /\ SyncStops
    /\ UNCHANGED <<remoteVars, faults>>

SyncFails ==
    /\ pc # "idle"
    /\ faults < MaxFaults
    /\ faults' = faults + 1
    /\ SyncStops
    /\ UNCHANGED <<remoteVars, storeVars>>

SyncSteps ==
    \/ ListCollections
    \/ ListSearches
    \/ ListItems
    \/ FetchCollections
    \/ FetchItems
    \/ FetchDeleted
    \/ \E r \in Resolutions : Commit(r)

Next ==
    \/ \E k \in Objects : Edit(k) \/ Delete(k)
    \/ \E m \in Modes \ {"rebuild"} : SyncStarts(m)
    \/ RebuildStarts
    \/ SyncSteps
    \/ SyncFails

\* A timer starts incremental syncs (deploy/systemd/knowledgehub-zotero-sync.timer), and a
\* running sync gets on: the requests have timeouts and bounded retries.
Spec ==
    /\ Init
    /\ [][Next]_vars
    /\ WF_vars(SyncStarts("incremental"))
    /\ WF_vars(SyncSteps)

--------------------------------------------------------------------------------
\* The objects a sync committed are the library at the version it recorded: whatever was
\* edited between its requests, it never commits a mixture of versions or misses an edit
\* or a deletion (_fetch_remote_changes, assert_target_versions, _apply_remote_state).
CommittedIsLibrary == version # 0 => local = past[version]

\* The published deltas, applied in order, give the published document, and a ready
\* document's PDF was announced for chunking: no combination of changes of metadata,
\* collection, status, archive and content slips through _change_reason.
DeltasTellAll ==
    /\ replay = doc
    /\ doc.status = "ready" => chunked = doc.pdf

\* When the library rests, what was synced becomes and stays its last version, although
\* syncs read it request by request and give up after so many drifts.
CatchesUp == <>[](version = LibraryVersion /\ local = lib)
================================================================================
