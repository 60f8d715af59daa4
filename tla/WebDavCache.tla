------------------------------ MODULE WebDavCache ------------------------------
(***************************************************************************)
(* The local mirror of the WebDAV collection (sources/zotero/              *)
(* webdav_cache.py).  refresh_webdav_cache holds the lock of the cache,    *)
(* lists the collection page by page, downloads what changed, prunes what  *)
(* is gone and writes the index.  A progress index lets an interrupted     *)
(* refresh resume.  The collection changes at any time; the files are read *)
(* by attachment syncs, which hold another lock.                           *)
(* The objects and their versions are those of the module Mirror.          *)
(***************************************************************************)
EXTENDS Mirror

CONSTANTS
    MaxRefresh, \* bound on the number of refreshes
    MaxFaults,  \* bound on the number of failures and crashes
    Options,    \* options of a refresh: subsets of {"adopt", "prune"}
    Servers     \* what the server tells: subsets of {"listTags", "getTags", "sizes"}

ASSUME WebDavAssumption ==
    /\ MaxRefresh \in Nat
    /\ MaxFaults \in Nat
    /\ Options \subseteq SUBSET {"adopt", "prune"}
    /\ Servers \subseteq SUBSET {"listTags", "getTags", "sizes"}

VARIABLES
    server,   \* what this server tells
    remote,   \* the collection
    clock,    \* the last version uploaded
    index,    \* .knowledgehub-webdav-index.json
    progress, \* .knowledgehub-webdav-progress.json
    rpc, at,  \* where the refresh is, and at which object
    listed,   \* the listing it works on
    opts,     \* adopt_existing and prune
    runs,     \* refreshes started
    faults,   \* failures and crashes so far
    trusted,  \* history: objects whose file was adopted unseen
    quiet     \* history: no upload since the refresh began

refreshVars == <<rpc, at, listed, opts, runs>>
cacheVars == <<server, remote, clock, file, stamp, index, progress,
               rpc, at, listed, opts, runs, faults, trusted, quiet>>

CacheInit ==
    /\ MirrorInit
    /\ server \in Servers
    /\ remote = NoEntries
    /\ clock = 0
    /\ index = NoEntries
    /\ progress = NoEntries
    /\ rpc = "idle"
    /\ at = 1
    /\ listed = NoEntries
    /\ opts = {}
    /\ runs = 0
    /\ faults = 0
    /\ trusted = {}
    /\ quiet = FALSE

--------------------------------------------------------------------------------
(***************************************************************************)
(* The collection, changed by the Zotero clients.                          *)
(***************************************************************************)
Upload(o) ==
    /\ clock < MaxVersion
    /\ clock' = clock + 1
    /\ remote' = [remote EXCEPT ![o] = clock + 1]
    /\ quiet' = FALSE
    /\ UNCHANGED <<server, faults, mirrorVars, index, progress, refreshVars, trusted>>

RemoveRemote(o) ==
    /\ remote[o] # 0
    /\ remote' = [remote EXCEPT ![o] = 0]
    /\ quiet' = FALSE
    /\ UNCHANGED <<server, faults, clock, mirrorVars, index, progress, refreshVars, trusted>>

--------------------------------------------------------------------------------
(***************************************************************************)
(* The refresh.                                                            *)
(***************************************************************************)
RefreshBegins ==
    /\ rpc = "idle"
    /\ runs < MaxRefresh
    /\ runs' = runs + 1
    /\ opts' \in Options
    /\ rpc' = "list"
    /\ at' = 1
    /\ listed' = NoEntries
    /\ quiet' = TRUE
    /\ UNCHANGED <<server, faults, remote, clock, mirrorVars, index, progress, trusted>>

\* The lock is free again.
RefreshStops ==
    /\ rpc' = "idle"
    /\ at' = 1
    /\ listed' = NoEntries
    /\ opts' = {}

\* A request fails after the retries of the client, or the process ends.
RefreshFails ==
    /\ rpc # "idle"
    /\ faults < MaxFaults
    /\ faults' = faults + 1
    /\ RefreshStops
    /\ UNCHANGED <<server, remote, clock, mirrorVars, index, progress, runs, trusted, quiet>>

\* A page that is not a listing of this collection, or links to another place.
BadPage ==
    /\ rpc = "list"
    /\ RefreshFails

\* A page with one more object.  A page may repeat the object before it: two different
\* values of one object are an error.
ListPage(repeats) ==
    /\ rpc = "list"
    /\ repeats => at > 1 /\ listed[at - 1] # 0 /\ remote[at - 1] # 0
    /\ IF repeats /\ remote[at - 1] # listed[at - 1]
       THEN RefreshStops
       ELSE /\ listed' = [listed EXCEPT ![at] = remote[at]]
            /\ at' = IF at = 2 * NKeys THEN 1 ELSE at + 1
            /\ rpc' = IF at = 2 * NKeys THEN "walk" ELSE "list"
            /\ UNCHANGED opts
    /\ UNCHANGED <<server, faults, remote, clock, mirrorVars, index, progress, runs, trusted, quiet>>

SameSize(o) == "sizes" \in server => file[o] # 0 /\ Size[file[o]] = Size[listed[o]]

\* mutant: the size alone tells
IsUnchangedBySize(o, entry) == listed[o] # 0 /\ entry # 0 /\ file[o] # 0 /\ SameSize(o)

IsUnchanged(o, entry) ==
    /\ listed[o] # 0
    /\ entry = listed[o]
    /\ "listTags" \in server
    /\ file[o] # 0
    /\ SameSize(o)

CanAdopt(o) ==
    /\ "adopt" \in opts
    /\ index[o] = 0
    /\ progress[o] = 0
    /\ "sizes" \in server
    /\ listed[o] # 0
    /\ file[o] # 0
    /\ SameSize(o)

\* The object after o, or the end of the walk.
Advance(o) ==
    /\ at' = IF o = 2 * NKeys THEN 1 ELSE o + 1
    /\ rpc' = IF o = 2 * NKeys THEN "prune" ELSE "walk"
    /\ UNCHANGED <<listed, opts, runs>>

SkipObject ==
    /\ rpc = "walk"
    /\ \/ listed[at] = 0
       \/ IsUnchanged(at, index[at])
       \/ IsUnchanged(at, progress[at])
    /\ Advance(at)
    /\ UNCHANGED <<server, faults, remote, clock, mirrorVars, index, progress, trusted, quiet>>

AdoptObject ==
    /\ rpc = "walk"
    /\ listed[at] # 0
    /\ CanAdopt(at)
    /\ trusted' = trusted \union {at}
    /\ Advance(at)
    /\ UNCHANGED <<server, faults, remote, clock, mirrorVars, index, progress, quiet>>

\* _validate_download_headers and the length of what was received
Acceptable(o) ==
    /\ remote[o] # 0
    /\ {"listTags", "getTags"} \subseteq server => remote[o] = listed[o]
    /\ "sizes" \in server => Size[remote[o]] = Size[listed[o]]

MustDownload(o) ==
    /\ listed[o] # 0
    /\ ~IsUnchanged(o, index[o])
    /\ ~IsUnchanged(o, progress[o])
    /\ ~CanAdopt(o)

\* mutant: the object is written in place
DownloadInPlace ==
    /\ rpc = "walk"
    /\ MustDownload(at)
    /\ Acceptable(at)
    /\ file' = [file EXCEPT ![at] = remote[at]]
    /\ trusted' = trusted \ {at}
    /\ rpc' = "checkpoint"
    /\ UNCHANGED <<server, faults, stamp, remote, clock, index, progress, at, listed, opts, runs, quiet>>

\* A complete temporary file replaces the old one.
Download ==
    /\ rpc = "walk"
    /\ MustDownload(at)
    /\ IF Acceptable(at)
       THEN /\ Put(at, remote[at])
            /\ trusted' = trusted \ {at}
            /\ rpc' = "checkpoint"
            /\ UNCHANGED <<at, listed, opts>>
       ELSE RefreshStops /\ UNCHANGED <<mirrorVars, trusted>>
    /\ UNCHANGED <<server, faults, remote, clock, index, progress, runs, quiet>>

Checkpoint ==
    /\ rpc = "checkpoint"
    /\ progress' = [progress EXCEPT ![at] = listed[at]]
    /\ Advance(at)
    /\ UNCHANGED <<server, faults, remote, clock, mirrorVars, index, trusted, quiet>>

\* mutant: only what the index knew is pruned
GoneByIndex == {o \in Objects : file[o] # 0 /\ listed[o] = 0 /\ index[o] # 0}

Gone == {o \in Objects : file[o] # 0 /\ listed[o] = 0}

PruneObject(o) ==
    /\ rpc = "prune"
    /\ "prune" \in opts
    /\ o \in Gone
    /\ Put(o, 0)
    /\ trusted' = trusted \ {o}
    /\ UNCHANGED <<server, faults, remote, clock, index, progress, refreshVars, quiet>>

WriteIndex ==
    /\ rpc = "prune"
    /\ "prune" \in opts => Gone = {}
    /\ index' = listed
    /\ rpc' = "clean"
    /\ UNCHANGED <<server, faults, remote, clock, mirrorVars, progress, at, listed, opts, runs,
                   trusted, quiet>>

RemoveProgress ==
    /\ rpc = "clean"
    /\ progress' = NoEntries
    /\ RefreshStops
    /\ UNCHANGED <<server, faults, remote, clock, mirrorVars, index, runs, trusted, quiet>>

CacheNext ==
    \/ \E o \in Objects : Upload(o) \/ RemoveRemote(o) \/ PruneObject(o)
    \/ RefreshBegins
    \/ RefreshFails
    \/ BadPage
    \/ \E repeats \in BOOLEAN : ListPage(repeats)
    \/ SkipObject
    \/ AdoptObject
    \/ Download
    \/ Checkpoint
    \/ WriteIndex
    \/ RemoveProgress

CacheSpec == CacheInit /\ [][CacheNext]_cacheVars

--------------------------------------------------------------------------------
\* What attachment syncs rely on while a refresh runs: it implements the abstract mirror.
RefreshIsMirror == MirrorSpec

\* What an index says of a mirrored file, whatever interrupted the refreshes before: the
\* content is that version or a newer one, unless the operator asked to adopt the file.  A
\* refresh that skips an object because of its entry (_is_unchanged) therefore loses nothing.
IndexNeverAhead ==
    \A o \in Objects \ trusted : file[o] # 0 => file[o] >= index[o] /\ file[o] >= progress[o]

\* A refresh that gets to write its index while nobody uploaded leaves a mirror equal to
\* the collection (refresh_webdav_cache), without the removed objects if it prunes.
RefreshMirrors ==
    rpc = "clean" /\ quiet =>
        \A o \in Objects \ trusted :
            /\ remote[o] # 0 => file[o] = remote[o]
            /\ "prune" \in opts /\ remote[o] = 0 => file[o] = 0
================================================================================
