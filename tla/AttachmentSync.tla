---------------------------- MODULE AttachmentSync ----------------------------
(***************************************************************************)
(* How a Zotero sync turns mirrored archives into PDF files (sync.py       *)
(* _resolve_attachments with attachments.py), while a refresh may replace  *)
(* the archives under it: the two hold different locks.  The records of a  *)
(* sync, its staged PDF files and the metadata become visible together,    *)
(* when the sync commits (the module ZoteroPublication has the files).     *)
(*                                                                         *)
(* A PDF is the pair of the archive version it was extracted from and the  *)
(* name of its member, and stands for its hash as well.  Every attachment  *)
(* is a PDF with a supported link mode, in the flat layout of the mirror.  *)
(***************************************************************************)
EXTENDS Mirror, FiniteSets, FiniteSetsExt

CONSTANTS
    Names,    \* file names, of the metadata and of archive members
    Members,  \* PDF members of each archive version
    Broken,   \* archive versions that are not readable ZIP files
    MaxMeta,  \* bound on the versions of the metadata of an attachment
    MaxSyncs, \* bound on the number of syncs
    MaxWrites \* bound on the number of changes of mirrored files

ASSUME AttachmentAssumption ==
    /\ Members \in [1..MaxVersion -> SUBSET Names]
    /\ Broken \subseteq 1..MaxVersion
    /\ MaxMeta \in Nat
    /\ MaxSyncs \in Nat
    /\ MaxWrites \in Nat

VARIABLES
    meta,      \* items table: file name and version of each attachment
    rows,      \* attachments table
    extracted, \* extracted/<key>/
    mapping,   \* mapping_validation table
    dir,       \* the configured WebDAV directory
    spc,       \* where the sync is
    job,       \* what it was asked to do
    look,      \* location and first signature of each archive it looks at
    cur, arch, pdf, \* the attachment being resolved, the hash of its archive, its PDF
    found,     \* resolutions so far
    staged,    \* PDF files staged so far
    syncs,     \* syncs started
    lost,      \* history: extracted files removed since their last scan
    calm       \* history: no archive changed since the last complete scan began

tables == <<meta, rows, extracted, mapping>>
work == <<spc, job, look, cur, arch, pdf, found, staged>>
syncVars == <<tables, dir, work, syncs, lost, calm>>
allVars == <<mirrorVars, syncVars>>

Keys == 1..NKeys
NoPdf == <<0, "none">>
NoMeta == [name |-> "none", ver |-> 0, live |-> FALSE]
NoRow == [status |-> "none", dir |-> 0, arch |-> 0, stamp |-> 0, pdf |-> NoPdf,
          prop |-> FALSE, name |-> "none", ver |-> 0]
NoLook == [problem |-> "none", sig |-> <<0, 0>>]
NoJob == [meta |-> <<>>, policy |-> "none", chosen |-> {}, asked |-> {}, mapping |-> <<>>]

AttachmentInit ==
    /\ MirrorInit
    /\ meta = [k \in Keys |-> NoMeta]
    /\ rows = [k \in Keys |-> NoRow]
    /\ extracted = [k \in Keys |-> NoPdf]
    /\ mapping = [status |-> "none", dir |-> 0]
    /\ dir = 0
    /\ spc = "idle"
    /\ job = NoJob
    /\ look = [k \in Keys |-> NoLook]
    /\ cur = 0
    /\ arch = 0
    /\ pdf = NoPdf
    /\ found = [k \in Keys |-> NoRow]
    /\ staged = [k \in Keys |-> NoPdf]
    /\ syncs = 0
    /\ lost = {}
    /\ calm = FALSE

--------------------------------------------------------------------------------
(***************************************************************************)
(* Archives.                                                               *)
(***************************************************************************)
\* _inspect_open: the one member with the requested name, else the only one
Selected(v, name) ==
    IF v \in Broken THEN [status |-> "invalid_archive", member |-> "none"]
    ELSE IF Members[v] = {} THEN [status |-> "missing_pdf", member |-> "none"]
    ELSE IF name \in Members[v] THEN [status |-> "ready", member |-> name]
    ELSE IF Cardinality(Members[v]) = 1
         THEN [status |-> "ready", member |-> CHOOSE m \in Members[v] : TRUE]
    ELSE [status |-> "ambiguous_attachment", member |-> "none"]

LocationWithProp(k) == IF file[Prop(k)] = 0 THEN "unstable_archive" ELSE "none"

\* locate_archive: the problem with the archive of k, or none
Located(k) == IF file[Zip(k)] = 0 THEN "missing_archive" ELSE LocationWithProp(k)

Signature(k) == <<stamp[Zip(k)], stamp[Prop(k)]>>
SignatureUnchanged(k) == Located(k) = "none" /\ Signature(k) = look[k].sig

\* mutant: only the size is compared
NeedsScanBySize(k) ==
    \/ rows[k].status # "ready"
    \/ Located(k) # "none"
    \/ rows[k].dir # dir
    \/ Size[file[Zip(k)]] # Size[rows[k].arch]

\* _attachment_needs_scan: path, size and mtime of the archive against the row
NeedsScan(k) ==
    \/ rows[k].status # "ready"
    \/ Located(k) # "none"
    \/ rows[k].dir # dir
    \/ stamp[Zip(k)] # rows[k].stamp
    \/ ~rows[k].prop

--------------------------------------------------------------------------------
(***************************************************************************)
(* The sync.                                                               *)
(***************************************************************************)
Eligible(m) == {k \in Keys : m[k].live}

\* Which attachments to scan.  A mapping bound to another directory forces a scan.
Asked(m, policy, chosen) ==
    LET scanned == {k \in chosen : policy = "all" \/ (policy = "changed" /\ NeedsScan(k))}
    IN  IF mapping.dir # dir /\ scanned = {} THEN chosen ELSE scanned

Begin(m, policy, chosen) ==
    /\ spc = "idle"
    /\ syncs < MaxSyncs
    /\ syncs' = syncs + 1
    /\ job' = [meta |-> m, policy |-> policy, chosen |-> chosen,
               asked |-> Asked(m, policy, chosen), mapping |-> mapping]
    /\ spc' = "map"
    /\ calm' = (policy # "none" /\ chosen = Eligible(m))
    /\ UNCHANGED <<tables, dir, look, cur, arch, pdf, found, staged, lost>>

\* The library changed: an attachment is new, has another file name, or is gone.
SyncChanged(k) ==
    /\ meta[k].ver < MaxMeta
    /\ \E n \in Names, live \in BOOLEAN :
           LET m == [meta EXCEPT ![k] = [name |-> n, ver |-> @.ver + 1, live |-> live]]
           IN  Begin(m, "all", Eligible(m))

\* The library answered 304.
SyncUnmodified(policy) == Begin(meta, policy, Eligible(meta))

\* The attachments command, for all of them or for chosen ones.
SyncAttachments(chosen) ==
    /\ chosen # {}
    /\ chosen \subseteq Eligible(meta)
    /\ Begin(meta, "all", chosen)

\* validate_attachment_mapping: every archive at hand lets a PDF be selected
MappingHolds(m) ==
    LET sample == {k \in Eligible(m) : Located(k) = "none"}
    IN  /\ sample # {}
        /\ \A k \in sample : Selected(file[Zip(k)], m[k].name).status = "ready"

MappingValid == mapping.status = "verified" /\ mapping.dir = dir

ValidateMapping ==
    /\ spc = "map"
    /\ LET valid == MappingValid \/ MappingHolds(job.meta)
       IN  /\ job' = IF job.asked = {} \/ MappingValid THEN job
                     ELSE [job EXCEPT !.mapping =
                              [status |-> IF valid THEN "verified" ELSE "unverified",
                               dir |-> dir]]
           /\ spc' = IF job.asked = {} \/ ~valid THEN "commit" ELSE "observe"
    /\ UNCHANGED <<tables, dir, look, cur, arch, pdf, found, staged, syncs, lost, calm>>

\* The archives are located and their first signatures taken.
Observe ==
    /\ spc = "observe"
    /\ look' = [k \in Keys |->
                  IF k \in job.asked THEN [problem |-> Located(k), sig |-> Signature(k)]
                                     ELSE NoLook]
    /\ spc' = "confirm"
    /\ UNCHANGED <<tables, dir, job, cur, arch, pdf, found, staged, syncs, lost, calm>>

Following(k) == {j \in job.asked : j > k}
NextKey(k) == CHOOSE j \in Following(k) : \A i \in Following(k) : j <= i

\* After the interval, once more.
Confirm ==
    /\ spc = "confirm"
    /\ look' = [k \in Keys |->
                  IF k \in job.asked /\ look[k].problem = "none" /\ ~SignatureUnchanged(k)
                  THEN [look[k] EXCEPT !.problem = "unstable_archive"]
                  ELSE look[k]]
    /\ cur' = NextKey(0)
    /\ spc' = "hash"
    /\ UNCHANGED <<tables, dir, job, arch, pdf, found, staged, syncs, lost, calm>>

\* The resolution of cur: its row but for the fields of the projection.  The stamp (size and
\* mtime) is the one of the first observation.
Resolution(status, a, p) ==
    [status |-> status, dir |-> dir, arch |-> a, stamp |-> look[cur].sig[1], pdf |-> p,
     prop |-> FALSE, name |-> job.meta[cur].name, ver |-> job.meta[cur].ver]

Resolved(row) ==
    /\ found' = [found EXCEPT ![cur] = row]
    /\ arch' = 0
    /\ pdf' = NoPdf
    /\ IF Following(cur) = {} THEN spc' = "commit" /\ cur' = 0
                              ELSE spc' = "hash" /\ cur' = NextKey(cur)
    /\ UNCHANGED <<tables, dir, job, look, syncs, lost, calm>>

HashArchive ==
    /\ spc = "hash"
    /\ IF look[cur].problem # "none"
       THEN /\ Resolved([Resolution(look[cur].problem, 0, NoPdf) EXCEPT !.stamp = 0])
            /\ UNCHANGED staged
       ELSE IF file[Zip(cur)] = 0
       THEN Resolved(Resolution("invalid_archive", 0, NoPdf)) /\ UNCHANGED staged
       ELSE /\ arch' = file[Zip(cur)]
            /\ spc' = "reuse"
            /\ UNCHANGED <<tables, dir, job, look, cur, pdf, found, staged, syncs, lost, calm>>

\* mutant: the extracted file is not hashed again
CanReuseUnhashed(k) ==
    /\ rows[k].name = job.meta[k].name
    /\ rows[k].ver = job.meta[k].ver
    /\ rows[k].arch = arch
    /\ rows[k].pdf # NoPdf

\* selector_unchanged of _resolve_attachments and _reuse_cache
CanReuse(k) ==
    /\ rows[k].name = job.meta[k].name
    /\ rows[k].ver = job.meta[k].ver
    /\ rows[k].arch = arch
    /\ rows[k].pdf # NoPdf
    /\ extracted[k] = rows[k].pdf

ReuseExtracted ==
    /\ spc = "reuse"
    /\ IF ~SignatureUnchanged(cur)
       THEN Resolved(Resolution("unstable_archive", 0, NoPdf)) /\ UNCHANGED staged
       ELSE IF CanReuse(cur)
       THEN Resolved(Resolution("ready", arch, rows[cur].pdf)) /\ UNCHANGED staged
       ELSE /\ spc' = "extract"
            /\ UNCHANGED <<tables, dir, job, look, cur, arch, pdf, found, staged, syncs, lost, calm>>

\* The archive is opened again; selection and extraction read that one open file.
Extract ==
    /\ spc = "extract"
    /\ LET v == file[Zip(cur)]
           s == Selected(v, job.meta[cur].name)
       IN  IF v = 0 THEN Resolved(Resolution("error", arch, NoPdf))
           ELSE IF s.status # "ready" THEN Resolved(Resolution(s.status, arch, NoPdf))
           ELSE /\ pdf' = <<v, s.member>>
                /\ spc' = "stage"
                /\ UNCHANGED <<tables, dir, job, look, cur, arch, found, syncs, lost, calm>>
    /\ UNCHANGED staged

\* mutant: no second look at the signature
StageUnchecked ==
    /\ spc = "stage"
    /\ staged' = [staged EXCEPT ![cur] = pdf]
    /\ Resolved(Resolution("ready", arch, pdf))

Stage ==
    /\ spc = "stage"
    /\ IF SignatureUnchanged(cur)
       THEN /\ staged' = [staged EXCEPT ![cur] = pdf]
            /\ Resolved(Resolution("ready", arch, pdf))
       ELSE Resolved(Resolution("unstable_archive", arch, NoPdf)) /\ UNCHANGED staged

\* The row of k that the sync writes.
NewRow(k) ==
    LET projected(r) == [r EXCEPT !.name = job.meta[k].name, !.ver = job.meta[k].ver]
        kept == IF k \notin job.asked /\ rows[k].status # "none" THEN rows[k] ELSE NoRow
        prop == file[Zip(k)] # 0 /\ file[Prop(k)] # 0
    IN  IF job.asked # {} /\ job.mapping.status # "verified"
        THEN [projected(kept) EXCEPT !.status = "mapping_unverified", !.prop = prop]
        ELSE IF k \in job.asked THEN [found[k] EXCEPT !.prop = prop]
        ELSE IF rows[k].status # "none" THEN projected(rows[k])
        ELSE [projected(NoRow) EXCEPT !.status = "unsupported_attachment"]

SyncEnds ==
    /\ spc' = "idle"
    /\ job' = NoJob
    /\ look' = [k \in Keys |-> NoLook]
    /\ cur' = 0
    /\ arch' = 0
    /\ pdf' = NoPdf
    /\ found' = [k \in Keys |-> NoRow]
    /\ staged' = [k \in Keys |-> NoPdf]

Commit ==
    /\ spc = "commit"
    /\ meta' = job.meta
    /\ mapping' = job.mapping
    /\ rows' = [k \in Keys |-> IF job.meta[k].live THEN NewRow(k) ELSE NoRow]
    /\ extracted' = [k \in Keys |-> IF staged[k] # NoPdf THEN staged[k] ELSE extracted[k]]
    /\ lost' = lost \ {k \in job.asked : found[k].status = "ready"}
    /\ SyncEnds
    /\ UNCHANGED <<dir, syncs, calm>>

\* The library moved on, an error, or a crash: the transaction and the staging are dropped.
SyncFails ==
    /\ spc # "idle"
    /\ calm' = FALSE
    /\ SyncEnds
    /\ UNCHANGED <<tables, dir, syncs, lost>>

--------------------------------------------------------------------------------
(***************************************************************************)
(* The operator, between two syncs.                                        *)
(***************************************************************************)
LoseExtracted(k) ==
    /\ spc = "idle"
    /\ extracted[k] # NoPdf
    /\ extracted' = [extracted EXCEPT ![k] = NoPdf]
    /\ lost' = lost \union {k}
    /\ UNCHANGED <<meta, rows, mapping, dir, work, syncs, calm>>

\* The mirror is moved.
ChangeDirectory ==
    /\ dir = 0
    /\ spc = "idle"
    /\ dir' = 1
    /\ calm' = FALSE
    /\ UNCHANGED <<tables, work, syncs, lost>>

SyncStep ==
    \/ \E k \in Keys : SyncChanged(k) \/ LoseExtracted(k)
    \/ \E policy \in {"changed", "none"} : SyncUnmodified(policy)
    \/ \E chosen \in SUBSET Keys : SyncAttachments(chosen)
    \/ ValidateMapping
    \/ Observe
    \/ Confirm
    \/ HashArchive
    \/ ReuseExtracted
    \/ Extract
    \/ Stage
    \/ Commit
    \/ SyncFails
    \/ ChangeDirectory

\* A refresh of the mirror goes on meanwhile (the module WebDavCache).
MirrorStep ==
    /\ MapThenSumSet(LAMBDA o : stamp[o], Objects) < MaxWrites
    /\ MirrorNext
    /\ calm' = FALSE
    /\ UNCHANGED <<tables, dir, work, syncs, lost>>

AttachmentNext ==
    \/ MirrorStep
    \/ SyncStep /\ UNCHANGED mirrorVars

AttachmentSpec == AttachmentInit /\ [][AttachmentNext]_allVars

--------------------------------------------------------------------------------
\* The PDF of a ready row was extracted from the very archive whose hash the row records,
\* and is the member the selection rule picks for the row's file name, however refreshes
\* replaced the archive while _resolve_stable hashed, reused, opened and extracted it.
ReadyIsFromArchive ==
    \A k \in Keys : rows[k].status = "ready" =>
        /\ rows[k].arch # 0
        /\ rows[k].pdf[1] = rows[k].arch
        /\ Selected(rows[k].arch, rows[k].name) = [status |-> "ready", member |-> rows[k].pdf[2]]

\* The file of a ready row is there with the recorded hash until someone removes it, and
\* again after the next scan that finds the row ready (_reuse_cache hashes it anew).
ReadyHasFile ==
    \A k \in Keys \ lost : rows[k].status = "ready" => extracted[k] = rows[k].pdf

\* After a sync that had to look at every attachment, with archives that did not change
\* since it began, a row is ready exactly if its archive lets a PDF be selected, and has
\* that archive: neither the skipping of unchanged ones nor the reuse of PDFs hides one.
ScanIsComplete ==
    spc = "idle" /\ calm /\ mapping.status = "verified" =>
        \A k \in Eligible(meta) :
            IF Located(k) = "none" /\ Selected(file[Zip(k)], meta[k].name).status = "ready"
            THEN rows[k].status = "ready" /\ rows[k].arch = file[Zip(k)]
            ELSE rows[k].status # "ready"
================================================================================
