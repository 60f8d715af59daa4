--------------------------- MODULE WritingExtraction ---------------------------
(***************************************************************************)
(* Writing-material extraction (writing_rag/extract.py): one command at a  *)
(* time (lock derive:writing-materials) selects Literature documents,      *)
(* plans which need work, sends them to a language model and checkpoints   *)
(* what was accepted in runs/<run_id>/.  A checkpoint is several asset     *)
(* files and then manifest.json, the commit marker; after the checkpoint   *)
(* the row of the document in extraction.sqlite3 is written.  A command    *)
(* that died is continued with --resume-run-id.  Meanwhile the ingestion   *)
(* pipeline changes the documents, without a common lock.                  *)
(*                                                                         *)
(* What a document yields is its evidence and the materials abstracted     *)
(* from it; both are named by the source version they were made from.      *)
(***************************************************************************)
EXTENDS Integers, FiniteSets

CONSTANTS
    NDocs,        \* documents are 1..NDocs, handled in this order
    MinPilot,     \* the least number of documents of a controlled pilot
    ExtractRuns,  \* identifiers of runs, 1..ExtractRuns
    MaxSrc,       \* source versions of a document are 1..MaxSrc, 0 is "not ready"
    MaxBundle,    \* configurations (prompt, model, schema) are 1..MaxBundle
    MaxUpsets     \* how often something goes wrong: a source or the configuration
                  \* changes, a document is refused, a command dies

ASSUME ExtractionConstants ==
    {NDocs, MinPilot, ExtractRuns, MaxSrc, MaxBundle, MaxUpsets} \subseteq Nat

VARIABLES
    src,      \* source and parse fingerprint in the Literature state
    consumed, \* the last consumed delta: the Literature checkpoint
    bundle,   \* version bundle of the installed configuration
    row,      \* table documents of extraction.sqlite3
    files,    \* runs/<run_id>/: evidence, materials and failures, or no directory
    manifest, \* runs/<run_id>/manifest.json
    xpc,      \* where the running command is
    cmd,      \* its run, selection, flags and plan
    mem,      \* the assets it holds in memory
    gate,     \* a ready gate report that is not yet signed
    approval, \* the pilot approval an operator signed for a ready gate report
    upsets,   \* how often something went wrong
    drifted,  \* history: runs whose source moved between selection and load
    torn      \* history: runs whose command died inside a checkpoint

extractVars == <<src, consumed, bundle, row, files, manifest, xpc, cmd, mem, gate, approval,
                 upsets, drifted, torn>>
runVars == <<row, files, manifest>>
outsideVars == <<src, consumed, bundle>>
pilotVars == <<gate, approval>>
historyVars == <<upsets, drifted, torn>>

Docs == 1..NDocs
XRuns == 1..ExtractRuns
Absent == [absent |-> TRUE]
NoAssets == [evs |-> {}, mats |-> {}, fails |-> {}]

NoCmd == [kind |-> "none", run |-> 0, sel |-> <<>>, bundle |-> 1, retry |-> FALSE,
          resumed |-> FALSE, toLoad |-> {}, lost |-> {}, plan |-> {}, doc |-> <<1, 1>>,
          res |-> "ok", status |-> "running", after |-> "next"]

ExtractInit ==
    /\ src = [d \in Docs |-> 1]
    /\ consumed = 0
    /\ bundle = 1
    /\ row = [d \in Docs |-> Absent]
    /\ files = [r \in XRuns |-> Absent]
    /\ manifest = [r \in XRuns |-> Absent]
    /\ xpc = "idle"
    /\ cmd = NoCmd
    /\ mem = NoAssets
    /\ gate = Absent
    /\ approval = Absent
    /\ upsets = 0
    /\ drifted = {}
    /\ torn = {}

--------------------------------------------------------------------------------
\* the bound on what goes wrong
CountUpset(wrong) ==
    /\ wrong => upsets < MaxUpsets
    /\ upsets' = IF wrong THEN upsets + 1 ELSE upsets

(***************************************************************************)
(* Around the command: the pipeline re-parses or drops a document and      *)
(* later marks the delta consumed; the operator installs another           *)
(* configuration.                                                          *)
(***************************************************************************)
\* only selection and planning read the Literature state, so a change during
\* the rest of a command is indistinguishable from one after it
Observable == xpc \in {"idle", "plan"}

SourceMoves(d, v) ==
    /\ Observable
    /\ src[d] # 0
    /\ v \in {0, src[d] + 1}
    /\ v <= MaxSrc
    /\ CountUpset(TRUE)
    /\ src' = [src EXCEPT ![d] = v]
    /\ drifted' = IF xpc = "plan" /\ cmd.kind # "dry" /\ d \in cmd.toLoad
                  THEN drifted \cup {cmd.run} ELSE drifted
    /\ UNCHANGED <<consumed, bundle, runVars, xpc, cmd, mem, pilotVars, torn>>

DeltaConsumed ==
    /\ Observable
    /\ consumed < Cardinality({d \in Docs : src[d] # 1})
    /\ consumed' = consumed + 1
    /\ UNCHANGED <<src, bundle, runVars, xpc, cmd, mem, pilotVars, historyVars>>

ConfigChanges ==
    /\ xpc = "idle"
    /\ bundle < MaxBundle
    /\ bundle' = bundle + 1
    /\ CountUpset(TRUE)
    /\ UNCHANGED <<src, consumed, runVars, xpc, cmd, mem, pilotVars, drifted, torn>>

--------------------------------------------------------------------------------
(***************************************************************************)
(* extract: selection and planning.                                        *)
(***************************************************************************)
\* reader.documents, and resolve_selection pinning the fingerprints it read
ReadyDocs == {d \in Docs : src[d] # 0}
Pinned(S) == [d \in S |-> src[d]]

\* --retry-failed takes the selection of a prior run
Selectable(S, retry) ==
    /\ S # {}
    /\ S \subseteq ReadyDocs
    /\ retry => \E r \in XRuns : manifest[r] # Absent /\ DOMAIN manifest[r].sel = S

FreshRuns == {r \in XRuns : files[r] = Absent}

ExtractNew(S, kind, retry) ==
    /\ xpc = "idle"
    /\ Selectable(S, retry)
    /\ FreshRuns # {}
    /\ kind = "pilot" => approval # Absent
    /\ gate = Absent                       \* bound: a ready report is signed, or not,
    /\ kind = "dry" => approval = Absent   \* before the next command; one approval
    /\ cmd' = [NoCmd EXCEPT !.kind = kind, !.sel = Pinned(S), !.bundle = bundle,
                            !.run = CHOOSE r \in FreshRuns : \A q \in FreshRuns : r <= q,
                            !.retry = retry, !.toLoad = S]
    /\ mem' = NoAssets
    /\ xpc' = "plan"
    /\ UNCHANGED <<outsideVars, runVars, pilotVars, historyVars>>

\* _verify_checkpoint: every asset still has the hash the manifest recorded
CheckpointVerified(r) == manifest[r] # Absent /\ manifest[r].assets = files[r]

\* mutant: the fingerprints of the sources are not compared again
ResumableUnpinned(r) ==
    /\ manifest[r] # Absent
    /\ manifest[r].status = "running"
    /\ manifest[r].bundle = bundle
    /\ CheckpointVerified(r)

\* _resume_selection: what a run must satisfy to be continued
Resumable(r) ==
    /\ manifest[r] # Absent
    /\ manifest[r].status = "running"
    /\ manifest[r].bundle = bundle
    /\ CheckpointVerified(r)
    /\ \A d \in DOMAIN manifest[r].sel : src[d] = manifest[r].sel[d]

\* mutant: prior_failures are not read back
LoadedWithoutFailures(r) == [files[r] EXCEPT !.fails = {}]

\* _load_checkpoint_assets: what a continued command starts from
LoadedAssets(r) == files[r]

ExtractResume(r) ==
    /\ xpc = "idle"
    /\ Resumable(r)
    /\ cmd' = [NoCmd EXCEPT !.kind = manifest[r].kind, !.run = r, !.sel = manifest[r].sel,
                            !.bundle = bundle, !.resumed = TRUE,
                            !.toLoad = DOMAIN manifest[r].sel]
    /\ mem' = LoadedAssets(r)
    /\ xpc' = "plan"
    /\ UNCHANGED <<outsideVars, runVars, pilotVars, historyVars>>

\* ExtractionState.disposition_detail
Disposition(d) ==
    CASE row[d] = Absent -> "new"
      [] row[d] # Absent /\ (row[d].src # src[d] \/ row[d].bundle # cmd.bundle) -> "changed"
      [] OTHER -> CASE row[d].status \in {"failed", "partial"} -> "failed"
                    [] row[d].status = "inactive" -> "changed"
                    [] OTHER -> "unchanged"

NextToLoad == CHOOSE d \in cmd.toLoad : \A e \in cmd.toLoad : d <= e

\* reader.load, the coverage threshold, detect_candidates and the disposition;
\* a document that is not ready or not traceable is a planning failure
PlanDocument(traceable) ==
    /\ xpc = "plan"
    /\ cmd.toLoad # {}
    /\ LET d == NextToLoad
           skip == \/ Disposition(d) = "unchanged"
                   \/ Disposition(d) = "failed" /\ ~cmd.retry
           unread == src[d] = 0 \/ ~traceable
       IN cmd' = [cmd EXCEPT
                     !.toLoad = @ \ {d},
                     !.lost = IF unread THEN @ \cup {d} ELSE @,
                     !.plan = IF unread \/ skip THEN @ ELSE @ \cup {<<d, src[d]>>}]
    /\ CountUpset(~traceable)
    /\ UNCHANGED <<outsideVars, runVars, xpc, mem, pilotVars, drifted, torn>>

\* assess_dry_run: a pilot's size, and no planning failure (PilotPolicy)
GateReady == Cardinality(DOMAIN cmd.sel) >= MinPilot /\ cmd.lost = {}

\* a dry run only reports, and the report is assessed
DryRunReports ==
    /\ xpc = "plan"
    /\ cmd.toLoad = {}
    /\ cmd.kind = "dry"
    /\ gate' = IF GateReady THEN [sel |-> cmd.sel, bundle |-> cmd.bundle, consumed |-> consumed]
               ELSE Absent
    /\ xpc' = "idle"
    /\ cmd' = NoCmd
    /\ UNCHANGED <<outsideVars, runVars, mem, approval, historyVars>>

\* _validate_ready_gate: the report is ready and as it was written
ReadyGate == gate # Absent

\* create_pilot_approval copies the report as it is, whatever changed since
ApprovePilot(confirmed) ==
    /\ xpc = "idle"
    /\ ReadyGate
    /\ approval' = IF confirmed THEN gate ELSE approval
    /\ gate' = Absent    \* signing it again gives the same approval
    /\ UNCHANGED <<outsideVars, runVars, xpc, cmd, mem, historyVars>>

\* _pilot_approval_trace: the approval is of this selection, bundle and
\* Literature checkpoint; without an approval only the fixture provider runs.
\* validate_execution_authorization asks the same before the task is created.
Authorized ==
    \/ cmd.resumed
    \/ cmd.kind = "fixture"
    \/ /\ cmd.kind = "pilot"
       /\ approval.sel = cmd.sel
       /\ approval.bundle = cmd.bundle
       /\ approval.consumed = consumed

ExtractRefused ==
    /\ xpc = "plan"
    /\ cmd.toLoad = {}
    /\ cmd.kind # "dry"
    /\ ~Authorized
    /\ xpc' = "idle"
    /\ cmd' = NoCmd
    /\ UNCHANGED <<outsideVars, runVars, mem, pilotVars, historyVars>>

\* mark_unavailable: an existing row of a planning failure becomes inactive
Unavailable(d) ==
    IF d \in cmd.lost /\ row[d] # Absent
    THEN [row[d] EXCEPT !.status = "inactive", !.run = cmd.run] ELSE row[d]

\* the run directory is created, planning failures are recorded, and the first
\* checkpoint is begun
ExtractBegin ==
    /\ xpc = "plan"
    /\ cmd.toLoad = {}
    /\ cmd.kind # "dry"
    /\ Authorized
    /\ files' = [files EXCEPT ![cmd.run] = IF cmd.resumed THEN @ ELSE NoAssets]
    /\ row' = [d \in Docs |-> Unavailable(d)]
    /\ mem' = [mem EXCEPT !.fails = @ \cup (cmd.lost \X {"planning"})]
    /\ xpc' = "evidence"
    /\ UNCHANGED <<outsideVars, manifest, cmd, pilotVars, historyVars>>

--------------------------------------------------------------------------------
(***************************************************************************)
(* _write_checkpoint: evidence.jsonl, the other assets, manifest.json.     *)
(***************************************************************************)
\* the commit marker, with the hashes of the files as they now are
Marker(assets) == [status |-> cmd.status, sel |-> cmd.sel, bundle |-> cmd.bundle,
                   kind |-> cmd.kind, assets |-> assets]

\* mutant: the manifest is written first
EvidenceAfterMarker ==
    /\ xpc = "evidence"
    /\ files' = [files EXCEPT ![cmd.run].evs = mem.evs]
    /\ manifest' = [manifest EXCEPT ![cmd.run] = Marker(mem)]
    /\ xpc' = "assets"
    /\ UNCHANGED <<outsideVars, row, cmd, mem, pilotVars, historyVars>>

WriteEvidence ==
    /\ xpc = "evidence"
    /\ files' = [files EXCEPT ![cmd.run].evs = mem.evs]
    /\ xpc' = "assets"
    /\ UNCHANGED <<outsideVars, row, manifest, cmd, mem, pilotVars, historyVars>>

WriteAssets ==
    /\ xpc = "assets"
    /\ files' = [files EXCEPT ![cmd.run].mats = mem.mats,
                              ![cmd.run].fails = mem.fails]
    /\ xpc' = "manifest"
    /\ UNCHANGED <<outsideVars, row, manifest, cmd, mem, pilotVars, historyVars>>

WriteManifest ==
    /\ xpc = "manifest"
    /\ manifest' = [manifest EXCEPT ![cmd.run] = Marker(files[cmd.run])]
    /\ xpc' = cmd.after
    /\ UNCHANGED <<outsideVars, row, files, cmd, mem, pilotVars, historyVars>>

--------------------------------------------------------------------------------
(***************************************************************************)
(* One document: classification, abstraction, checkpoint, row.             *)
(***************************************************************************)
\* what _request ends with, after its corrections and retries
Answers == {"valid", "malformed", "truncated", "failed"}

\* the validators of the two requests (parse_classification_response and
\* parse_abstraction_response) refuse a malformed answer
ClassificationParses(ans) == ans # "malformed"
AbstractionParses(ans) == ans # "malformed"

\* classify, and abstract for the evidence classify gave; a truncated abstraction
\* is asked again in halves, and raises when one evidence is too much
Classified(ans) == ans \notin {"truncated", "failed"} /\ ClassificationParses(ans)
Abstracted(ans) == ans \notin {"truncated", "failed"} /\ AbstractionParses(ans)

\* of the spans a classification selects, those that are exact and of sufficient
\* quality are evidence
Spans == {"all", "some", "none"}

\* ok: every candidate accepted; rejects: some refused; nothing: all refused, or
\* an exception before classification ended; abstract: an exception after it
Result(classify, spans, abstract) ==
    CASE ~Classified(classify) \/ spans = "none" -> "nothing"
      [] Classified(classify) /\ spans # "none" /\ ~Abstracted(abstract) -> "abstract"
      [] OTHER -> IF spans = "all" THEN "ok" ELSE "rejects"

\* what the document adds to the evidence, materials and failures
Added(p, res) ==
    [evs |-> mem.evs \cup (IF res \in {"ok", "rejects", "abstract"} THEN {p} ELSE {}),
     mats |-> mem.mats \cup (IF res \in {"ok", "rejects"} THEN {p} ELSE {}),
     fails |-> mem.fails \cup (IF res = "ok" THEN {} ELSE {<<p[1], "execution">>})]

RowStatus(res) == CASE res = "ok" -> "success"
                    [] res = "rejects" -> "partial"
                    [] OTHER -> "failed"

FirstPlanned == CHOOSE p \in cmd.plan : \A q \in cmd.plan : p[1] <= q[1]

NewRow(p, res) == [src |-> p[2], bundle |-> cmd.bundle, status |-> RowStatus(res),
                   run |-> cmd.run]

\* mutant: the row is written before the checkpoint
RecordFirst(res) ==
    /\ xpc = "next"
    /\ cmd.plan # {}
    /\ mem' = Added(FirstPlanned, res)
    /\ cmd' = [cmd EXCEPT !.plan = @ \ {FirstPlanned}, !.doc = FirstPlanned,
                          !.res = res, !.after = "next"]
    /\ row' = [row EXCEPT ![FirstPlanned[1]] = NewRow(FirstPlanned, res)]
    /\ xpc' = "evidence"
    /\ CountUpset(res # "ok")
    /\ UNCHANGED <<outsideVars, files, manifest, pilotVars, drifted, torn>>

\* the provider's answers, validated, then the checkpoint
ProcessDocument(res) ==
    /\ xpc = "next"
    /\ cmd.plan # {}
    /\ mem' = Added(FirstPlanned, res)
    /\ cmd' = [cmd EXCEPT !.plan = @ \ {FirstPlanned}, !.doc = FirstPlanned,
                          !.res = res, !.after = "record"]
    /\ xpc' = "evidence"
    /\ CountUpset(res # "ok")
    /\ UNCHANGED <<outsideVars, runVars, pilotVars, drifted, torn>>

\* state.record; an approved pilot stops at its first failing document
RecordDocument ==
    /\ xpc = "record"
    /\ row' = [row EXCEPT ![cmd.doc[1]] = NewRow(cmd.doc, cmd.res)]
    /\ cmd' = [cmd EXCEPT !.plan = IF cmd.kind = "pilot" /\ cmd.res # "ok" THEN {} ELSE @,
                          !.doc = NoCmd.doc, !.res = "ok", !.after = "next"]
    /\ xpc' = "next"
    /\ UNCHANGED <<outsideVars, files, manifest, mem, pilotVars, historyVars>>

\* mutant: the last checkpoint is like the others
FinishUnmarked ==
    /\ xpc = "next"
    /\ cmd.plan = {}
    /\ cmd' = [cmd EXCEPT !.after = "done"]
    /\ xpc' = "evidence"
    /\ UNCHANGED <<outsideVars, runVars, mem, pilotVars, historyVars>>

\* the last checkpoint carries finished_at and the verdict
FinishRun ==
    /\ xpc = "next"
    /\ cmd.plan = {}
    /\ cmd' = [cmd EXCEPT !.status = IF mem.fails = {} THEN "success" ELSE "partial",
                          !.after = "done"]
    /\ xpc' = "evidence"
    /\ UNCHANGED <<outsideVars, runVars, mem, pilotVars, historyVars>>

ExtractReturns ==
    /\ xpc = "done"
    /\ xpc' = "idle"
    /\ cmd' = NoCmd
    /\ mem' = NoAssets
    /\ UNCHANGED <<outsideVars, runVars, pilotVars, historyVars>>

\* killed, or an exception of the file system or the database nothing catches
ExtractDies ==
    /\ xpc # "idle"
    /\ CountUpset(TRUE)
    /\ torn' = IF files[cmd.run] # Absent /\ ~CheckpointVerified(cmd.run)
               THEN torn \cup {cmd.run} ELSE torn
    /\ xpc' = "idle"
    /\ cmd' = NoCmd
    /\ mem' = NoAssets
    /\ UNCHANGED <<outsideVars, runVars, pilotVars, drifted>>

ExtractStep ==
    \/ \E t \in BOOLEAN : PlanDocument(t)
    \/ DryRunReports \/ ExtractRefused \/ ExtractBegin
    \/ WriteEvidence \/ WriteAssets \/ WriteManifest
    \/ \E c, a \in Answers, s \in Spans : ProcessDocument(Result(c, s, a))
    \/ RecordDocument \/ FinishRun \/ ExtractReturns

ExtractNext ==
    \/ \E d \in Docs, v \in 0..MaxSrc : SourceMoves(d, v)
    \/ DeltaConsumed \/ ConfigChanges
    \/ \E S \in SUBSET Docs, kind \in {"dry", "fixture", "pilot"}, retry \in BOOLEAN :
          ExtractNew(S, kind, retry)
    \/ \E r \in XRuns : ExtractResume(r)
    \/ \E confirmed \in BOOLEAN : ApprovePilot(confirmed)
    \/ ExtractStep
    \/ ExtractDies

\* a command that started runs on, and an operator continues an interrupted run
ExtractFairness ==
    /\ WF_extractVars(ExtractStep)
    /\ \A r \in XRuns : SF_extractVars(ExtractResume(r))

ExtractSpec == ExtractInit /\ [][ExtractNext]_extractVars /\ ExtractFairness

--------------------------------------------------------------------------------
(***************************************************************************)
(* Properties.                                                             *)
(***************************************************************************)
\* A row that says success names a run whose committed checkpoint holds what
\* was made from exactly the row's source version: the checkpoint is written
\* before state.record, so no crash leaves a document marked done whose output
\* was never committed.
RecordedIsCheckpointed ==
    \A d \in Docs :
        row[d] # Absent /\ row[d].status \in {"success", "partial"} =>
            /\ manifest[row[d].run] # Absent
            /\ <<d, row[d].src>> \in manifest[row[d].run].assets.evs
            /\ <<d, row[d].src>> \in manifest[row[d].run].assets.mats

\* "The manifest is the commit marker: readers never observe it ahead of the
\* asset files that it describes" (_write_checkpoint), at any moment, through
\* crashes and resumptions.
MarkerNeverAhead ==
    \A r \in XRuns : manifest[r] # Absent =>
        /\ manifest[r].assets.evs \subseteq files[r].evs
        /\ manifest[r].assets.mats \subseteq files[r].mats
        /\ manifest[r].assets.fails \subseteq files[r].fails

\* A run that ended "success" (the only kind a candidate index is built from)
\* has a material for every evidence, even when it was interrupted and
\* continued: the failures of the earlier command are not forgotten.
SuccessIsComplete ==
    \A r \in XRuns : manifest[r] # Absent /\ manifest[r].status = "success" =>
        manifest[r].assets.evs = manifest[r].assets.mats

\* Unless the source moved between selection and load, everything in a run was
\* made from the source versions its selection pins, however often it was
\* resumed.
MadeFromSelection ==
    \A r \in XRuns \ drifted : manifest[r] # Absent =>
        \A p \in manifest[r].assets.evs :
            p[1] \in DOMAIN manifest[r].sel /\ p[2] = manifest[r].sel[p[1]]

\* finished, or beyond what --resume-run-id accepts
Settled(r) ==
    \/ manifest[r].status # "running"
    \/ r \in torn
    \/ bundle # manifest[r].bundle
    \/ \E d \in DOMAIN manifest[r].sel : src[d] # manifest[r].sel[d]
\* An interrupted run is finished in the end, unless its last command died
\* inside a checkpoint, or its sources or the configuration changed.
RunsFinish ==
    \A r \in XRuns : manifest[r] # Absent ~> manifest[r] # Absent /\ Settled(r)

================================================================================
