----------------------------- MODULE WritingReview -----------------------------
(***************************************************************************)
(* Review of one finished extraction run (writing_rag/review.py, the       *)
(* quality audit and packets of pilot.py).  Reviewers decide on assets;    *)
(* decisions are appended to review-events.jsonl and every reviewed state  *)
(* becomes an immutable snapshot directory: accepted/ or accepted-partial/ *)
(* first, accepted-revisions/<revision_id>/ later, with a current pointer. *)
(* Commands that write hold the lock of the run; the candidate index build *)
(* and the quality audit read without it.                                  *)
(*                                                                         *)
(* The run has one evidence and one material abstracted from it.  The hash *)
(* of an event log is the log itself: an event carries the attempt that    *)
(* made it, as its decision_id is new in every attempt.                    *)
(***************************************************************************)
EXTENDS Integers, Sequences, SequencesExt

CONSTANTS
    RunStatuses,  \* how the extraction run may have ended: success, partial
    MaxEvents,    \* bound on the length of the event log
    MaxCrashes    \* bound on the number of crashes

VARIABLES
    runStatus, \* status in the manifest of the run
    events,    \* review-events.jsonl
    shown,     \* review-status.jsonl, or none
    snaps,     \* snapshot directories
    pointer,   \* accepted-current.json and accepted-partial-current.json
    audit,     \* the last quality audit report: the log it read and what it flagged
    packet,    \* the last quality review packet: the log it was rendered from
    receipts,  \* quality-review-receipts/
    wpc, wrk,  \* the command that holds the lock of the run
    ipc, ibuf, \* the candidate index build
    candidate, \* the candidate index
    attempt,   \* number of crashes so far
    stuck      \* history: a crash fell in a window no command repairs

reviewVars == <<runStatus, events, shown, snaps, pointer, audit, packet, receipts,
                wpc, wrk, ipc, ibuf, candidate, attempt, stuck>>
indexVars == <<ipc, ibuf, candidate>>
qualityVars == <<audit, packet, receipts>>
faultVars == <<attempt, stuck>>

\* the assets of A one after the other, in whatever order the file has them
InOrder(A) == (IF "evidence" \in A THEN <<"evidence">> ELSE <<>>)
                \o (IF "material" \in A THEN <<"material">> ELSE <<>>)
Decisions == [evidence |-> {"accepted", "rejected"},
              material |-> {"accepted", "edited", "rejected"}]
Nothing == [nothing |-> TRUE]
Unwritten == {<<"unwritten", "unwritten">>}
NoWork == [log |-> <<>>, activate |-> FALSE, quality |-> "no", packet |-> <<>>]

ReviewInit ==
    /\ runStatus \in RunStatuses
    /\ events = <<>>
    /\ shown = Nothing
    /\ snaps = {}
    /\ pointer = [c \in {"complete", "partial"} |-> Nothing]
    /\ audit = Nothing
    /\ packet = Nothing
    /\ receipts = {}
    /\ wpc = "idle"
    /\ wrk = NoWork
    /\ ipc = "idle"
    /\ ibuf = <<>>
    /\ candidate = Nothing
    /\ attempt = 0
    /\ stuck = FALSE

--------------------------------------------------------------------------------
(***************************************************************************)
(* What a log means.                                                       *)
(***************************************************************************)
EventsOf(log, a) == SelectSeq(log, LAMBDA ev : ev.asset = a)
Latest(log, a) == IF EventsOf(log, a) = <<>> THEN "pending" ELSE Last(EventsOf(log, a)).decision

\* _review_projection: the last event of each asset (with its decision_id)
Projection(log) ==
    [a \in {"evidence", "material"} |->
        IF EventsOf(log, a) = <<>> THEN Nothing ELSE Last(EventsOf(log, a))]

Pending(log) == {a \in {"evidence", "material"} : Latest(log, a) = "pending"}
Completeness(log) == IF Pending(log) = {} THEN "complete" ELSE "partial"

\* mutant: a material does not need its evidence
AcceptedAlone(log) ==
    {<<a, Latest(log, a)>> : a \in {b \in {"evidence", "material"} :
        Latest(log, b) \in {"accepted", "edited"}}}

\* _accepted_records: a material only together with the evidence it references
AcceptedRecords(log) ==
    LET evidence == IF Latest(log, "evidence") = "accepted"
                    THEN {<<"evidence", "accepted">>} ELSE {}
        material == IF evidence # {} /\ Latest(log, "material") \in {"accepted", "edited"}
                    THEN {<<"material", Latest(log, "material")>>} ELSE {}
    IN evidence \cup material

\* _resolve_snapshot_dir: the marked snapshot of exactly this log
Resolved(log) == {s \in snaps : s.marked /\ s.log = log /\ s.comp = Completeness(log)}
HasHistory == snaps # {}

\* validate, apart from review-status.jsonl: a snapshot of the current log once
\* there is any, its content, and its pointer.  A source that changed since, or
\* an expired retention period (validate_run_governance), also fails: then
\* commands are refused for good, which here is a behaviour that ends.
SnapshotCurrent ==
    /\ HasHistory => Resolved(events) # {}
    /\ \A s \in Resolved(events) :
          /\ s.data = AcceptedRecords(events)
          /\ pointer[s.comp] \in {Nothing, [log |-> events]}
Valid == shown \in {Nothing, Projection(events)} /\ SnapshotCurrent

\* index_eligible
Eligible ==
    /\ Valid
    /\ runStatus = "success"
    /\ Completeness(events) = "complete"
    /\ Resolved(events) # {}

--------------------------------------------------------------------------------
(***************************************************************************)
(* apply: decisions D, a function from assets to decisions.                *)
(***************************************************************************)
NewEvent(a, D) == [asset |-> a, decision |-> D[a], attempt |-> attempt]

\* decisions that only repeat the latest event are ignored as duplicates
Fresh(D) == InOrder({a \in DOMAIN D : D[a] # Latest(events, a)})
Combined(D) == events \o [i \in 1..Len(Fresh(D)) |-> NewEvent(Fresh(D)[i], D)]

\* the packet a quality import was started with
PacketUsed(quality) == IF quality = "no" THEN <<>> ELSE packet.log

\* mutant: every apply writes the events before the snapshot
StartApplyLogFirst(D, allowPartial, quality) ==
    LET log == Combined(D) IN
    /\ wpc = "idle"
    /\ Valid
    /\ DOMAIN D # {}
    /\ Len(log) <= MaxEvents
    /\ Pending(log) # {} => allowPartial
    /\ wrk' = [log |-> log, activate |-> TRUE, quality |-> quality,
                packet |-> PacketUsed(quality)]
    /\ wpc' = IF log # events THEN "log" ELSE "snapshot"
    /\ UNCHANGED <<runStatus, events, shown, snaps, pointer, qualityVars, indexVars, faultVars>>

StartApply(D, allowPartial, quality) ==
    LET log == Combined(D) IN
    /\ wpc = "idle"
    /\ Valid
    /\ DOMAIN D # {}
    /\ Len(log) <= MaxEvents
    /\ Pending(log) # {} => allowPartial
    /\ wrk' = [log |-> log, activate |-> ~(log # events /\ HasHistory), quality |-> quality,
                packet |-> PacketUsed(quality)]
    /\ wpc' = IF log # events /\ ~HasHistory THEN "log" ELSE "snapshot"
    /\ UNCHANGED <<runStatus, events, shown, snaps, pointer, qualityVars, indexVars, faultVars>>

Apply(D, allowPartial) == StartApply(D, allowPartial, "no")

\* the first apply of a run writes the events, then makes the snapshot
WriteLog ==
    /\ wpc = "log"
    /\ events' = wrk.log
    /\ wpc' = "snapshot"
    /\ UNCHANGED <<runStatus, shown, snaps, pointer, wrk, qualityVars, indexVars, faultVars>>

\* _materialize_events: reuse the snapshot of this log, or make its directory
ReuseSnapshot ==
    /\ wpc = "snapshot"
    /\ Resolved(wrk.log) # {}
    /\ wpc' = IF wrk.activate THEN "status" ELSE "append"
    /\ UNCHANGED <<runStatus, events, shown, snaps, pointer, wrk, qualityVars, indexVars,
                   faultVars>>

LegacyTaken(comp) == \E s \in snaps : s.legacy /\ s.comp = comp

MakeSnapshotDir ==
    LET comp == Completeness(wrk.log) IN
    /\ wpc = "snapshot"
    /\ Resolved(wrk.log) = {}
    /\ ~ \E s \in snaps : ~s.legacy /\ s.log = wrk.log
    /\ snaps' = snaps \cup {[comp |-> comp, legacy |-> ~LegacyTaken(comp), log |-> wrk.log,
                             data |-> Unwritten, marked |-> FALSE]}
    /\ wpc' = "files"
    /\ UNCHANGED <<runStatus, events, shown, pointer, wrk, qualityVars, indexVars, faultVars>>

InProgress(s) == s.log = wrk.log /\ ~s.marked

WriteSnapshotFiles ==
    /\ wpc = "files"
    /\ snaps' = {IF InProgress(s) THEN [s EXCEPT !.data = AcceptedRecords(wrk.log)] ELSE s :
                   s \in snaps}
    /\ wpc' = "marker"
    /\ UNCHANGED <<runStatus, events, shown, pointer, wrk, qualityVars, indexVars, faultVars>>

\* the manifest of the snapshot; a later apply only now writes the events
MarkSnapshot ==
    /\ wpc = "marker"
    /\ snaps' = {IF InProgress(s) THEN [s EXCEPT !.marked = TRUE] ELSE s : s \in snaps}
    /\ wpc' = IF wrk.activate THEN "status" ELSE "append"
    /\ UNCHANGED <<runStatus, events, shown, pointer, wrk, qualityVars, indexVars, faultVars>>

AppendEvents ==
    /\ wpc = "append"
    /\ events' = wrk.log
    /\ wpc' = "status"
    /\ UNCHANGED <<runStatus, shown, snaps, pointer, wrk, qualityVars, indexVars, faultVars>>

WriteStatus ==
    /\ wpc = "status"
    /\ shown' = Projection(wrk.log)
    /\ wpc' = "pointer"
    /\ UNCHANGED <<runStatus, events, snaps, pointer, wrk, qualityVars, indexVars, faultVars>>

\* _activate_snapshot
ActivateSnapshot ==
    /\ wpc = "pointer"
    /\ pointer' = [pointer EXCEPT ![Completeness(wrk.log)] = [log |-> wrk.log]]
    /\ wpc' = IF wrk.quality = "no" THEN "idle" ELSE "receipt"
    /\ wrk' = IF wrk.quality = "no" THEN NoWork ELSE wrk
    /\ UNCHANGED <<runStatus, events, shown, snaps, qualityVars, indexVars, faultVars>>

\* render: review.md and the status, from the events alone
Render ==
    /\ wpc = "idle"
    /\ shown' = Projection(events)
    /\ UNCHANGED <<runStatus, events, snaps, pointer, wpc, wrk, qualityVars, indexVars, faultVars>>

--------------------------------------------------------------------------------
(***************************************************************************)
(* Quality audit: the material may be flagged; a packet asks for one more  *)
(* decision on it, and a receipt acknowledges the decision.                *)
(***************************************************************************)
MaterialAccepted == \E r \in AcceptedRecords(events) : r[1] = "material"
Acknowledged == \E q \in receipts : q.result = events

\* _quality_findings: what is flagged depends on the texts
Findings == {F \in SUBSET {"material"} : F # {} => MaterialAccepted}

\* audit: the report names what is flagged and not acknowledged
AuditQuality(F) ==
    /\ Eligible
    /\ audit' = [log |-> events, open |-> IF Acknowledged THEN {} ELSE F]
    /\ UNCHANGED <<runStatus, events, shown, snaps, pointer, packet, receipts, wpc, wrk,
                   indexVars, faultVars>>

\* _validate_quality_audit_report: of this snapshot, with an unreviewed finding
AuditUsable ==
    /\ audit # Nothing
    /\ audit.log = events
    /\ audit.open # {}

\* the renderer of the packet; what was acknowledged since the report is not asked
RenderPacket ==
    /\ Eligible
    /\ AuditUsable
    /\ packet' = [log |-> events]
    /\ UNCHANGED <<runStatus, events, shown, snaps, pointer, audit, receipts, wpc, wrk,
                   indexVars, faultVars>>

\* _validate_quality_packet: every item is an accepted asset; the import, not the
\* reconciliation, also asks that the packet is of the current snapshot
PacketValid(current) ==
    /\ packet # Nothing
    /\ current => packet.log = events
    /\ MaterialAccepted

\* _normalize_quality_decision: edits the accepted record carries are kept
Normalized(dec) ==
    IF dec = "accepted" /\ <<"material", "edited">> \in AcceptedRecords(events)
    THEN "edited" ELSE dec

\* apply_quality_review: the packet must be of the current snapshot
ApplyQuality(dec) ==
    /\ Eligible
    /\ PacketValid(TRUE)
    /\ StartApply([a \in {"material"} |-> Normalized(dec)], FALSE, Normalized(dec))

\* _assert_quality_decisions_are_current
DecisionCurrent(dec) == Latest(events, "material") = dec

\* _write_quality_review_receipt: one receipt for each packet
ReceiptsWith(log, dec) ==
    IF \E q \in receipts : q.packet = log THEN receipts
    ELSE receipts \cup {[packet |-> log, result |-> events, decision |-> dec]}

WriteReceipt ==
    /\ wpc = "receipt"
    /\ receipts' = IF DecisionCurrent(wrk.quality) THEN ReceiptsWith(wrk.packet, wrk.quality)
                   ELSE receipts
    /\ wpc' = "idle"
    /\ wrk' = NoWork
    /\ UNCHANGED <<runStatus, events, shown, snaps, pointer, audit, packet, indexVars, faultVars>>

\* mutant: any decision on an accepted material is recorded
ReconcileAnything(dec) ==
    /\ wpc = "idle"
    /\ Eligible
    /\ PacketValid(FALSE)
    /\ receipts' = ReceiptsWith(packet.log, Normalized(dec))
    /\ UNCHANGED <<runStatus, events, shown, snaps, pointer, audit, packet, wpc, wrk, indexVars,
                   faultVars>>

\* reconcile_quality_review_receipt: the packet may be older
Reconcile(dec) ==
    /\ wpc = "idle"
    /\ Eligible
    /\ PacketValid(FALSE)
    /\ DecisionCurrent(Normalized(dec))
    /\ receipts' = ReceiptsWith(packet.log, Normalized(dec))
    /\ UNCHANGED <<runStatus, events, shown, snaps, pointer, audit, packet, wpc, wrk, indexVars,
                   faultVars>>

--------------------------------------------------------------------------------
(***************************************************************************)
(* WritingMaterialCandidateIndexer.build: validate, then resolve the       *)
(* snapshot again, then read it; no lock of the run is held.               *)
(***************************************************************************)
IndexValidate ==
    /\ ipc = "idle"
    /\ candidate = Nothing
    /\ Eligible
    /\ ipc' = "resolve"
    /\ UNCHANGED <<runStatus, events, shown, snaps, pointer, qualityVars, wpc, wrk, ibuf,
                   candidate, faultVars>>

\* mutant: the newest snapshot directory, whatever the log says
IndexResolveNewest ==
    /\ ipc = "resolve"
    /\ \E s \in snaps :
          /\ s.marked /\ s.comp = "complete"
          /\ \A t \in snaps : t.marked => Len(t.log) <= Len(s.log)
          /\ ibuf' = s.log
    /\ ipc' = "read"
    /\ UNCHANGED <<runStatus, events, shown, snaps, pointer, qualityVars, wpc, wrk, candidate,
                   faultVars>>

\* accepted_dir: resolved again from the events as they are now
IndexResolve ==
    /\ ipc = "resolve"
    /\ IF Completeness(events) = "complete" /\ Resolved(events) # {}
       THEN ipc' = "read" /\ ibuf' = events
       ELSE ipc' = "idle" /\ ibuf' = <<>>
    /\ UNCHANGED <<runStatus, events, shown, snaps, pointer, qualityVars, wpc, wrk, candidate,
                   faultVars>>

\* _index_input: a material with the evidence it references
IndexInputs(data) == {r \in data : r[1] = "material" /\ \E e \in data : e[1] = "evidence"}

IndexRead ==
    /\ ipc = "read"
    /\ \E s \in snaps :
          /\ s.marked /\ s.log = ibuf /\ s.comp = "complete"
          /\ candidate' = [log |-> ibuf, data |-> IndexInputs(s.data)]
    /\ ipc' = "idle"
    /\ ibuf' = <<>>
    /\ UNCHANGED <<runStatus, events, shown, snaps, pointer, qualityVars, wpc, wrk, faultVars>>

--------------------------------------------------------------------------------
\* the windows in which a crash leaves the run to no command: a first snapshot
\* directory without its manifest, and new events under an old pointer
Unrepairable ==
    \/ wpc \in {"files", "marker"} /\ wrk.activate
    \/ wpc \in {"status", "pointer"} /\ pointer[Completeness(wrk.log)] \notin {Nothing, [log |-> wrk.log]}

ReviewCrash ==
    /\ wpc # "idle"
    /\ attempt < MaxCrashes
    /\ attempt' = attempt + 1
    /\ stuck' = (stuck \/ Unrepairable)
    /\ wpc' = "idle"
    /\ wrk' = NoWork
    /\ UNCHANGED <<runStatus, events, shown, snaps, pointer, qualityVars, indexVars>>

DecisionSets ==
    UNION {[S -> UNION {Decisions[a] : a \in S}] : S \in SUBSET {"evidence", "material"}}

ReviewNext ==
    \/ \E D \in DecisionSets, partial \in BOOLEAN :
          (\A a \in DOMAIN D : D[a] \in Decisions[a]) /\ Apply(D, partial)
    \/ WriteLog \/ ReuseSnapshot \/ MakeSnapshotDir \/ WriteSnapshotFiles \/ MarkSnapshot
    \/ AppendEvents \/ WriteStatus \/ ActivateSnapshot \/ Render
    \/ \E F \in Findings : AuditQuality(F)
    \/ RenderPacket
    \/ \E dec \in Decisions.material : ApplyQuality(dec) \/ Reconcile(dec)
    \/ WriteReceipt
    \/ IndexValidate \/ IndexResolve \/ IndexRead
    \/ ReviewCrash

ReviewSpec == ReviewInit /\ [][ReviewNext]_reviewVars

--------------------------------------------------------------------------------
(***************************************************************************)
(* Properties.                                                             *)
(***************************************************************************)
\* A snapshot whose manifest exists is whole: it holds exactly the assets its
\* log accepts, and never a material without its evidence.
MarkedIsWhole ==
    \A s \in snaps : s.marked =>
        /\ s.data = AcceptedRecords(s.log)
        /\ \A r \in s.data : r[1] = "material" => <<"evidence", "accepted">> \in s.data

\* A candidate index holds one reviewed state of a successful run, completely
\* decided and at some time the whole event log, although the build reads
\* without the lock of the run while decisions are applied.
IndexedIsReviewed ==
    candidate # Nothing =>
        /\ runStatus = "success"
        /\ IsPrefix(candidate.log, events)
        /\ Completeness(candidate.log) = "complete"
        /\ candidate.data = IndexInputs(AcceptedRecords(candidate.log))

\* Outside the two windows of Unrepairable a crash costs nothing: at rest the
\* current log has its snapshot and pointer, so after a render the next apply
\* is admitted.
RepairableAtRest == wpc = "idle" /\ ~stuck => SnapshotCurrent

\* A receipt that acknowledges the material in the current snapshot records the
\* decision in force, through crashes between the import and its receipt.
AcknowledgedIsCurrent ==
    \A q \in receipts : q.result = events => q.decision = Latest(events, "material")
================================================================================
