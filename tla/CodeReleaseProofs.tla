--------------------------- MODULE CodeReleaseProofs ---------------------------
(***************************************************************************)
(* Theorems of CodeRelease, for any libraries, candidates and numbers of   *)
(* tasks, commands and faults: a release that verifies, and what the alias *)
(* serves, has every file it normalized, with all its points; a complete   *)
(* build has every library unless a cleanup runs beside a sync.            *)
(***************************************************************************)
EXTENDS CodeRelease, TLAPS

File(l) == <<"file", l>>

Files == [Docs -> 0 .. MaxRev]
Collections == (SUBSET Points) \cup {NoColl}
Counts == {0} \cup {Cardinality(S) : S \in SUBSET Points}
Seals == SUBSET [norm : Files, rows : Files, chunks : Files, runs : Nat]
Releases ==
    [status : {"absent", "building", "built", "validated", "invalid", "failed"},
     eligible : BOOLEAN, scope : SUBSET (Docs \cup {None}),
     norm : Files, rows : Files, chunks : Files, runs : Nat, seal : Seals, count : Counts]
Snapshots ==
    [coll : Names, points : SUBSET Points, of : Candidates \cup {None}, seal : Seals]

\* The steps on one document after its chunks, and of a release op makes.
Writing == {"delete", "upsert", "row"}
Making == {"copy", "record", "vindex", "vseal"}

JobTyped ==
    /\ job \in [kind : {"idle", "sync", "build", "diff"},
                pc : {"idle", "checkout", "marker", "notes", "libs", "docs", "error"} \cup Writing,
                dir : Names \cup {None}, lib : Libraries \cup {None}, rev : 0 .. MaxRev,
                todo : SUBSET Libraries, plan : SUBSET Docs, doc : Docs \cup {None},
                piece : 1 .. Pieces, failed : BOOLEAN, fresh : BOOLEAN]
    /\ job.kind = "idle" => job.pc = "idle"
    /\ job.kind = "sync" => /\ job.pc \in {"checkout", "marker", "notes"}
                            /\ job.lib \in Libraries /\ job.rev \in Revs
    /\ job.kind = "build" => job.pc \in {"libs", "docs", "error"} \cup Writing
    /\ job.kind = "diff" => job.pc \in {"docs"} \cup Writing

OpTyped ==
    /\ op \in [kind : {"idle", "validate", "stage", "snapshot", "recover", "clone",
                       "clean_source", "prune"},
               pc : {"idle", "stage", "snapshot", "recover", "prepare", "error", "remove"}
                        \cup Making,
               dir : Names \cup {None}, src : Names \cup Libraries \cup {None},
               parts : SUBSET {"norm", "rows", "chunks", "runs"}, points : SUBSET Points,
               valid : BOOLEAN, dirs : SUBSET (Revs \cup Docs)]
    /\ op.kind = "idle" => op.pc = "idle"
    /\ op.kind = "validate" => op.pc \in {"vindex", "vseal"}
    /\ op.kind = "stage" => op.pc \in {"vindex", "vseal", "stage"}
    /\ op.kind = "snapshot" => op.pc = "snapshot"
    /\ op.kind = "recover" => op.pc \in {"recover", "prepare"} \cup Making
    /\ op.kind = "clone" => op.pc \in {"snapshot", "recover", "error"} \cup Making
    /\ op.kind \in {"clean_source", "prune"} => op.pc = "remove"

CodeTyped ==
    /\ marker \in [Libraries -> Revs] /\ checkouts \in [Libraries -> SUBSET Revs]
    /\ notes \subseteq Libraries
    /\ rel \in [Names -> Releases] /\ coll \in [Names -> Collections]
    /\ current \in [active : Names \cup {None}, prev : Names \cup {None}]
    /\ staged \in Candidates \cup {None}
    /\ snaps \in Seq(Snapshots)
    /\ JobTyped /\ OpTyped

\* Candidates whose build is recorded without a failure.
Settled(c) == c \in Candidates /\ rel[c].status \in {"built", "validated", "invalid"}

\* Every normalized file has its row and its chunks.
FilesIndexed(r) ==
    \A l \in Libraries : r.norm[File(l)] # 0 =>
        r.rows[File(l)] = r.norm[File(l)] /\ r.chunks[File(l)] = r.norm[File(l)]

HasAllLibraries(r) ==
    r.eligible /\ r.scope = {None} => \A l \in Libraries : r.norm[File(l)] # 0

SettledInv ==
    \A c \in Candidates : Settled(c) =>
        FilesIndexed(rel[c]) /\ (CleanRaces \/ HasAllLibraries(rel[c]))

\* The configured directory and collection, which no build replaces.
ProdInv ==
    /\ coll[Prod] # NoColl /\ FilesIndexed(rel[Prod])
    /\ \A l \in Libraries : rel[Prod].rows[File(l)] # 0
    /\ op.kind = "prune" => \A l \in Libraries : File(l) \notin op.dirs

\* What verified once is complete, and stays so.
Published == {staged, current.active, current.prev} \cap Candidates
PublishedInv ==
    \A c \in Candidates : c \in Published \/ rel[c].status = "validated" =>
        Settled(c) /\ Complete(c) /\ coll[c] # NoColl

\* The checkout that a marker names is there, unless a cleanup may run beside a sync.
SourcesInv ==
    ~CleanRaces =>
        /\ \A l \in Libraries : marker[l] \in checkouts[l]
        /\ job.pc = "marker" => job.rev \in checkouts[job.lib]
        /\ op.kind = "clean_source" =>
             job.kind # "sync" /\ op.src \in Libraries /\ marker[op.src] \notin op.dirs

\* The releases that op makes.
OpMakes == op.kind = "clone" \/ (op.kind = "recover" /\ op.pc \in Making)

\* A build owns a release, which has files of the current checkouts only.
BuildInv ==
    job.kind = "build" =>
        LET r == rel[job.dir] IN
        /\ job.dir \in Candidates /\ r.status = "building" /\ r.scope = {None}
        /\ OpMakes => op.dir # job.dir
        /\ job.pc = "libs" => job.plan = {}
        /\ ~job.fresh => coll[job.dir] # NoColl
        /\ job.pc \in {"docs"} \cup Writing => job.lib \in Libraries /\ ~job.fresh
        /\ job.pc \in Writing => job.doc \in Docs

\* Unless a document failed, each normalized file is indexed, or still in plan.
PlanInv ==
    job.kind = "build" /\ job.pc # "error" /\ ~job.failed =>
        \A l \in Libraries :
            LET r == rel[job.dir]
                atHand == job.pc \in Writing /\ job.doc = File(l) IN
            /\ r.norm[File(l)] \in {0, marker[l]}
            /\ r.rows[File(l)] # 0 =>
                 r.rows[File(l)] = marker[l] /\ r.chunks[File(l)] = marker[l]
            /\ atHand => r.chunks[File(l)] = marker[l]
            /\ r.norm[File(l)] # 0 =>
                 r.rows[File(l)] # 0 \/ File(l) \in job.plan \/ atHand

\* A complete build has normalized the files of each library it is done with.
LibrariesInv ==
    job.kind = "build" /\ job.pc # "error" /\ rel[job.dir].eligible /\ ~CleanRaces =>
        /\ \A l \in Libraries \ job.todo : rel[job.dir].norm[File(l)] # 0
        /\ job.pc # "libs" => rel[job.dir].norm[File(job.lib)] # 0

\* A diff touches no file document, and only collections that are there.
DiffInv ==
    job.kind = "diff" =>
        /\ job.dir \in Names
        /\ job.dir # Prod => current.active # None
        /\ \A d \in job.plan : d[1] = "diff"
        /\ job.pc \in Writing => job.doc \in Docs /\ job.doc[1] = "diff"

\* A clone or a recovery copies from a release that does not change its files.
SourceInv ==
    OpMakes \/ (op.kind = "recover" /\ op.src # None) =>
        /\ op.src = Prod \/ Settled(op.src)
        /\ op.kind = "clone" => op.src = Prod \/ op.src \in Published
        /\ op.kind = "recover" => Settled(op.src) /\ rel[op.src].eligible

CopyInv ==
    OpMakes =>
        LET r == rel[op.dir]  s == rel[op.src] IN
        /\ op.dir \in Candidates \ Published /\ op.src # op.dir
        /\ r.status = IF op.pc \in {"vindex", "vseal"} THEN "built" ELSE "building"
        /\ IF op.kind = "clone" THEN r.scope \subseteq Docs ELSE r.scope = s.scope
        /\ op.pc # "copy" => op.parts = {}
        /\ "norm" \notin op.parts =>
             \A l \in Libraries :
                 /\ r.norm[File(l)] = s.norm[File(l)]
                 /\ "rows" \notin op.parts => r.rows[File(l)] = s.rows[File(l)]
                 /\ "chunks" \notin op.parts => r.chunks[File(l)] = s.chunks[File(l)]

\* The other commands: what they found is still so.
OpInv ==
    /\ op.kind = "snapshot" => op.src = Prod \/ op.src \in Published
    /\ op.pc \in {"recover", "prepare"} => op.dir \in Candidates
    /\ op.pc = "prepare" => op.src # None
    /\ op.pc = "recover" => op.dir \notin Published /\ rel[op.dir].status # "validated"
    /\ op.pc \in {"vindex", "vseal", "stage"} => Settled(op.dir)
    /\ op.pc = "vseal" /\ op.valid => Complete(op.dir) /\ coll[op.dir] # NoColl

CodeInv ==
    /\ CodeTyped /\ SettledInv /\ ProdInv /\ PublishedInv /\ SourcesInv
    /\ BuildInv /\ PlanInv /\ LibrariesInv /\ DiffInv
    /\ SourceInv /\ CopyInv /\ OpInv
-----------------------------------------------------------------------------
(* What a step leaves alone.                                               *)

\* What the invariant reads of a release and of a collection.
Alike(r, s) ==
    /\ r.status = s.status /\ r.eligible = s.eligible /\ r.scope = s.scope
    /\ \A l \in Libraries : /\ r.norm[File(l)] = s.norm[File(l)]
                            /\ r.rows[File(l)] = s.rows[File(l)]
                            /\ r.chunks[File(l)] = s.chunks[File(l)]
SamePoints(x, y) ==
    /\ x = NoColl <=> y = NoColl
    /\ \A l \in Libraries, p \in Points : p[1] = File(l) => (p \in x <=> p \in y)

LEMMA DocFacts ==
    /\ \A l \in Libraries : File(l) \in Docs /\ File(l)[1] = "file" /\ File(l)[2] = l
    /\ \A d \in Docs, l \in Libraries : d[1] = "diff" => d # File(l)
    /\ \A l, k \in Libraries : File(l) = File(k) => l = k
BY DEF File, Docs

LEMMA BoundFacts ==
    /\ 1 \in Revs /\ 1 \in 1 .. Pieces /\ 0 \in 0 .. MaxRev
    /\ \A n \in Revs : n \in 0 .. MaxRev /\ n # 0
BY CodeReleaseConstants DEF Revs

LEMMA RevisionTyped ==
    ASSUME CodeTyped, NEW d \in Docs
    PROVE  Revision(d) \in Revs /\ \A l \in Libraries : Revision(File(l)) = marker[l]
<1>1. Revision(d) \in Revs BY BoundFacts DEF Revision, Docs, CodeTyped
<1>2. \A l \in Libraries : Revision(File(l)) = marker[l] BY DEF Revision, File
<1>. QED BY <1>1, <1>2

LEMMA PointFacts ==
    /\ NoColl \notin SUBSET Points /\ {None} \notin SUBSET Docs
    /\ \A d \in Docs, n \in Revs, i \in 1 .. Pieces :
          /\ <<d, n, i>> \in Points /\ <<d, n, i>>[1] = d
          /\ <<d, n, i>>[2] = n
    /\ \A p \in Points : p[1] \in Docs /\ p[2] \in Revs
BY AbsentIsNoValue DEF NoColl, Points

LEMMA CompleteKept ==
    ASSUME CodeTyped, CodeTyped', NEW c \in Names, Alike(rel[c], rel'[c]),
           SamePoints(coll[c], coll'[c]), coll[c] # NoColl, Complete(c)
    PROVE  Complete(c)' /\ coll'[c] # NoColl
<1>1. coll[c] \subseteq Points /\ coll'[c] \subseteq Points /\ coll'[c] # NoColl
  <2>1. coll[c] \in Collections /\ coll'[c] \in Collections
    BY DEF CodeTyped
  <2>. QED BY <2>1 DEF Collections, SamePoints
<1>2. \A l \in Libraries : rel[c].norm[File(l)] # 0 => rel[c].norm[File(l)] \in Revs
  BY DocFacts, CodeReleaseConstants DEF CodeTyped, Releases, Files, Revs
<1>3. ASSUME NEW l \in Libraries, rel'[c].norm[File(l)] # 0
      PROVE  /\ rel'[c].rows[File(l)] = rel'[c].norm[File(l)]
             /\ rel'[c].chunks[File(l)] = rel'[c].norm[File(l)]
             /\ \A i \in 1 .. Pieces : <<File(l), rel'[c].norm[File(l)], i>> \in coll'[c]
             /\ \A p \in coll'[c] : p[1] = File(l) => p[2] = rel'[c].norm[File(l)]
  <2>1. /\ rel'[c].norm[File(l)] = rel[c].norm[File(l)] /\ rel[c].norm[File(l)] \in Revs
        /\ rel'[c].rows[File(l)] = rel[c].rows[File(l)]
        /\ rel'[c].chunks[File(l)] = rel[c].chunks[File(l)]
    BY <1>2, <1>3 DEF Alike
  <2>2. /\ rel[c].rows[File(l)] = rel[c].norm[File(l)]
        /\ rel[c].chunks[File(l)] = rel[c].norm[File(l)]
        /\ \A i \in 1 .. Pieces : <<File(l), rel[c].norm[File(l)], i>> \in coll[c]
        /\ \A p \in coll[c] : p[1] = File(l) => p[2] = rel[c].norm[File(l)]
    BY <1>3, <2>1 DEF Complete, File
  <2>3. \A i \in 1 .. Pieces : <<File(l), rel[c].norm[File(l)], i>> \in coll'[c]
    BY <2>1, <2>2, DocFacts, PointFacts DEF SamePoints
  <2>4. \A p \in coll'[c] : p[1] = File(l) => p \in coll[c]
    BY <1>1 DEF SamePoints
  <2>. QED BY <2>1, <2>2, <2>3, <2>4
<1>. QED BY <1>1, <1>3 DEF Complete, File

\* A step of the job may change one release of its own, which nothing else
\* uses, and the diff documents of any.
LEMMA JobFrame ==
    ASSUME CodeInv, CodeTyped', UNCHANGED <<op, current, staged>>, NEW own,
           \A c \in Names : c # own => Alike(rel[c], rel'[c]) /\ SamePoints(coll[c], coll'[c]),
           own \in Names =>
             /\ own \in Candidates /\ rel[own].status \in {"absent", "building"}
             /\ OpMakes => op.dir # own
             /\ rel'[own].status \in {"building", "built", "failed"}
             /\ rel'[own].status = "built" =>
                  FilesIndexed(rel'[own]) /\ (CleanRaces \/ HasAllLibraries(rel'[own]))
    PROVE  SettledInv' /\ ProdInv' /\ PublishedInv' /\ SourceInv' /\ CopyInv' /\ OpInv'
<1>. Prod \notin Candidates /\ Prod \in Names /\ Candidates \subseteq Names
  BY CodeReleaseConstants DEF Names
<1>1. \A c \in Candidates : Settled(c) => c # own /\ Settled(c)' /\ Alike(rel[c], rel'[c])
  BY DEF Settled, Alike
<1>2. \A c \in Candidates : c # own => (Settled(c)' <=> Settled(c))
  BY DEF Settled, Alike
<1>3. SettledInv'
  BY <1>2 DEF SettledInv, CodeInv, Settled, Alike, FilesIndexed, HasAllLibraries
<1>4. ProdInv'
  BY DEF ProdInv, CodeInv, Alike, FilesIndexed, SamePoints
<1>5. \A c \in Candidates : Settled(c) /\ Complete(c) /\ coll[c] # NoColl =>
         Complete(c)' /\ coll'[c] # NoColl
  BY <1>1, CompleteKept DEF CodeInv
<1>6. Published' = Published BY DEF Published
<1>7. \A c \in Candidates : rel'[c].status = "validated" => rel[c].status = "validated"
  BY DEF Alike
<1>8. PublishedInv'
  BY <1>1, <1>5, <1>6, <1>7 DEF PublishedInv, CodeInv
<1>9. OpMakes' <=> OpMakes BY DEF OpMakes
<1>10. SourceInv'
  BY <1>1, <1>6, <1>9 DEF SourceInv, CodeInv, Settled, Alike
<1>11. CopyInv'
  <2>. SUFFICES ASSUME OpMakes PROVE CopyInv'
    BY <1>9 DEF CopyInv
  <2>1. /\ op.dir \in Candidates \ Published /\ op.dir # own /\ op.src \in Names
        /\ op.src # own
    BY <1>1 DEF CopyInv, CodeInv, SourceInv, Settled
  <2>. QED BY <2>1, <1>6, <1>9 DEF CopyInv, CodeInv, Alike
<1>12. OpInv'
  <2>1. /\ op.kind = "snapshot" => op.src = Prod \/ op.src \in Published'
        /\ op.pc \in {"recover", "prepare"} => op.dir \in Candidates
        /\ op.pc = "prepare" => op.src # None
    BY <1>6 DEF OpInv, CodeInv
  <2>2. op.pc = "recover" => op.dir \notin Published' /\ rel'[op.dir].status # "validated"
    BY <1>6, <1>7 DEF OpInv, CodeInv
  <2>3. op.pc \in {"vindex", "vseal", "stage"} => Settled(op.dir)'
    BY <1>1 DEF OpInv, CodeInv, Settled
  <2>4. op.pc = "vseal" /\ op.valid => Complete(op.dir)' /\ coll'[op.dir] # NoColl
    BY <1>5 DEF OpInv, CodeInv, Settled, OpTyped, CodeTyped
  <2>. QED BY <2>1, <2>2, <2>3, <2>4 DEF OpInv
<1>. QED BY <1>3, <1>4, <1>8, <1>10, <1>11, <1>12

\* A step of op may change one release of its own, which is not the job's.
LEMMA OpFrame ==
    ASSUME CodeInv, CodeTyped', UNCHANGED <<job, marker>>, NEW own,
           \A c \in Candidates : c # own => Alike(rel[c], rel'[c]),
           \A c \in Candidates : coll[c] # NoColl => coll'[c] # NoColl,
           job.kind = "build" => job.dir # own,
           job.kind = "build" /\ OpMakes' => op'.dir # job.dir,
           current.active # None => current'.active # None
    PROVE  BuildInv' /\ PlanInv' /\ LibrariesInv' /\ DiffInv'
<1>1. job.kind = "build" => job.dir \in Candidates /\ Alike(rel[job.dir], rel'[job.dir])
  BY DEF CodeInv, BuildInv
<1>2. BuildInv' BY <1>1 DEF CodeInv, BuildInv, Alike
<1>3. PlanInv' BY <1>1 DEF CodeInv, PlanInv, Alike
<1>4. LibrariesInv'
  <2>. SUFFICES ASSUME job.kind = "build", job.pc # "error", rel'[job.dir].eligible, ~CleanRaces
                PROVE  /\ \A l \in Libraries \ job.todo : rel'[job.dir].norm[File(l)] # 0
                       /\ job.pc # "libs" => rel'[job.dir].norm[File(job.lib)] # 0
    BY DEF LibrariesInv
  <2>1. job.pc # "libs" => job.lib \in Libraries
    BY DEF CodeInv, BuildInv, CodeTyped, JobTyped
  <2>. QED BY <1>1, <2>1 DEF CodeInv, LibrariesInv, Alike
<1>5. DiffInv' BY DEF CodeInv, DiffInv
<1>. QED BY <1>2, <1>3, <1>4, <1>5

LEMMA AlikeSelf == \A r, s : r = s => Alike(r, s) /\ SamePoints(r, s)
BY DEF Alike, SamePoints
-----------------------------------------------------------------------------
(* Initial states.                                                         *)

LEMMA CodeInitially ==
    ASSUME Init PROVE CodeInv
<1>. DEFINE files == [d \in Docs |-> IF d[1] = "file" THEN 1 ELSE 0]
<1>. Prod \notin Candidates /\ None \notin Names /\ Prod \in Names /\ Candidates \subseteq Names
  BY CodeReleaseConstants DEF Names
<1>1. NoDocs \in Files /\ files \in Files
  BY CodeReleaseConstants DEF NoDocs, Files
<1>2. NoRelease \in Releases
  BY <1>1, CodeReleaseConstants DEF NoRelease, Releases, Seals, Counts
<1>3. rel = [c \in Names |-> IF c # Prod THEN NoRelease
                 ELSE [NoRelease EXCEPT !.norm = files, !.rows = files,
                                        !.chunks = files, !.runs = 1]]
  BY DEF Init
<1>4. rel \in [Names -> Releases]
  BY <1>1, <1>2, <1>3 DEF Releases
<1>5. coll \in [Names -> Collections]
  BY DEF Init, Collections
<1>6. CodeTyped
  <2>1. marker \in [Libraries -> Revs] /\ checkouts \in [Libraries -> SUBSET Revs]
    <3>1. marker = [l \in Libraries |-> 1] /\ checkouts = [l \in Libraries |-> {1}]
      BY DEF Init
    <3>. QED BY <3>1, BoundFacts
  <2>2. JobTyped
    <3>1. job = NoJob BY DEF Init
    <3>. QED BY <3>1, BoundFacts DEF JobTyped, NoJob
  <2>3. OpTyped BY CodeReleaseConstants DEF Init, OpTyped, NoOp
  <2>4. notes \subseteq Libraries /\ staged \in Candidates \cup {None}
    BY DEF Init
  <2>5. current \in [active : Names \cup {None}, prev : Names \cup {None}]
    BY DEF Init
  <2>6. snaps \in Seq(Snapshots)
    <3>1. snaps = <<>> BY DEF Init
    <3>. QED BY <3>1
  <2>. QED BY <1>4, <1>5, <2>1, <2>2, <2>3, <2>4, <2>5, <2>6 DEF CodeTyped
<1>7. \A c \in Candidates : rel[c].status = "absent"
  BY <1>3 DEF NoRelease
<1>8. SettledInv /\ PublishedInv
  BY <1>7 DEF SettledInv, PublishedInv, Settled, Published, Init
<1>9. ProdInv
  <2>1. coll[Prod] \subseteq Points BY DEF Init
  <2>2. coll[Prod] # NoColl BY <2>1, PointFacts
  <2>3. \A l \in Libraries : files[File(l)] = 1 BY DocFacts
  <2>4. rel[Prod].norm = files /\ rel[Prod].rows = files /\ rel[Prod].chunks = files
    BY <1>3 DEF NoRelease
  <2>5. FilesIndexed(rel[Prod]) /\ \A l \in Libraries : rel[Prod].rows[File(l)] # 0
    BY <2>3, <2>4 DEF FilesIndexed
  <2>6. op.kind = "idle" BY DEF Init, NoOp
  <2>. QED BY <2>2, <2>5, <2>6 DEF ProdInv
<1>10. SourcesInv BY DEF SourcesInv, Init, NoJob, NoOp
<1>11. BuildInv /\ PlanInv /\ LibrariesInv /\ DiffInv
  BY DEF BuildInv, PlanInv, LibrariesInv, DiffInv, Init, NoJob
<1>12. SourceInv /\ CopyInv /\ OpInv
  BY DEF SourceInv, CopyInv, OpInv, OpMakes, Init, NoOp
<1>. QED BY <1>6, <1>8, <1>9, <1>10, <1>11, <1>12 DEF CodeInv

-----------------------------------------------------------------------------
(* The steps of the job.                                                   *)

\* Steps that end in a sync, or in no job, and touch no release.
LEMMA SyncFrame ==
    ASSUME CodeInv, CodeTyped', SourcesInv', UNCHANGED <<rel, coll, served, op>>,
           job'.kind \in {"idle", "sync"}
    PROVE  CodeInv'
<1>1. None \notin Names BY CodeReleaseConstants DEF Names
<1>2. \A c \in Names : Alike(rel[c], rel'[c]) /\ SamePoints(coll[c], coll'[c])
  BY DEF Alike, SamePoints
<1>3. SettledInv' /\ ProdInv' /\ PublishedInv' /\ SourceInv' /\ CopyInv' /\ OpInv'
  BY <1>1, <1>2, JobFrame DEF served
<1>4. BuildInv' /\ PlanInv' /\ LibrariesInv' /\ DiffInv'
  BY DEF BuildInv, PlanInv, LibrariesInv, DiffInv
<1>. QED BY <1>3, <1>4 DEF CodeInv

LEMMA SyncStartStep ==
    ASSUME CodeInv, NEW l \in Libraries, NEW v \in Revs, SyncStart(l, v)
    PROVE  CodeInv'
<1>1. CodeTyped'
  <2>1. job'.kind = "sync" /\ job'.pc \in {"notes", "checkout"} /\ job'.lib = l /\ job'.rev = v
    BY DEF SyncStart, NoJob
  <2>2. job' = [NoJob EXCEPT !.kind = "sync", !.lib = l, !.rev = v, !.pc = job'.pc]
    BY <2>1 DEF SyncStart, NoJob
  <2>3. JobTyped'
    BY <2>1, <2>2, BoundFacts DEF NoJob, JobTyped
  <2>. QED BY <2>3 DEF CodeInv, CodeTyped, SyncStart, sources, served, OpTyped
<1>2. SourcesInv' BY DEF CodeInv, SourcesInv, SyncStart, NoJob, sources
<1>. QED BY <1>1, <1>2, SyncFrame DEF SyncStart, NoJob

LEMMA SyncCheckoutStep ==
    ASSUME CodeInv, SyncCheckout PROVE CodeInv'
<1>1. job.kind = "sync" /\ job.lib \in Libraries /\ job.rev \in Revs
  BY DEF CodeInv, CodeTyped, JobTyped, SyncCheckout, Writing
<1>2. CodeTyped'
  <2>1. JobTyped' BY <1>1 DEF SyncCheckout, JobTyped, CodeInv, CodeTyped
  <2>. QED BY <1>1, <2>1 DEF CodeInv, CodeTyped, SyncCheckout, served, OpTyped
<1>3. SourcesInv' BY <1>1 DEF CodeInv, CodeTyped, SourcesInv, SyncCheckout, JobTyped
<1>. QED BY <1>1, <1>2, <1>3, SyncFrame DEF SyncCheckout, CodeInv, CodeTyped, JobTyped

LEMMA SyncMarkerStep ==
    ASSUME CodeInv, SyncMarker PROVE CodeInv'
<1>1. job.kind = "sync" /\ job.lib \in Libraries /\ job.rev \in Revs
  BY DEF CodeInv, CodeTyped, JobTyped, SyncMarker, Writing
<1>2. CodeTyped'
  <2>1. JobTyped' BY <1>1 DEF SyncMarker, JobTyped, CodeInv, CodeTyped
  <2>. QED BY <1>1, <2>1 DEF CodeInv, CodeTyped, SyncMarker, served, OpTyped
<1>3. SourcesInv' BY <1>1 DEF CodeInv, CodeTyped, SourcesInv, SyncMarker, JobTyped
<1>. QED BY <1>1, <1>2, <1>3, SyncFrame DEF SyncMarker, CodeInv, CodeTyped, JobTyped

\* The steps after which no task runs and no file changed.
LEMMA JobEndsStep ==
    ASSUME CodeInv, SyncFails \/ SyncNotes \/ JobDies PROVE CodeInv'
<1>1. /\ job' = NoJob
      /\ UNCHANGED <<checkouts, marker, rel, coll, served, snaps, op>>
  BY DEF SyncFails, SyncNotes, JobDies, sources
<1>2. notes' \subseteq Libraries
  <2>1. CASE SyncNotes
    <3>1. job.lib \in Libraries
      BY <2>1 DEF CodeInv, CodeTyped, JobTyped, SyncNotes, Writing
    <3>. QED BY <2>1, <3>1 DEF SyncNotes, FetchedNotes, CodeInv, CodeTyped
  <2>2. CASE SyncFails \/ JobDies
    BY <2>2 DEF SyncFails, JobDies, sources, CodeInv, CodeTyped
  <2>. QED BY <2>1, <2>2
<1>3. CodeTyped'
  <2>1. JobTyped' BY <1>1, CodeReleaseConstants DEF NoJob, JobTyped
  <2>. QED BY <1>1, <1>2, <2>1 DEF CodeInv, CodeTyped, served, OpTyped
<1>4. SourcesInv' BY <1>1 DEF CodeInv, SourcesInv, NoJob
<1>. QED BY <1>1, <1>3, <1>4, SyncFrame DEF NoJob

\* A step of a build, and of a diff, that goes on with it.
LEMMA BuildFrame ==
    ASSUME CodeInv, CodeTyped', job.kind = "build", job'.kind = "build",
           job'.dir = job.dir, UNCHANGED <<sources, served, op>>,
           rel'[job.dir].status = "building",
           \A c \in Names : c # job.dir => Alike(rel[c], rel'[c]) /\ SamePoints(coll[c], coll'[c]),
           BuildInv', PlanInv', LibrariesInv'
    PROVE  CodeInv'
<1>1. /\ job.dir \in Candidates /\ rel[job.dir].status = "building"
      /\ OpMakes => op.dir # job.dir
  BY DEF CodeInv, BuildInv
<1>2. SettledInv' /\ ProdInv' /\ PublishedInv' /\ SourceInv' /\ CopyInv' /\ OpInv'
  BY <1>1, JobFrame DEF served
<1>3. SourcesInv'
  BY DEF CodeInv, CodeTyped, JobTyped, SourcesInv, sources, Writing
<1>4. DiffInv' BY DEF DiffInv
<1>. QED BY <1>2, <1>3, <1>4 DEF CodeInv

LEMMA DiffFrame ==
    ASSUME CodeInv, CodeTyped', job'.kind = "diff" \/ job' = NoJob,
           UNCHANGED <<sources, served, op>>,
           \A c \in Names : Alike(rel[c], rel'[c]) /\ SamePoints(coll[c], coll'[c]),
           DiffInv'
    PROVE  CodeInv'
<1>1. None \notin Names BY CodeReleaseConstants DEF Names
<1>2. SettledInv' /\ ProdInv' /\ PublishedInv' /\ SourceInv' /\ CopyInv' /\ OpInv'
  BY <1>1, JobFrame DEF served
<1>3. job'.kind \in {"diff", "idle"} /\ job'.pc # "marker"
  BY DEF CodeTyped, JobTyped, NoJob, Writing
<1>4. SourcesInv'
  BY <1>3 DEF CodeInv, SourcesInv, sources
<1>5. BuildInv' /\ PlanInv' /\ LibrariesInv'
  BY <1>3 DEF BuildInv, PlanInv, LibrariesInv
<1>. QED BY <1>2, <1>4, <1>5 DEF CodeInv

\* The manifest that prepare writes.
Prepare(e, scope) ==
    [NoRelease EXCEPT !.status = "building", !.eligible = e, !.scope = scope]

LEMMA PrepareTyped ==
    ASSUME NEW e \in BOOLEAN, NEW scope \in SUBSET (Docs \cup {None})
    PROVE  /\ Prepare(e, scope) \in Releases /\ Prepare(e, scope).status = "building"
           /\ Prepare(e, scope).eligible = e /\ Prepare(e, scope).scope = scope
           /\ \A l \in Libraries : /\ Prepare(e, scope).norm[File(l)] = 0
                                    /\ Prepare(e, scope).rows[File(l)] = 0
                                    /\ Prepare(e, scope).chunks[File(l)] = 0
<1>1. NoDocs \in Files /\ \A d \in Docs : NoDocs[d] = 0
  BY BoundFacts DEF NoDocs, Files
<1>2. NoRelease \in Releases
  BY <1>1 DEF NoRelease, Releases, Seals, Counts
<1>. QED BY <1>1, <1>2, DocFacts DEF NoRelease, Releases, Prepare

LEMMA BuildStartStep ==
    ASSUME CodeInv, NEW c \in Candidates, NEW libs \in SUBSET Libraries, NEW e \in BOOLEAN,
           BuildStart(c, libs, e)
    PROVE  CodeInv'
<1>0. PICK complete \in BOOLEAN : complete = (libs = Libraries /\ e)
  OBVIOUS
<1>. DEFINE r == Prepare(complete, {None})
<1>1. c \in Names /\ None \notin Names BY CodeReleaseConstants DEF Names
<1>2. /\ rel[c].status = "absent" /\ rel' = [rel EXCEPT ![c] = r]
      /\ job' = [NoJob EXCEPT !.kind = "build", !.pc = "libs", !.dir = c,
                              !.todo = libs, !.fresh = TRUE]
      /\ job = NoJob /\ UNCHANGED <<sources, coll, served, snaps, op>>
  BY <1>0 DEF BuildStart, Prepared, Prepare
<1>3. /\ r \in Releases /\ r.status = "building" /\ r.eligible = complete
      /\ r.scope = {None}
      /\ \A l \in Libraries : /\ r.norm[File(l)] = 0
                               /\ r.rows[File(l)] = 0
                               /\ r.chunks[File(l)] = 0
  BY PrepareTyped
<1>. HIDE DEF r
<1>4. /\ job'.kind = "build" /\ job'.pc = "libs" /\ job'.dir = c /\ job'.todo = libs
      /\ job'.fresh = TRUE /\ job'.plan = {}
  BY <1>2 DEF NoJob
<1>5. CodeTyped'
  <2>1. JobTyped' BY <1>1, <1>2, BoundFacts DEF JobTyped, NoJob
  <2>2. rel' \in [Names -> Releases] BY <1>1, <1>2, <1>3 DEF CodeInv, CodeTyped
  <2>. QED BY <1>2, <2>1, <2>2 DEF CodeInv, CodeTyped, sources, served, OpTyped
<1>6. rel'[c] = r BY <1>1, <1>2 DEF CodeInv, CodeTyped
<1>7. \A d \in Names : d # c => Alike(rel[d], rel'[d]) /\ SamePoints(coll[d], coll'[d])
  BY <1>2 DEF Alike, SamePoints, CodeInv, CodeTyped
<1>8. OpMakes => op.dir # c
  BY <1>2 DEF CodeInv, CopyInv
<1>9. SettledInv' /\ ProdInv' /\ PublishedInv' /\ SourceInv' /\ CopyInv' /\ OpInv'
  BY <1>1, <1>2, <1>3, <1>5, <1>6, <1>7, <1>8, JobFrame DEF served
<1>10. SourcesInv'
  BY <1>2, <1>4 DEF CodeInv, SourcesInv, sources
<1>11. BuildInv' /\ PlanInv'
  BY <1>2, <1>3, <1>4, <1>6, <1>8 DEF BuildInv, PlanInv, OpMakes, Writing
<1>12. LibrariesInv' /\ DiffInv'
  BY <1>0, <1>3, <1>4, <1>6 DEF LibrariesInv, DiffInv
<1>. QED BY <1>5, <1>9, <1>10, <1>11, <1>12 DEF CodeInv

LEMMA InputFacts ==
    ASSUME CodeTyped, NEW l \in Libraries
    PROVE  /\ Inputs(l) \subseteq Docs
           /\ \A k \in Libraries : File(k) \in Inputs(l) <=> k = l /\ marker[l] \in checkouts[l]
BY DEF Inputs, Docs, File

\* The normalized manifest after Normalize(c, l).
LEMMA Normalized ==
    ASSUME CodeTyped, NEW c \in Candidates, NEW l \in Libraries, Normalize(c, l)
    PROVE  /\ rel' \in [Names -> Releases]
           /\ \A d \in Names : d # c => rel'[d] = rel[d]
           /\ \E F \in Files :
                /\ rel' = [rel EXCEPT ![c].norm = F]
                /\ \A k \in Libraries :
                     rel'[c].norm[File(k)] =
                        IF k = l /\ marker[l] \in checkouts[l] THEN marker[l]
                        ELSE rel[c].norm[File(k)]
<1>. DEFINE F == [d \in Docs |-> IF d \in Inputs(l) THEN Revision(d) ELSE rel[c].norm[d]]
<1>1. c \in Names BY DEF Names
<1>2. rel[c] \in Releases /\ rel[c].norm \in Files
  BY <1>1 DEF CodeTyped, Releases
<1>3. F \in Files
  BY <1>2, RevisionTyped, BoundFacts DEF Files
<1>4. rel' = [rel EXCEPT ![c].norm = F]
  BY <1>1 DEF Normalize, CodeTyped
<1>5. \A k \in Libraries :
         F[File(k)] = IF k = l /\ marker[l] \in checkouts[l] THEN marker[l]
                      ELSE rel[c].norm[File(k)]
  BY InputFacts, RevisionTyped, DocFacts
<1>. HIDE DEF F
<1>6. rel' \in [Names -> Releases]
  BY <1>1, <1>2, <1>3, <1>4 DEF CodeTyped, Releases
<1>7. rel'[c].norm = F /\ \A d \in Names : d # c => rel'[d] = rel[d]
  BY <1>1, <1>2, <1>4 DEF CodeTyped, Releases
<1>. QED BY <1>3, <1>4, <1>5, <1>6, <1>7

LEMMA BuildLibraryStep ==
    ASSUME CodeInv, NEW l \in Libraries, BuildLibrary(l) PROVE CodeInv'
<1>. DEFINE c == job.dir  plan == Changed(rel[c], Inputs(l))
<1>1. /\ job.kind = "build" /\ job.pc = "libs" /\ c \in Candidates /\ c \in Names
      /\ Normalize(c, l) /\ EnsureCollection(c, job.fresh) /\ job.plan = {}
      /\ job' = [job EXCEPT !.pc = "docs", !.lib = l, !.fresh = FALSE, !.plan = plan]
      /\ UNCHANGED <<sources, served, snaps, op>>
  BY DEF BuildLibrary, CodeInv, BuildInv, Names
<1>2. PICK F \in Files :
        /\ rel' \in [Names -> Releases] /\ \A d \in Names : d # c => rel'[d] = rel[d]
        /\ rel' = [rel EXCEPT ![c].norm = F]
        /\ \A k \in Libraries :
             rel'[c].norm[File(k)] =
                IF k = l /\ marker[l] \in checkouts[l] THEN marker[l]
                ELSE rel[c].norm[File(k)]
  BY <1>1, Normalized DEF CodeInv
<1>3. /\ rel'[c].status = rel[c].status /\ rel'[c].eligible = rel[c].eligible
      /\ rel'[c].scope = rel[c].scope /\ rel'[c].rows = rel[c].rows
      /\ rel'[c].chunks = rel[c].chunks
  BY <1>1, <1>2 DEF CodeInv, CodeTyped, Releases
<1>4. /\ coll' \in [Names -> Collections] /\ coll'[c] # NoColl
      /\ \A d \in Names : d # c => coll'[d] = coll[d]
  <2>1. {} \in Collections /\ {} # NoColl BY DEF Collections, NoColl
  <2>2. coll' = [coll EXCEPT ![c] = IF coll[c] = NoColl THEN {} ELSE coll[c]]
    BY <1>1 DEF EnsureCollection
  <2>. QED BY <1>1, <2>1, <2>2 DEF CodeInv, CodeTyped
<1>5. /\ plan \subseteq Docs
      /\ \A k \in Libraries :
           k = l /\ marker[l] \in checkouts[l] /\ rel[c].rows[File(k)] # marker[k] =>
             File(k) \in plan
  BY InputFacts, RevisionTyped, DocFacts DEF Changed, CodeInv
<1>. HIDE DEF plan
<1>6. /\ job'.kind = "build" /\ job'.pc = "docs" /\ job'.lib = l /\ job'.fresh = FALSE
      /\ job'.plan = plan /\ job'.dir = c /\ job'.todo = job.todo /\ job'.failed = job.failed
  BY <1>1 DEF CodeInv, CodeTyped, JobTyped
<1>7. CodeTyped'
  <2>1. JobTyped' BY <1>1, <1>5 DEF JobTyped, CodeInv, CodeTyped
  <2>. QED BY <1>1, <1>2, <1>4, <2>1 DEF CodeInv, CodeTyped, sources, served, OpTyped
<1>8. BuildInv'
  BY <1>1, <1>3, <1>4, <1>6 DEF CodeInv, BuildInv, OpMakes, Writing
<1>9. PlanInv'
  <2>. SUFFICES ASSUME ~job.failed, NEW k \in Libraries
                PROVE  /\ rel'[c].norm[File(k)] \in {0, marker[k]}
                       /\ rel'[c].rows[File(k)] # 0 =>
                            rel'[c].rows[File(k)] = marker[k] /\ rel'[c].chunks[File(k)] = marker[k]
                       /\ rel'[c].norm[File(k)] # 0 =>
                            rel'[c].rows[File(k)] # 0 \/ File(k) \in plan
    BY <1>1, <1>6 DEF PlanInv, sources, Writing
  <2>1. /\ rel[c].norm[File(k)] \in {0, marker[k]}
        /\ rel[c].rows[File(k)] # 0 =>
             rel[c].rows[File(k)] = marker[k] /\ rel[c].chunks[File(k)] = marker[k]
        /\ rel[c].norm[File(k)] # 0 => rel[c].rows[File(k)] # 0
    BY <1>1 DEF CodeInv, PlanInv, Writing
  <2>2. marker[k] # 0
    BY BoundFacts DEF CodeInv, CodeTyped
  <2>. QED BY <1>2, <1>3, <1>5, <2>1, <2>2
<1>10. LibrariesInv'
  <2>. SUFFICES ASSUME rel[c].eligible, ~CleanRaces
                PROVE  /\ \A k \in Libraries \ job.todo : rel'[c].norm[File(k)] # 0
                       /\ rel'[c].norm[File(l)] # 0
    BY <1>3, <1>6 DEF LibrariesInv
  <2>1. \A k \in Libraries : marker[k] \in checkouts[k] /\ marker[k] # 0
    BY BoundFacts DEF CodeInv, CodeTyped, SourcesInv
  <2>2. \A k \in Libraries \ job.todo : rel[c].norm[File(k)] # 0
    BY <1>1 DEF CodeInv, LibrariesInv
  <2>. QED BY <1>2, <2>1, <2>2
<1>. QED BY <1>1, <1>2, <1>3, <1>4, <1>6, <1>7, <1>8, <1>9, <1>10, AlikeSelf, BuildFrame
       DEF CodeInv, BuildInv

\* A build that was refused, or raised, only has its failure to record.
LEMMA ErrorFrame ==
    ASSUME CodeInv, job.kind = "build", Step("error"), rel' \in [Names -> Releases],
           \A c \in Names : c # job.dir => rel'[c] = rel[c],
           rel'[job.dir].status = rel[job.dir].status,
           rel'[job.dir].scope = rel[job.dir].scope,
           UNCHANGED <<sources, coll, served, snaps, op>>
    PROVE  CodeInv'
<1>1. /\ job'.kind = "build" /\ job'.pc = "error" /\ job'.dir = job.dir
      /\ job'.fresh = job.fresh
  BY DEF Step, CodeInv, CodeTyped, JobTyped
<1>2. CodeTyped'
  <2>1. JobTyped' BY DEF Step, JobTyped, CodeInv, CodeTyped
  <2>. QED BY <2>1 DEF CodeInv, CodeTyped, sources, served, OpTyped
<1>3. BuildInv' BY <1>1 DEF CodeInv, BuildInv, OpMakes, Writing
<1>4. PlanInv' /\ LibrariesInv' BY <1>1 DEF PlanInv, LibrariesInv
<1>. QED BY <1>1, <1>2, <1>3, <1>4, AlikeSelf, BuildFrame DEF CodeInv, BuildInv

LEMMA BuildRefusedStep ==
    ASSUME CodeInv, NEW l \in Libraries, BuildRefused(l) PROVE CodeInv'
<1>1. /\ job.kind = "build" /\ job.dir \in Candidates /\ job.dir \in Names
      /\ Normalize(job.dir, l) /\ Step("error")
      /\ UNCHANGED <<sources, coll, served, snaps, op>>
  BY DEF BuildRefused, CodeInv, BuildInv, Names
<1>2. PICK F \in Files :
        /\ rel' \in [Names -> Releases]
        /\ \A d \in Names : d # job.dir => rel'[d] = rel[d]
        /\ rel' = [rel EXCEPT ![job.dir].norm = F]
  BY <1>1, Normalized DEF CodeInv
<1>3. rel'[job.dir].status = rel[job.dir].status /\ rel'[job.dir].scope = rel[job.dir].scope
  BY <1>1, <1>2 DEF CodeInv, CodeTyped, Releases
<1>. QED BY <1>1, <1>2, <1>3, ErrorFrame

LEMMA BuildRaisesStep ==
    ASSUME CodeInv, BuildRaises PROVE CodeInv'
BY ErrorFrame DEF BuildRaises, CodeInv, CodeTyped

LEMMA DiffStartStep ==
    ASSUME CodeInv, NEW l \in Libraries, DiffStart(l) PROVE CodeInv'
<1>. DEFINE F == [d \in Docs |-> CASE d = DiffDocument(l) -> Revision(d)
                                   [] d[1] = "diff" /\ d[2] = l /\ d[3] # marker[l] -> 0
                                   [] OTHER -> rel[Prod].norm[d]]
            plan == Changed(rel[Active], {DiffDocument(l)})
<1>1. Prod \in Names /\ None \notin Names /\ Active \in Names
  BY CodeReleaseConstants DEF Names, Active, CodeInv, CodeTyped
<1>2. /\ rel' = [rel EXCEPT ![Prod].norm = F]
      /\ job' = [NoJob EXCEPT !.kind = "diff", !.pc = "docs", !.dir = Active,
                              !.lib = l, !.plan = plan]
      /\ UNCHANGED <<sources, coll, served, snaps, op>>
  BY <1>1 DEF DiffStart, CodeInv, CodeTyped
<1>3. DiffDocument(l) \in Docs /\ DiffDocument(l)[1] = "diff"
  BY DEF DiffDocument, Docs, CodeInv, CodeTyped
<1>4. plan \subseteq Docs /\ \A d \in plan : d[1] = "diff"
  BY <1>3 DEF Changed
<1>5. rel[Prod] \in Releases /\ rel[Prod].norm \in Files
  BY <1>1 DEF CodeInv, CodeTyped, Releases
<1>6. F \in Files
  BY <1>5, RevisionTyped, BoundFacts DEF Files, CodeInv
<1>7. \A k \in Libraries : F[File(k)] = rel[Prod].norm[File(k)]
  BY <1>3, DocFacts
<1>. HIDE DEF F, plan
<1>8. /\ job'.kind = "diff" /\ job'.pc = "docs" /\ job'.dir = Active /\ job'.plan = plan
  BY <1>2 DEF NoJob
<1>9. CodeTyped'
  <2>1. JobTyped' BY <1>1, <1>2, <1>4, BoundFacts DEF JobTyped, NoJob
  <2>2. rel' \in [Names -> Releases] BY <1>1, <1>2, <1>5, <1>6 DEF CodeInv, CodeTyped, Releases
  <2>. QED BY <1>2, <2>1, <2>2 DEF CodeInv, CodeTyped, sources, served, OpTyped
<1>10. \A c \in Names : Alike(rel[c], rel'[c]) /\ SamePoints(coll[c], coll'[c])
  BY <1>1, <1>2, <1>5, <1>6, <1>7 DEF Alike, SamePoints, CodeInv, CodeTyped, Releases
<1>11. DiffInv'
  BY <1>1, <1>2, <1>4, <1>8 DEF DiffInv, Active, served, Writing
<1>. QED BY <1>2, <1>8, <1>9, <1>10, <1>11, DiffFrame

\* The release and the collection of a job that writes a document.
LEMMA AtDocument ==
    ASSUME CodeInv, job.pc \in {"docs"} \cup Writing
    PROVE  /\ job.kind \in {"build", "diff"} /\ job.dir \in Names
           /\ job.pc \in Writing => job.doc \in Docs
           /\ Target \in Names /\ coll[Target] \in SUBSET Points
           /\ job.kind = "build" => Target = job.dir /\ job.dir \in Candidates
           /\ job.kind = "diff" =>
                /\ \A d \in job.plan, l \in Libraries : d # File(l)
                /\ job.pc \in Writing => \A l \in Libraries : job.doc # File(l)
<1>1. job.kind \in {"build", "diff"}
  BY DEF CodeInv, CodeTyped, JobTyped, Writing
<1>2. Prod \in Names /\ Candidates \subseteq Names /\ None \notin Names
  BY CodeReleaseConstants DEF Names
<1>3. CASE job.kind = "build"
  <2>1. /\ job.dir \in Candidates /\ coll[job.dir] # NoColl
        /\ job.pc \in Writing => job.doc \in Docs
    BY <1>3 DEF CodeInv, BuildInv
  <2>2. coll[job.dir] \in Collections BY <1>2, <2>1 DEF CodeInv, CodeTyped
  <2>. QED BY <1>2, <1>3, <2>1, <2>2 DEF Target, Collections
<1>4. CASE job.kind = "diff"
  <2>1. /\ job.dir \in Names
        /\ job.dir # Prod => current.active # None
        /\ \A d \in job.plan : d \in Docs /\ d[1] = "diff"
        /\ job.pc \in Writing => job.doc \in Docs /\ job.doc[1] = "diff"
    BY <1>4 DEF CodeInv, DiffInv, CodeTyped, JobTyped
  <2>2. Target \in Names /\ coll[Target] # NoColl
    <3>1. CASE current.active # None
      BY <1>2, <1>4, <3>1
      DEF Target, Active, CodeInv, CodeTyped, ProdInv, PublishedInv, Published, Names
    <3>2. CASE current.active = None
      BY <1>2, <1>4, <2>1, <3>2 DEF Target, CodeInv, ProdInv
    <3>. QED BY <3>1, <3>2
  <2>3. coll[Target] \in Collections BY <2>2 DEF CodeInv, CodeTyped
  <2>. QED BY <1>4, <2>1, <2>2, <2>3, DocFacts DEF Collections
<1>. QED BY <1>1, <1>3, <1>4

LEMMA WriteChunksStep ==
    ASSUME CodeInv, NEW d \in Docs, WriteChunks(d) PROVE CodeInv'
<1>. DEFINE c == job.dir
<1>1. /\ job.pc = "docs" /\ d \in job.plan /\ Revision(d) \in Revs
      /\ rel' = [rel EXCEPT ![c].chunks[d] = Revision(d)]
      /\ job' = [job EXCEPT !.pc = "delete", !.doc = d, !.plan = @ \ {d}]
      /\ UNCHANGED <<sources, coll, served, snaps, op>>
  BY RevisionTyped DEF WriteChunks, CodeInv
<1>2. /\ job.kind \in {"build", "diff"} /\ c \in Names
      /\ job.kind = "build" => c \in Candidates
      /\ job.kind = "diff" => \A k \in Libraries : d # File(k)
  BY <1>1, AtDocument
<1>3. /\ job'.kind = job.kind /\ job'.pc = "delete" /\ job'.doc = d /\ job'.dir = c
      /\ job'.plan = job.plan \ {d} /\ job'.todo = job.todo /\ job'.failed = job.failed
      /\ job'.lib = job.lib /\ job'.fresh = job.fresh
  BY <1>1 DEF CodeInv, CodeTyped, JobTyped
<1>4. /\ rel' \in [Names -> Releases] /\ \A k \in Names : k # c => rel'[k] = rel[k]
      /\ rel'[c] = [rel[c] EXCEPT !.chunks[d] = Revision(d)]
      /\ rel[c] \in Releases /\ rel[c].chunks \in Files
  <2>. DEFINE G == [rel[c].chunks EXCEPT ![d] = Revision(d)]
              R == [rel[c] EXCEPT !.chunks = G]
  <2>1. rel[c] \in Releases /\ rel[c].chunks \in Files
    BY <1>2 DEF CodeInv, CodeTyped, Releases
  <2>2. G \in Files BY <1>1, <2>1, BoundFacts DEF Files
  <2>3. R \in Releases BY <2>1, <2>2 DEF Releases
  <2>4. rel' = [rel EXCEPT ![c] = R] /\ R = [rel[c] EXCEPT !.chunks[d] = Revision(d)]
    BY <1>1, <1>2, <2>1 DEF CodeInv, CodeTyped
  <2>. HIDE DEF R
  <2>. QED BY <1>2, <2>1, <2>3, <2>4 DEF CodeInv, CodeTyped
<1>5. CodeTyped'
  <2>1. JobTyped' BY <1>1, <1>2 DEF JobTyped, CodeInv, CodeTyped, Writing
  <2>. QED BY <1>1, <1>4, <2>1 DEF CodeInv, CodeTyped, sources, served, OpTyped
<1>6. /\ rel'[c].status = rel[c].status /\ rel'[c].eligible = rel[c].eligible
      /\ rel'[c].scope = rel[c].scope /\ rel'[c].norm = rel[c].norm
      /\ rel'[c].rows = rel[c].rows
      /\ rel'[c].chunks = [rel[c].chunks EXCEPT ![d] = Revision(d)]
  BY <1>4 DEF Releases
<1>7. \A k \in Libraries : rel'[c].chunks[File(k)] =
                             IF File(k) = d THEN marker[k] ELSE rel[c].chunks[File(k)]
  BY <1>4, <1>6, DocFacts, RevisionTyped DEF Files, CodeInv
<1>8. CASE job.kind = "build"
  <2>1. BuildInv' BY <1>1, <1>2, <1>3, <1>6, <1>8 DEF CodeInv, BuildInv, OpMakes, Writing
  <2>2. PlanInv'
    <3>. SUFFICES ASSUME ~job.failed, NEW k \in Libraries
                  PROVE  /\ rel'[c].norm[File(k)] \in {0, marker[k]}
                         /\ rel'[c].rows[File(k)] # 0 =>
                              /\ rel'[c].rows[File(k)] = marker[k]
                              /\ rel'[c].chunks[File(k)] = marker[k]
                         /\ d = File(k) => rel'[c].chunks[File(k)] = marker[k]
                         /\ rel'[c].norm[File(k)] # 0 =>
                              rel'[c].rows[File(k)] # 0 \/ File(k) \in job.plan \ {d} \/ d = File(k)
      BY <1>1, <1>3 DEF PlanInv, sources, Writing
    <3>1. /\ rel[c].norm[File(k)] \in {0, marker[k]}
          /\ rel[c].rows[File(k)] # 0 =>
               rel[c].rows[File(k)] = marker[k] /\ rel[c].chunks[File(k)] = marker[k]
          /\ rel[c].norm[File(k)] # 0 => rel[c].rows[File(k)] # 0 \/ File(k) \in job.plan
      BY <1>1, <1>8 DEF CodeInv, PlanInv, Writing
    <3>. QED BY <1>6, <1>7, <3>1
  <2>3. LibrariesInv' BY <1>1, <1>3, <1>6, <1>8 DEF CodeInv, LibrariesInv
  <2>. QED BY <1>1, <1>2, <1>3, <1>4, <1>5, <1>6, <1>8, <2>1, <2>2, <2>3, AlikeSelf, BuildFrame
         DEF CodeInv, BuildInv
<1>9. CASE job.kind = "diff"
  <2>1. \A k \in Names : Alike(rel[k], rel'[k]) /\ SamePoints(coll[k], coll'[k])
    BY <1>1, <1>2, <1>4, <1>6, <1>7, <1>9, AlikeSelf DEF Alike
  <2>2. DiffInv'
    BY <1>1, <1>3, <1>9 DEF CodeInv, DiffInv, served
  <2>. QED BY <1>1, <1>3, <1>5, <1>9, <2>1, <2>2, DiffFrame
<1>. QED BY <1>2, <1>8, <1>9

\* A step on the points of the document at hand, which writes no file.
LEMMA PointsStep ==
    ASSUME CodeInv, DeletePoints \/ UpsertPoints PROVE CodeInv'
<1>. DEFINE X == coll'[Target]
<1>1. /\ job.pc \in {"delete", "upsert"} /\ job.pc \in Writing
      /\ UNCHANGED <<sources, rel, served, snaps, op>>
  BY DEF DeletePoints, UpsertPoints, Writing
<1>2. /\ job.kind \in {"build", "diff"} /\ job.dir \in Names
      /\ job.doc \in Docs /\ Revision(job.doc) \in Revs
      /\ Target \in Names /\ coll[Target] \in SUBSET Points
      /\ job.kind = "build" => Target = job.dir /\ job.dir \in Candidates
      /\ job.kind = "diff" => \A l \in Libraries : job.doc # File(l)
  BY <1>1, AtDocument, RevisionTyped DEF CodeInv
<1>3. /\ job'.kind = job.kind /\ job'.pc \in Writing /\ job'.doc = job.doc
      /\ job'.dir = job.dir /\ job'.plan = job.plan /\ job'.todo = job.todo
      /\ job'.failed = job.failed /\ job'.lib = job.lib /\ job'.fresh = job.fresh
      /\ JobTyped'
  <2>1. CASE DeletePoints
    BY <1>1, <1>2, <2>1, BoundFacts DEF DeletePoints, CodeInv, CodeTyped, JobTyped, Writing
  <2>2. CASE UpsertPoints
    <3>1. job.piece # Pieces => job.piece + 1 \in 1 .. Pieces
      BY CodeReleaseConstants DEF CodeInv, CodeTyped, JobTyped
    <3>2. CASE job.piece = Pieces
      BY <1>1, <1>2, <2>2, <3>2 DEF UpsertPoints, CodeInv, CodeTyped, JobTyped, Writing
    <3>3. CASE job.piece # Pieces
      BY <1>1, <1>2, <2>2, <3>1, <3>3 DEF UpsertPoints, CodeInv, CodeTyped, JobTyped, Writing
    <3>. QED BY <3>2, <3>3
  <2>. QED BY <2>1, <2>2
<1>4. /\ coll' = [coll EXCEPT ![Target] = X] /\ X \in SUBSET Points
      /\ \A p \in Points : p[1] # job.doc => (p \in coll[Target] <=> p \in X)
  <2>1. CASE DeletePoints
    <3>1. coll' = [coll EXCEPT ![Target] = {p \in coll[Target] : p[1] # job.doc}]
      BY <2>1 DEF DeletePoints, OfDocument
    <3>. QED BY <1>2, <3>1 DEF CodeInv, CodeTyped
  <2>2. CASE UpsertPoints
    <3>. DEFINE q == <<job.doc, Revision(job.doc), job.piece>>
    <3>1. coll' = [coll EXCEPT ![Target] = coll[Target] \cup {q}]
      BY <2>2 DEF UpsertPoints
    <3>2. q \in Points /\ q[1] = job.doc
      BY <1>2, PointFacts DEF CodeInv, CodeTyped, JobTyped
    <3>. HIDE DEF q
    <3>. QED BY <1>2, <3>1, <3>2 DEF CodeInv, CodeTyped
  <2>. QED BY <2>1, <2>2
<1>. HIDE DEF X
<1>5. X \in Collections /\ X # NoColl /\ coll[Target] # NoColl
  BY <1>2, <1>4, PointFacts DEF Collections
<1>6. CodeTyped'
  <2>1. coll' \in [Names -> Collections] BY <1>4, <1>5 DEF CodeInv, CodeTyped
  <2>. QED BY <1>1, <1>3, <2>1 DEF CodeInv, CodeTyped, sources, served, OpTyped
<1>7. /\ \A k \in Names : k # Target => coll'[k] = coll[k]
      /\ coll'[Target] = X
  BY <1>2, <1>4 DEF CodeInv, CodeTyped
<1>8. CASE job.kind = "build"
  <2>1. BuildInv' BY <1>1, <1>2, <1>3, <1>5, <1>7, <1>8 DEF CodeInv, BuildInv, OpMakes, Writing
  <2>2. PlanInv' BY <1>1, <1>3, <1>8 DEF CodeInv, PlanInv, sources, Writing
  <2>3. LibrariesInv' BY <1>1, <1>3, <1>8 DEF CodeInv, LibrariesInv, Writing
  <2>. QED BY <1>1, <1>2, <1>3, <1>6, <1>7, <1>8, <2>1, <2>2, <2>3, AlikeSelf, BuildFrame
         DEF CodeInv, BuildInv
<1>9. CASE job.kind = "diff"
  <2>1. SamePoints(coll[Target], coll'[Target])
    BY <1>2, <1>4, <1>5, <1>7, <1>9 DEF SamePoints
  <2>2. \A k \in Names : Alike(rel[k], rel'[k]) /\ SamePoints(coll[k], coll'[k])
    BY <1>1, <1>7, <2>1, AlikeSelf
  <2>3. DiffInv'
    BY <1>1, <1>3, <1>9 DEF CodeInv, DiffInv, served
  <2>. QED BY <1>1, <1>3, <1>6, <1>9, <2>2, <2>3, DiffFrame
<1>. QED BY <1>2, <1>8, <1>9

LEMMA UpsertRowStep ==
    ASSUME CodeInv, UpsertRow PROVE CodeInv'
<1>. DEFINE c == job.dir  d == job.doc
<1>1. /\ job.pc = "row" /\ job.pc \in Writing /\ job' = [job EXCEPT !.pc = "docs"]
      /\ rel' = [rel EXCEPT ![c].rows[d] = Revision(d)]
      /\ UNCHANGED <<sources, coll, served, snaps, op>>
  BY DEF UpsertRow, Writing, Step
<1>2. /\ job.kind \in {"build", "diff"} /\ c \in Names /\ d \in Docs /\ Revision(d) \in Revs
      /\ job.kind = "build" => c \in Candidates
      /\ job.kind = "diff" => \A k \in Libraries : d # File(k)
  BY <1>1, AtDocument, RevisionTyped DEF CodeInv
<1>3. /\ job'.kind = job.kind /\ job'.pc = "docs" /\ job'.dir = c
      /\ job'.plan = job.plan /\ job'.todo = job.todo /\ job'.failed = job.failed
      /\ job'.lib = job.lib /\ job'.fresh = job.fresh
  BY <1>1 DEF CodeInv, CodeTyped, JobTyped
<1>4. /\ rel' \in [Names -> Releases] /\ \A k \in Names : k # c => rel'[k] = rel[k]
      /\ rel'[c] = [rel[c] EXCEPT !.rows[d] = Revision(d)]
      /\ rel[c] \in Releases /\ rel[c].rows \in Files
  <2>. DEFINE G == [rel[c].rows EXCEPT ![d] = Revision(d)]
              R == [rel[c] EXCEPT !.rows = G]
  <2>1. rel[c] \in Releases /\ rel[c].rows \in Files
    BY <1>2 DEF CodeInv, CodeTyped, Releases
  <2>2. G \in Files BY <1>2, <2>1, BoundFacts DEF Files
  <2>3. R \in Releases BY <2>1, <2>2 DEF Releases
  <2>4. rel' = [rel EXCEPT ![c] = R] /\ R = [rel[c] EXCEPT !.rows[d] = Revision(d)]
    BY <1>1, <1>2, <2>1 DEF CodeInv, CodeTyped
  <2>. HIDE DEF R
  <2>. QED BY <1>2, <2>1, <2>3, <2>4 DEF CodeInv, CodeTyped
<1>5. CodeTyped'
  <2>1. JobTyped' BY <1>1, <1>2 DEF JobTyped, CodeInv, CodeTyped
  <2>. QED BY <1>1, <1>4, <2>1 DEF CodeInv, CodeTyped, sources, served, OpTyped
<1>6. /\ rel'[c].status = rel[c].status /\ rel'[c].eligible = rel[c].eligible
      /\ rel'[c].scope = rel[c].scope /\ rel'[c].norm = rel[c].norm
      /\ rel'[c].chunks = rel[c].chunks
      /\ rel'[c].rows = [rel[c].rows EXCEPT ![d] = Revision(d)]
  BY <1>4 DEF Releases
<1>7. \A k \in Libraries : rel'[c].rows[File(k)] =
                             IF File(k) = d THEN marker[k] ELSE rel[c].rows[File(k)]
  BY <1>4, <1>6, DocFacts, RevisionTyped DEF Files, CodeInv
<1>8. CASE job.kind = "build"
  <2>1. BuildInv' BY <1>1, <1>2, <1>3, <1>6, <1>8 DEF CodeInv, BuildInv, OpMakes, Writing
  <2>2. PlanInv'
    <3>. SUFFICES ASSUME ~job.failed, NEW k \in Libraries
                  PROVE  /\ rel'[c].norm[File(k)] \in {0, marker[k]}
                         /\ rel'[c].rows[File(k)] # 0 =>
                              /\ rel'[c].rows[File(k)] = marker[k]
                              /\ rel'[c].chunks[File(k)] = marker[k]
                         /\ rel'[c].norm[File(k)] # 0 =>
                              rel'[c].rows[File(k)] # 0 \/ File(k) \in job.plan
      BY <1>1, <1>3 DEF PlanInv, sources, Writing
    <3>1. /\ rel[c].norm[File(k)] \in {0, marker[k]}
          /\ rel[c].rows[File(k)] # 0 =>
               rel[c].rows[File(k)] = marker[k] /\ rel[c].chunks[File(k)] = marker[k]
          /\ d = File(k) => rel[c].chunks[File(k)] = marker[k]
          /\ rel[c].norm[File(k)] # 0 =>
               rel[c].rows[File(k)] # 0 \/ File(k) \in job.plan \/ d = File(k)
      BY <1>1, <1>8 DEF CodeInv, PlanInv
    <3>. QED BY <1>6, <1>7, <3>1
  <2>3. LibrariesInv' BY <1>1, <1>3, <1>6, <1>8 DEF CodeInv, LibrariesInv
  <2>. QED BY <1>1, <1>2, <1>3, <1>4, <1>5, <1>6, <1>8, <2>1, <2>2, <2>3, AlikeSelf, BuildFrame
         DEF CodeInv, BuildInv
<1>9. CASE job.kind = "diff"
  <2>1. \A k \in Names : Alike(rel[k], rel'[k]) /\ SamePoints(coll[k], coll'[k])
    BY <1>1, <1>2, <1>4, <1>6, <1>7, <1>9, AlikeSelf DEF Alike
  <2>2. DiffInv'
    BY <1>1, <1>3, <1>9 DEF CodeInv, DiffInv, served, Writing
  <2>. QED BY <1>1, <1>3, <1>5, <1>9, <2>1, <2>2, DiffFrame
<1>. QED BY <1>2, <1>8, <1>9

LEMMA DocumentFailsStep ==
    ASSUME CodeInv, DocumentFails PROVE CodeInv'
<1>1. PICK plan \in SUBSET job.plan :
        /\ job.pc \in {"docs"} \cup Writing
        /\ job' = [job EXCEPT !.pc = "docs", !.plan = plan, !.failed = TRUE]
        /\ UNCHANGED <<sources, rel, coll, served, snaps, op>>
  <2>1. job \in [kind : {job.kind}, pc : {job.pc}, dir : {job.dir}, lib : {job.lib},
                 rev : {job.rev}, todo : {job.todo}, plan : {job.plan}, doc : {job.doc},
                 piece : {job.piece}, failed : {job.failed}, fresh : {job.fresh}]
    BY DEF CodeInv, CodeTyped, JobTyped
  <2>0. UNCHANGED <<sources, rel, coll, served, snaps, op>>
    BY DEF DocumentFails
  <2>2. CASE job.pc \in {"delete", "upsert", "row"}
                /\ job' = [job EXCEPT !.pc = "docs", !.failed = TRUE]
    <3>1. job' = [job EXCEPT !.pc = "docs", !.plan = job.plan, !.failed = TRUE]
      BY <2>1, <2>2
    <3>. QED BY <2>0, <2>2, <3>1 DEF Writing
  <2>3. CASE \E d \in job.plan :
               /\ job.pc = "docs"
               /\ job' = [job EXCEPT !.plan = @ \ {d}, !.failed = TRUE]
    <3>1. PICK d \in job.plan :
            job.pc = "docs" /\ job' = [job EXCEPT !.plan = job.plan \ {d}, !.failed = TRUE]
      BY <2>3
    <3>2. job' = [job EXCEPT !.pc = "docs", !.plan = job.plan \ {d}, !.failed = TRUE]
      BY <2>1, <3>1
    <3>3. job.plan \ {d} \in SUBSET job.plan OBVIOUS
    <3>. QED BY <2>0, <3>1, <3>2, <3>3
  <2>. QED BY <2>2, <2>3 DEF DocumentFails
<1>2. job.kind \in {"build", "diff"} /\ (job.kind = "build" => job.dir \in Candidates)
  BY <1>1, AtDocument
<1>3. /\ job'.kind = job.kind /\ job'.pc = "docs" /\ job'.dir = job.dir /\ job'.plan = plan
      /\ job'.todo = job.todo /\ job'.failed = TRUE /\ job'.lib = job.lib
      /\ job'.fresh = job.fresh
  BY <1>1 DEF CodeInv, CodeTyped, JobTyped
<1>4. CodeTyped'
  <2>1. JobTyped' BY <1>1, <1>2 DEF JobTyped, CodeInv, CodeTyped
  <2>. QED BY <1>1, <2>1 DEF CodeInv, CodeTyped, sources, served, OpTyped
<1>5. \A k \in Names : Alike(rel[k], rel'[k]) /\ SamePoints(coll[k], coll'[k])
  BY <1>1, AlikeSelf
<1>6. CASE job.kind = "build"
  <2>1. BuildInv' BY <1>1, <1>3, <1>6 DEF CodeInv, BuildInv, OpMakes, Writing
  <2>2. PlanInv' BY <1>3 DEF PlanInv
  <2>3. LibrariesInv' BY <1>1, <1>3, <1>6 DEF CodeInv, LibrariesInv, Writing
  <2>. QED BY <1>1, <1>3, <1>4, <1>5, <1>6, <2>1, <2>2, <2>3, BuildFrame DEF CodeInv, BuildInv
<1>7. CASE job.kind = "diff"
  <2>1. DiffInv' BY <1>1, <1>3, <1>7 DEF CodeInv, DiffInv, served, Writing
  <2>. QED BY <1>1, <1>3, <1>4, <1>5, <1>7, <2>1, DiffFrame
<1>. QED BY <1>2, <1>6, <1>7

\* The number of runs, which no property reads.
LEMMA BuildSummaryStep ==
    ASSUME CodeInv, BuildSummary PROVE CodeInv'
<1>. DEFINE c == job.dir
<1>1. /\ job.pc = "docs" /\ job.plan = {}
      /\ rel' = [rel EXCEPT ![c].runs = @ + 1]
      /\ job' = IF job.kind = "diff" THEN NoJob
                ELSE [job EXCEPT !.pc = "libs", !.todo = @ \ {job.lib}]
      /\ UNCHANGED <<sources, coll, served, snaps, op>>
  BY DEF BuildSummary
<1>2. /\ job.kind \in {"build", "diff"} /\ c \in Names
      /\ job.kind = "build" => c \in Candidates
  BY <1>1, AtDocument
<1>3. /\ rel' \in [Names -> Releases] /\ \A k \in Names : k # c => rel'[k] = rel[k]
      /\ rel'[c].status = rel[c].status /\ rel'[c].eligible = rel[c].eligible
      /\ rel'[c].scope = rel[c].scope /\ rel'[c].norm = rel[c].norm
      /\ rel'[c].chunks = rel[c].chunks /\ rel'[c].rows = rel[c].rows
  <2>1. rel[c] \in Releases BY <1>2 DEF CodeInv, CodeTyped
  <2>2. [rel[c] EXCEPT !.runs = @ + 1] \in Releases BY <2>1 DEF Releases
  <2>. QED BY <1>1, <1>2, <2>1, <2>2 DEF CodeInv, CodeTyped, Releases
<1>4. \A k \in Names : Alike(rel[k], rel'[k]) /\ SamePoints(coll[k], coll'[k])
  BY <1>1, <1>2, <1>3, AlikeSelf DEF Alike
<1>5. CASE job.kind = "build"
  <2>1. /\ job'.kind = "build" /\ job'.pc = "libs" /\ job'.dir = c
        /\ job'.plan = {} /\ job'.todo = job.todo \ {job.lib} /\ job'.failed = job.failed
        /\ job'.fresh = job.fresh
    BY <1>1, <1>5 DEF CodeInv, CodeTyped, JobTyped
  <2>2. CodeTyped'
    <3>1. JobTyped' BY <1>1, <1>5 DEF JobTyped, CodeInv, CodeTyped
    <3>. QED BY <1>1, <1>3, <3>1 DEF CodeInv, CodeTyped, sources, served, OpTyped
  <2>3. BuildInv' BY <1>1, <1>2, <1>3, <1>5, <2>1 DEF CodeInv, BuildInv, OpMakes, Writing
  <2>4. PlanInv'
    <3>1. \A k \in Libraries :
            rel'[c].norm[File(k)] # 0 => rel[c].norm[File(k)] # 0
      BY <1>3
    <3>. QED BY <1>1, <1>3, <1>5, <2>1 DEF CodeInv, PlanInv, sources, Writing
  <2>5. LibrariesInv' BY <1>1, <1>3, <1>5, <2>1 DEF CodeInv, LibrariesInv
  <2>. QED BY <1>1, <1>3, <1>4, <1>5, <2>1, <2>2, <2>3, <2>4, <2>5, BuildFrame
         DEF CodeInv, BuildInv
<1>6. CASE job.kind = "diff"
  <2>1. job' = NoJob BY <1>1, <1>6
  <2>2. CodeTyped'
    <3>1. JobTyped' BY <2>1, BoundFacts DEF JobTyped, NoJob
    <3>. QED BY <1>1, <1>3, <3>1 DEF CodeInv, CodeTyped, sources, served, OpTyped
  <2>3. DiffInv' BY <2>1 DEF DiffInv, NoJob
  <2>. QED BY <1>1, <1>4, <2>1, <2>2, <2>3, DiffFrame
<1>. QED BY <1>2, <1>5, <1>6

\* The build is over: a build without a failure has indexed what it normalized.
LEMMA RecordStep ==
    ASSUME CodeInv, RecordBuild \/ RecordFailure PROVE CodeInv'
<1>. DEFINE c == job.dir
<1>1. /\ job.kind = "build" /\ c \in Candidates /\ c \in Names
      /\ rel[c].status = "building" /\ rel[c].scope = {None} /\ (OpMakes => op.dir # c)
  <2>1. job.kind = "build"
    BY DEF RecordBuild, RecordFailure, CodeInv, CodeTyped, JobTyped, Writing
  <2>. QED BY <2>1 DEF CodeInv, BuildInv, Names
<1>2. /\ job' = NoJob /\ UNCHANGED <<sources, coll, served, snaps, op>>
  BY DEF RecordBuild, RecordFailure
<1>3. PICK s \in {"built", "failed"} :
        /\ rel' = [rel EXCEPT ![c].status = s]
        /\ s = "built" => RecordBuild /\ ~job.failed
  <2>1. CASE RecordBuild
    <3>1. rel' = [rel EXCEPT ![c].status = RecordedStatus] BY <2>1 DEF RecordBuild
    <3>2. CASE job.failed
      BY <3>1, <3>2 DEF RecordedStatus
    <3>3. CASE ~job.failed
      BY <2>1, <3>1, <3>3 DEF RecordedStatus
    <3>. QED BY <3>2, <3>3
  <2>2. CASE RecordFailure
    BY <2>2 DEF RecordFailure
  <2>. QED BY <2>1, <2>2
<1>4. /\ rel' \in [Names -> Releases] /\ \A k \in Names : k # c => rel'[k] = rel[k]
      /\ rel'[c].status = s /\ rel'[c].eligible = rel[c].eligible
      /\ rel'[c].scope = rel[c].scope /\ rel'[c].norm = rel[c].norm
      /\ rel'[c].chunks = rel[c].chunks /\ rel'[c].rows = rel[c].rows
  <2>1. rel[c] \in Releases BY <1>1 DEF CodeInv, CodeTyped
  <2>2. [rel[c] EXCEPT !.status = s] \in Releases BY <1>3, <2>1 DEF Releases
  <2>. QED BY <1>1, <1>3, <2>1, <2>2 DEF CodeInv, CodeTyped, Releases
<1>5. s = "built" => FilesIndexed(rel'[c]) /\ (CleanRaces \/ HasAllLibraries(rel'[c]))
  <2>. SUFFICES ASSUME s = "built"
                PROVE  FilesIndexed(rel'[c]) /\ (CleanRaces \/ HasAllLibraries(rel'[c]))
    OBVIOUS
  <2>1. job.pc = "libs" /\ job.todo = {} /\ job.plan = {} /\ ~job.failed
    BY <1>1, <1>3 DEF RecordBuild, CodeInv, BuildInv
  <2>2. FilesIndexed(rel[c])
    BY <1>1, <2>1 DEF CodeInv, PlanInv, FilesIndexed, Writing
  <2>3. CleanRaces \/ HasAllLibraries(rel[c])
    BY <1>1, <2>1 DEF CodeInv, LibrariesInv, HasAllLibraries
  <2>. QED BY <1>4, <2>2, <2>3 DEF FilesIndexed, HasAllLibraries
<1>6. CodeTyped'
  <2>1. JobTyped' BY <1>2, BoundFacts DEF JobTyped, NoJob
  <2>. QED BY <1>2, <1>4, <2>1 DEF CodeInv, CodeTyped, sources, served, OpTyped
<1>7. SettledInv' /\ ProdInv' /\ PublishedInv' /\ SourceInv' /\ CopyInv' /\ OpInv'
  BY <1>1, <1>2, <1>3, <1>4, <1>5, <1>6, AlikeSelf, JobFrame DEF served
<1>8. BuildInv' /\ PlanInv' /\ LibrariesInv' /\ DiffInv'
  BY <1>2 DEF BuildInv, PlanInv, LibrariesInv, DiffInv, NoJob
<1>9. SourcesInv' BY <1>2 DEF CodeInv, SourcesInv, sources, NoJob
<1>. QED BY <1>6, <1>7, <1>8, <1>9 DEF CodeInv

LEMMA JobStep ==
    ASSUME CodeInv, JobNext PROVE CodeInv'
<1>1. ASSUME NEW c \in Candidates, NEW e \in BOOLEAN, BuildStart(c, Libraries, e)
      PROVE  CodeInv'
  BY <1>1, BuildStartStep
<1>2. ASSUME NEW c \in Candidates, NEW l \in Libraries, BuildStart(c, {l}, FALSE)
      PROVE  CodeInv'
  BY <1>2, BuildStartStep
<1>. QED BY <1>1, <1>2, SyncStartStep, SyncCheckoutStep, SyncMarkerStep, JobEndsStep,
         BuildLibraryStep, BuildRefusedStep, DiffStartStep, WriteChunksStep, PointsStep,
         UpsertRowStep, DocumentFailsStep, BuildSummaryStep, RecordStep, BuildRaisesStep
       DEF JobNext

-----------------------------------------------------------------------------
(* The steps of op.                                                        *)

LEMMA OpEnded ==
    ASSUME op' = NoOp
    PROVE  OpTyped' /\ SourceInv' /\ CopyInv' /\ OpInv' /\ ~OpMakes' /\ op'.kind = "idle"
<1>1. op'.kind = "idle" /\ op'.pc = "idle" BY DEF NoOp
<1>2. OpTyped' BY DEF OpTyped, NoOp
<1>3. ~OpMakes' BY <1>1 DEF OpMakes
<1>4. SourceInv' /\ CopyInv' BY <1>1, <1>3 DEF SourceInv, CopyInv
<1>5. OpInv' BY <1>1 DEF OpInv
<1>. QED BY <1>1, <1>2, <1>3, <1>4, <1>5

\* A step of op that writes no release and no collection.
LEMMA OpQuiet ==
    ASSUME CodeInv, CodeTyped', UNCHANGED <<marker, rel, coll, served, job>>,
           SourcesInv', SourceInv', CopyInv', OpInv',
           op'.kind = "prune" => \A l \in Libraries : File(l) \notin op'.dirs,
           job.kind = "build" /\ OpMakes' => op'.dir # job.dir
    PROVE  CodeInv'
<1>1. None \notin Candidates BY CodeReleaseConstants
<1>2. BuildInv' /\ PlanInv' /\ LibrariesInv' /\ DiffInv'
  <2>1. \A c \in Candidates : Alike(rel[c], rel'[c])
    BY AlikeSelf
  <2>2. job.kind = "build" => job.dir # None
    BY <1>1 DEF CodeInv, BuildInv
  <2>. QED BY <2>1, <2>2, OpFrame DEF served
<1>3. Published' = Published BY DEF Published, served
<1>4. SettledInv' BY DEF CodeInv, SettledInv, Settled, FilesIndexed, HasAllLibraries
<1>5. ProdInv' BY DEF CodeInv, ProdInv, FilesIndexed
<1>6. PublishedInv' BY <1>3 DEF CodeInv, PublishedInv, Settled, Complete
<1>. QED BY <1>2, <1>4, <1>5, <1>6 DEF CodeInv

\* A step of op on the release it makes, which is not published.
LEMMA OpRelease ==
    ASSUME CodeInv, CodeTyped', UNCHANGED <<sources, coll, served, job>>,
           NEW own \in Candidates,
           \A c \in Names : c # own => rel'[c] = rel[c],
           own \notin Published, rel'[own].status # "validated",
           Settled(own)' =>
               FilesIndexed(rel'[own]) /\ (CleanRaces \/ HasAllLibraries(rel'[own])),
           job.kind = "build" => job.dir # own,
           op'.kind \notin {"clean_source", "prune"}, OpMakes' => op'.dir = own,
           SourceInv', CopyInv', OpInv'
    PROVE  CodeInv'
<1>. Prod \in Names /\ Prod # own /\ Candidates \subseteq Names
  BY CodeReleaseConstants DEF Names
<1>1. BuildInv' /\ PlanInv' /\ LibrariesInv' /\ DiffInv'
  <2>1. \A c \in Candidates : c # own => Alike(rel[c], rel'[c])
    BY AlikeSelf
  <2>. QED BY <2>1, OpFrame DEF served, sources
<1>2. Published' = Published BY DEF Published, served
<1>3. SettledInv' BY DEF CodeInv, SettledInv, Settled
<1>4. ProdInv' BY DEF CodeInv, ProdInv, FilesIndexed
<1>5. PublishedInv'
  <2>. SUFFICES ASSUME NEW c \in Candidates, c \in Published \/ rel'[c].status = "validated"
                PROVE  Settled(c)' /\ Complete(c)' /\ coll'[c] # NoColl
    BY <1>2 DEF PublishedInv
  <2>1. c # own /\ rel'[c] = rel[c] OBVIOUS
  <2>2. Settled(c) /\ Complete(c) /\ coll[c] # NoColl
    BY <2>1 DEF CodeInv, PublishedInv
  <2>. QED BY <2>1, <2>2 DEF Settled, Complete
<1>6. SourcesInv' BY DEF CodeInv, SourcesInv, sources
<1>. QED BY <1>1, <1>3, <1>4, <1>5, <1>6 DEF CodeInv

\* The steps that only end a command.
LEMMA OpEndsStep ==
    ASSUME CodeInv, op' = NoOp, UNCHANGED <<sources, rel, coll, served, snaps, job>>
    PROVE  CodeInv'
<1>1. OpTyped' /\ SourceInv' /\ CopyInv' /\ OpInv' /\ ~OpMakes' /\ op'.kind = "idle"
  BY OpEnded
<1>2. CodeTyped' BY <1>1 DEF CodeInv, CodeTyped, sources, served, JobTyped
<1>3. SourcesInv' BY <1>1 DEF CodeInv, SourcesInv, sources
<1>. QED BY <1>1, <1>2, <1>3, OpQuiet DEF sources

LEMMA ActiveFacts ==
    ASSUME CodeInv
    PROVE  /\ Active \in Names /\ coll[Active] \in SUBSET Points
           /\ Active = Prod \/ (Active \in Published /\ Settled(Active))
<1>1. Prod \in Names /\ Candidates \subseteq Names
  BY CodeReleaseConstants DEF Names
<1>2. Active = Prod \/ Active \in Published
  BY DEF Active, Published, CodeInv, CodeTyped, Names
<1>3. Active \in Names /\ coll[Active] # NoColl /\ (Active = Prod \/ Settled(Active))
  BY <1>1, <1>2 DEF Published, CodeInv, ProdInv, PublishedInv
<1>4. coll[Active] \in Collections BY <1>3 DEF CodeInv, CodeTyped
<1>. QED BY <1>2, <1>3, <1>4 DEF Collections

\* The commands that look at one release, or at none.
LEMMA StartStep ==
    ASSUME CodeInv, NEW c,
           (c \in Candidates /\ (ValidateStart(c) \/ StageStart(c))) \/ SnapshotStart
    PROVE  CodeInv'
<1>1. /\ op'.kind \in {"validate", "stage", "snapshot"}
      /\ op'.kind # "snapshot" => op'.pc = "vindex" /\ op'.dir = c /\ Settled(c)
      /\ op'.kind = "snapshot" => op'.pc = "snapshot" /\ op'.src = Active
      /\ UNCHANGED <<sources, rel, coll, served, snaps, job>>
  BY DEF ValidateStart, StageStart, SnapshotStart, NoOp, Settled, Verified
<1>2. OpTyped'
  BY ActiveFacts DEF ValidateStart, StageStart, SnapshotStart, NoOp, OpTyped, Making, Names
<1>3. CodeTyped' BY <1>1, <1>2 DEF CodeInv, CodeTyped, sources, served, JobTyped
<1>4. ~OpMakes' /\ SourceInv' /\ CopyInv'
  BY <1>1 DEF OpMakes, SourceInv, CopyInv
<1>5. OpInv'
  BY <1>1, ActiveFacts DEF OpInv, Settled, Published, served
<1>6. SourcesInv' BY <1>1 DEF CodeInv, SourcesInv, sources
<1>. QED BY <1>1, <1>3, <1>4, <1>5, <1>6, OpQuiet DEF sources

LEMMA RecoverStartStep ==
    ASSUME CodeInv, NEW i \in DOMAIN snaps, NEW c \in Candidates, RecoverStart(i, c)
    PROVE  CodeInv'
<1>. DEFINE s == snaps[i]
<1>1. s \in Snapshots BY DEF CodeInv, CodeTyped
<1>. HIDE DEF s
<1>2. /\ coll[c] = NoColl /\ (s.of # None => Verified(rel[s.of]))
      /\ op' = [NoOp EXCEPT !.kind = "recover", !.pc = "recover", !.dir = c,
                            !.src = s.of, !.points = s.points]
      /\ UNCHANGED <<sources, rel, coll, served, snaps, job>>
  BY DEF RecoverStart, s
<1>3. /\ op'.kind = "recover" /\ op'.pc = "recover" /\ op'.dir = c /\ op'.src = s.of
      /\ OpTyped'
  BY <1>1, <1>2 DEF NoOp, OpTyped, Snapshots, Names
<1>4. CodeTyped' BY <1>2, <1>3 DEF CodeInv, CodeTyped, sources, served, JobTyped
<1>5. s.of # None => s.of \in Candidates /\ Settled(s.of) /\ rel[s.of].eligible
  BY <1>1, <1>2 DEF Snapshots, Verified, Settled
<1>6. ~OpMakes' /\ SourceInv' /\ CopyInv'
  BY <1>2, <1>3, <1>5 DEF OpMakes, SourceInv, CopyInv, Making, Settled
<1>7. c \notin Published /\ rel[c].status # "validated"
  BY <1>2 DEF CodeInv, PublishedInv
<1>8. OpInv' BY <1>2, <1>3, <1>7 DEF OpInv, Published, served
<1>9. SourcesInv' BY <1>2, <1>3 DEF CodeInv, SourcesInv, sources
<1>. QED BY <1>2, <1>3, <1>4, <1>6, <1>8, <1>9, OpQuiet DEF sources

\* What the checks establish of a build without a failure.
LEMMA ValidIsComplete ==
    ASSUME CodeTyped, NEW c \in Candidates, FilesIndexed(rel[c]), IndexValid(rel[c], coll[c])
    PROVE  Complete(c) /\ coll[c] # NoColl
<1>1. coll[c] = ChunkIds(rel[c]) /\ coll[c] \in SUBSET Points
  BY DEF IndexValid, CollectionValid, ChunkIds
<1>2. coll[c] # NoColl BY <1>1, PointFacts
<1>3. ASSUME NEW l \in Libraries, rel[c].norm[File(l)] # 0
      PROVE  /\ rel[c].rows[File(l)] = rel[c].norm[File(l)]
             /\ rel[c].chunks[File(l)] = rel[c].norm[File(l)]
             /\ \A i \in 1 .. Pieces : <<File(l), rel[c].norm[File(l)], i>> \in coll[c]
             /\ \A p \in coll[c] : p[1] = File(l) => p[2] = rel[c].norm[File(l)]
  <2>1. /\ rel[c].rows[File(l)] = rel[c].norm[File(l)]
        /\ rel[c].chunks[File(l)] = rel[c].norm[File(l)]
    BY <1>3 DEF FilesIndexed
  <2>2. rel[c].norm[File(l)] \in Revs
    <3>1. rel[c].norm \in Files
      BY DEF CodeTyped, Releases, Names
    <3>. QED BY <1>3, <3>1, DocFacts, CodeReleaseConstants DEF Files, Revs
  <2>3. \A i \in 1 .. Pieces : <<File(l), rel[c].norm[File(l)], i>> \in coll[c]
    BY <1>1, <2>1, <2>2, DocFacts, PointFacts DEF ChunkIds
  <2>4. \A p \in coll[c] : p[1] = File(l) => p[2] = rel[c].norm[File(l)]
    BY <1>1, <2>1 DEF ChunkIds
  <2>. QED BY <2>1, <2>3, <2>4
<1>. QED BY <1>2, <1>3 DEF Complete, File

LEMMA ValidateIndexStep ==
    ASSUME CodeInv, ValidateIndex PROVE CodeInv'
<1>1. PICK valid \in BOOLEAN :
        /\ op.pc = "vindex" /\ valid => IndexValid(rel[op.dir], coll[op.dir])
        /\ op' = [op EXCEPT !.pc = "vseal", !.valid = valid]
        /\ UNCHANGED <<sources, rel, coll, served, snaps, job>>
  BY DEF ValidateIndex, IndexValid
<1>2. op.pc = "vindex" /\ op.kind \in {"validate", "stage", "recover", "clone"}
  BY DEF ValidateIndex, CodeInv, CodeTyped, OpTyped
<1>3. /\ op'.kind = op.kind /\ op'.pc = "vseal" /\ op'.dir = op.dir /\ op'.src = op.src
      /\ op'.parts = op.parts /\ op'.valid = valid
  BY <1>1 DEF CodeInv, CodeTyped, OpTyped
<1>4. CodeTyped'
  <2>1. OpTyped' BY <1>1, <1>2 DEF OpTyped, CodeInv, CodeTyped, Making
  <2>. QED BY <1>1, <2>1 DEF CodeInv, CodeTyped, sources, served, JobTyped
<1>5. OpMakes' <=> OpMakes
  BY <1>2, <1>3 DEF OpMakes, Making
<1>6. SourceInv'
  BY <1>1, <1>3, <1>5 DEF CodeInv, SourceInv, Settled, Published, served
<1>7. CopyInv'
  BY <1>1, <1>2, <1>3, <1>5 DEF CodeInv, CopyInv, Published, served
<1>8. OpInv'
  <2>1. op.dir \in Candidates /\ Settled(op.dir) /\ Settled(op.dir)'
    BY <1>1, <1>2 DEF CodeInv, OpInv, Settled
  <2>2. valid => Complete(op.dir) /\ coll[op.dir] # NoColl
    BY <1>1, <1>2, <2>1, ValidIsComplete DEF CodeInv, SettledInv
  <2>3. valid => Complete(op.dir)' /\ coll'[op.dir] # NoColl
    BY <1>1, <2>2 DEF Complete
  <2>4. op'.pc = "vseal" /\ op'.kind # "snapshot" BY <1>2, <1>3
  <2>. QED BY <1>3, <2>1, <2>3, <2>4 DEF OpInv
<1>9. SourcesInv' BY <1>1, <1>2, <1>3 DEF CodeInv, SourcesInv, sources
<1>. QED BY <1>1, <1>2, <1>3, <1>4, <1>5, <1>6, <1>7, <1>8, <1>9, OpQuiet
       DEF sources, CodeInv, BuildInv

LEMMA ValidateSealStep ==
    ASSUME CodeInv, ValidateSeal PROVE CodeInv'
<1>0. PICK c \in Candidates : c = op.dir /\ Settled(c)
  BY DEF ValidateSeal, CodeInv, OpInv, Settled
<1>. DEFINE r == rel[c]
            valid == op.valid /\ ScopeValid(r) /\ r.runs > 0
            count == IF coll[c] = NoColl THEN 0 ELSE Cardinality(coll[c])
            status == IF valid THEN "validated" ELSE "invalid"
            s == [r EXCEPT !.status = status, !.seal = {Artifacts(r)}, !.count = count]
<1>1. /\ op.pc = "vseal" /\ rel' = [rel EXCEPT ![c] = s]
      /\ op' = NoOp \/ (op.kind = "stage" /\ op' = [op EXCEPT !.pc = "stage"])
      /\ UNCHANGED <<sources, coll, served, snaps, job>>
  BY <1>0 DEF ValidateSeal, OpStep, OpEnds
<1>2. c \in Candidates /\ c \in Names /\ Settled(c)
  BY <1>0 DEF Names
<1>3. r \in Releases BY <1>2 DEF CodeInv, CodeTyped
<1>4. count \in Counts
  <2>1. coll[c] \in Collections BY <1>2 DEF CodeInv, CodeTyped
  <2>. QED BY <2>1 DEF Counts, Collections
<1>5. {Artifacts(r)} \in Seals
  BY <1>3 DEF Artifacts, Seals, Releases
<1>6. /\ status \in {"validated", "invalid"}
      /\ status = "validated" => op.valid
  OBVIOUS
<1>. HIDE DEF count, status
<1>7. /\ s \in Releases /\ s.status = status /\ s.eligible = r.eligible /\ s.scope = r.scope
      /\ s.norm = r.norm /\ s.rows = r.rows /\ s.chunks = r.chunks
  BY <1>3, <1>4, <1>5, <1>6 DEF Releases
<1>. HIDE DEF s
<1>8. /\ rel' \in [Names -> Releases] /\ rel'[c] = s
      /\ \A d \in Names : d # c => rel'[d] = rel[d]
  BY <1>1, <1>2, <1>7 DEF CodeInv, CodeTyped
<1>9. /\ OpTyped' /\ ~OpMakes' /\ SourceInv' /\ CopyInv'
      /\ op'.kind \in {"idle", "stage"} /\ op'.pc \in {"idle", "stage"}
      /\ op'.pc = "stage" => op'.dir = c
  <2>1. CASE op' = NoOp BY <2>1, OpEnded DEF NoOp
  <2>2. CASE op.kind = "stage" /\ op' = [op EXCEPT !.pc = "stage"]
    <3>1. op'.kind = "stage" /\ op'.pc = "stage" /\ op'.dir = c
      BY <1>0, <2>2 DEF CodeInv, CodeTyped, OpTyped
    <3>2. OpTyped' BY <2>2 DEF CodeInv, CodeTyped, OpTyped
    <3>. QED BY <3>1, <3>2 DEF OpMakes, SourceInv, CopyInv
  <2>. QED BY <1>1, <2>1, <2>2
<1>10. CodeTyped' BY <1>1, <1>8, <1>9 DEF CodeInv, CodeTyped, sources, served, JobTyped
<1>11. Settled(c)' BY <1>2, <1>6, <1>7, <1>8 DEF Settled
<1>12. OpInv' BY <1>9, <1>11 DEF OpInv
<1>13. SettledInv'
  BY <1>2, <1>7, <1>8 DEF CodeInv, SettledInv, Settled, Names, FilesIndexed, HasAllLibraries
<1>14. ProdInv'
  BY <1>1, <1>2, <1>8, <1>9, CodeReleaseConstants DEF CodeInv, ProdInv, Names, FilesIndexed
<1>15. PublishedInv'
  <2>. SUFFICES ASSUME NEW d \in Candidates, d \in Published \/ rel'[d].status = "validated"
                PROVE  Settled(d)' /\ Complete(d)' /\ coll'[d] # NoColl
    BY <1>1 DEF PublishedInv, Published, served
  <2>1. CASE d # c
    <3>1. rel'[d] = rel[d] BY <1>8, <2>1 DEF Names
    <3>2. Settled(d) /\ Complete(d) /\ coll[d] # NoColl
      BY <3>1 DEF CodeInv, PublishedInv
    <3>. QED BY <1>1, <3>1, <3>2 DEF Settled, Complete
  <2>2. CASE d = c
    <3>1. Complete(c) /\ coll[c] # NoColl
      BY <1>0, <1>1, <1>6, <1>7, <1>8, <2>2 DEF CodeInv, PublishedInv, OpInv
    <3>. QED BY <1>1, <1>7, <1>8, <1>11, <2>2, <3>1 DEF Complete
  <2>. QED BY <2>1, <2>2
<1>16. BuildInv' /\ PlanInv' /\ LibrariesInv' /\ DiffInv'
  <2>1. \A d \in Candidates : d # c => Alike(rel[d], rel'[d])
    BY <1>8, AlikeSelf DEF Names
  <2>2. job.kind = "build" => job.dir # c
    BY <1>2 DEF CodeInv, BuildInv, Settled
  <2>. QED BY <1>1, <1>9, <1>10, <2>1, <2>2, OpFrame DEF sources, served
<1>17. SourcesInv' BY <1>1, <1>9 DEF CodeInv, SourcesInv, sources
<1>. QED BY <1>9, <1>10, <1>12, <1>13, <1>14, <1>15, <1>16, <1>17 DEF CodeInv

\* A step that changes what is staged or served, to what was, or has verified.
LEMMA ServedStep ==
    ASSUME CodeInv, Stage \/ Promote \/ RollbackAlias PROVE CodeInv'
<1>1. /\ op' = NoOp /\ UNCHANGED <<sources, rel, coll, snaps, job>>
  BY DEF Stage, Promote, RollbackAlias, OpEnds
<1>2. /\ staged' \in Candidates \cup {None}
      /\ current' \in [active : Names \cup {None}, prev : Names \cup {None}]
      /\ current.active # None => current'.active # None
      /\ \A c \in Published' : c \in Published \/ rel[c].status = "validated"
  <2>1. CASE Stage
    <3>1. op.dir \in Candidates
      BY <2>1 DEF Stage, CodeInv, OpInv, Settled
    <3>2. staged' = staged \/ (staged' = op.dir /\ rel[op.dir].status = "validated")
      BY <2>1 DEF Stage, Stageable, Verified
    <3>. QED BY <2>1, <3>1, <3>2 DEF Stage, CodeInv, CodeTyped, Published
  <2>2. CASE Promote
    <3>1. current' = [active |-> staged, prev |-> Active] /\ staged # None /\ staged' = staged
      BY <2>2 DEF Promote
    <3>2. staged \in Candidates BY <3>1 DEF CodeInv, CodeTyped
    <3>. QED BY <3>1, <3>2, ActiveFacts, CodeReleaseConstants DEF CodeInv, CodeTyped, Published, Names
  <2>3. CASE RollbackAlias
    BY <2>3 DEF RollbackAlias, CodeInv, CodeTyped, Published
  <2>. QED BY <2>1, <2>2, <2>3
<1>3. OpTyped' /\ SourceInv' /\ CopyInv' /\ OpInv' /\ ~OpMakes' /\ op'.kind = "idle"
  BY <1>1, OpEnded
<1>4. CodeTyped' BY <1>1, <1>2, <1>3 DEF CodeInv, CodeTyped, sources, JobTyped
<1>5. BuildInv' /\ PlanInv' /\ LibrariesInv' /\ DiffInv'
  <2>1. None \notin Candidates BY CodeReleaseConstants
  <2>2. \A c \in Candidates : Alike(rel[c], rel'[c]) BY <1>1, AlikeSelf
  <2>3. job.kind = "build" => job.dir # None BY <2>1 DEF CodeInv, BuildInv
  <2>. QED BY <1>1, <1>2, <1>3, <1>4, <2>2, <2>3, OpFrame DEF sources
<1>6. SettledInv' /\ ProdInv'
  BY <1>1, <1>3 DEF CodeInv, SettledInv, ProdInv, Settled, FilesIndexed, HasAllLibraries
<1>7. PublishedInv'
  BY <1>1, <1>2 DEF CodeInv, PublishedInv, Settled, Complete, Published
<1>8. SourcesInv' BY <1>1, <1>3 DEF CodeInv, SourcesInv, sources
<1>. QED BY <1>3, <1>4, <1>5, <1>6, <1>7, <1>8 DEF CodeInv

LEMMA SnapshotTakeStep ==
    ASSUME CodeInv, SnapshotTake PROVE CodeInv'
<1>1. /\ op' = NoOp /\ UNCHANGED <<sources, rel, coll, served, job>>
      /\ op.src = Prod \/ op.src \in Published
      /\ snaps' = Append(snaps, IF op.src = Prod THEN Snapshot(op.src, None, {})
                                ELSE Snapshot(op.src, op.src, rel[op.src].seal))
  BY DEF SnapshotTake, OpEnds, CodeInv, OpInv
<1>2. op.src \in Names /\ coll[op.src] \in SUBSET Points
  <2>1. Prod \in Names /\ Candidates \subseteq Names BY CodeReleaseConstants DEF Names
  <2>2. op.src \in Names /\ coll[op.src] # NoColl
    BY <1>1, <2>1 DEF Published, CodeInv, ProdInv, PublishedInv
  <2>3. coll[op.src] \in Collections BY <2>2 DEF CodeInv, CodeTyped
  <2>. QED BY <2>2, <2>3 DEF Collections
<1>3. rel[op.src].seal \in Seals
  BY <1>2 DEF CodeInv, CodeTyped, Releases
<1>4. snaps' \in Seq(Snapshots)
  <2>1. {} \in Seals BY DEF Seals
  <2>2. CASE op.src = Prod
    <3>1. Snapshot(op.src, None, {}) \in Snapshots
      BY <1>2, <2>1 DEF Snapshot, Snapshots
    <3>. QED BY <1>1, <2>2, <3>1 DEF CodeInv, CodeTyped
  <2>3. CASE op.src # Prod
    <3>1. op.src \in Candidates BY <1>1, <2>3 DEF Published
    <3>2. Snapshot(op.src, op.src, rel[op.src].seal) \in Snapshots
      BY <1>2, <1>3, <3>1 DEF Snapshot, Snapshots
    <3>. QED BY <1>1, <2>3, <3>2 DEF CodeInv, CodeTyped
  <2>. QED BY <2>2, <2>3
<1>5. OpTyped' /\ SourceInv' /\ CopyInv' /\ OpInv' /\ ~OpMakes' /\ op'.kind = "idle"
  BY <1>1, OpEnded
<1>6. CodeTyped' BY <1>1, <1>4, <1>5 DEF CodeInv, CodeTyped, sources, served, JobTyped
<1>7. SourcesInv' BY <1>1, <1>5 DEF CodeInv, SourcesInv, sources
<1>. QED BY <1>1, <1>5, <1>6, <1>7, OpQuiet DEF sources

\* The collection that a recovery creates is in no published release.
LEMMA RecoverCollectionStep ==
    ASSUME CodeInv, RecoverCollection PROVE CodeInv'
<1>0. PICK c \in Candidates : /\ c = op.dir /\ c \notin Published
                              /\ rel[c].status # "validated"
  BY DEF RecoverCollection, CodeInv, OpInv
<1>1. /\ op.pc = "recover" /\ op.kind \in {"recover", "clone"}
      /\ coll' = [coll EXCEPT ![c] = op.points] /\ op.points \in SUBSET Points
      /\ UNCHANGED <<sources, rel, served, snaps, job>>
  BY <1>0 DEF RecoverCollection, CodeInv, CodeTyped, OpTyped
<1>2. /\ coll' \in [Names -> Collections] /\ coll'[c] # NoColl
      /\ \A d \in Names : d # c => coll'[d] = coll[d]
  BY <1>1, PointFacts DEF CodeInv, CodeTyped, Collections, Names
<1>3. \/ op' = NoOp
      \/ op.kind = "clone" /\ op' = [op EXCEPT !.pc = "record"]
      \/ op.kind = "recover" /\ op.src # None /\ op' = [op EXCEPT !.pc = "prepare"]
  BY <1>1 DEF RecoverCollection, OpStep, OpEnds
<1>4. /\ OpTyped' /\ SourceInv' /\ CopyInv' /\ OpInv'
      /\ OpMakes' => OpMakes /\ op'.dir = c
      /\ op'.kind \in {"idle", "clone", "recover"}
  <2>1. CASE op' = NoOp BY <2>1, OpEnded
  <2>2. CASE op.kind = "clone" /\ op' = [op EXCEPT !.pc = "record"]
    <3>1. /\ op'.kind = "clone" /\ op'.pc = "record" /\ op'.dir = op.dir /\ op'.src = op.src
          /\ op'.parts = op.parts /\ OpTyped'
      BY <2>2 DEF CodeInv, CodeTyped, OpTyped, Making
    <3>2. SourceInv'
      BY <1>1, <2>2, <3>1 DEF CodeInv, SourceInv, OpMakes, Settled, Published, served
    <3>3. CopyInv'
      BY <1>1, <2>2, <3>1 DEF CodeInv, CopyInv, OpMakes, Published, served
    <3>4. OpInv' BY <3>1 DEF OpInv
    <3>. QED BY <1>0, <2>2, <3>1, <3>2, <3>3, <3>4 DEF OpMakes
  <2>3. CASE op.kind = "recover" /\ op.src # None /\ op' = [op EXCEPT !.pc = "prepare"]
    <3>1. /\ op'.kind = "recover" /\ op'.pc = "prepare" /\ op'.dir = op.dir
          /\ op'.src = op.src /\ OpTyped'
      BY <2>3 DEF CodeInv, CodeTyped, OpTyped
    <3>2. ~OpMakes' BY <3>1 DEF OpMakes, Making
    <3>3. SourceInv'
      BY <1>1, <2>3, <3>1, <3>2 DEF CodeInv, SourceInv, Settled
    <3>4. CopyInv' BY <3>2 DEF CopyInv
    <3>5. OpInv' BY <1>0, <2>3, <3>1 DEF OpInv
    <3>. QED BY <3>1, <3>2, <3>3, <3>4, <3>5
  <2>. QED BY <1>3, <2>1, <2>2, <2>3
<1>5. CodeTyped' BY <1>1, <1>2, <1>4 DEF CodeInv, CodeTyped, sources, served, JobTyped
<1>6. BuildInv' /\ PlanInv' /\ LibrariesInv' /\ DiffInv'
  <2>1. None \notin Candidates BY CodeReleaseConstants
  <2>2. \A d \in Candidates : Alike(rel[d], rel'[d]) BY <1>1, AlikeSelf
  <2>3. job.kind = "build" => job.dir # None BY <2>1 DEF CodeInv, BuildInv
  <2>4. \A d \in Candidates : coll[d] # NoColl => coll'[d] # NoColl
    BY <1>2 DEF Names
  <2>5. job.kind = "build" /\ OpMakes' => op'.dir # job.dir
    BY <1>0, <1>4 DEF CodeInv, BuildInv
  <2>. QED BY <1>1, <1>5, <2>2, <2>3, <2>4, <2>5, OpFrame DEF sources, served
<1>7. Prod # c /\ Prod \in Names BY CodeReleaseConstants DEF Names
<1>8. SettledInv' /\ ProdInv'
  BY <1>1, <1>2, <1>4, <1>7
  DEF CodeInv, SettledInv, ProdInv, Settled, FilesIndexed, HasAllLibraries
<1>9. PublishedInv'
  <2>1. \A d \in Candidates : d \in Published \/ rel[d].status = "validated" =>
          /\ Settled(d) /\ Complete(d) /\ coll[d] # NoColl /\ coll'[d] = coll[d]
    BY <1>0, <1>2 DEF CodeInv, PublishedInv, Names
  <2>. QED BY <1>1, <2>1 DEF PublishedInv, Settled, Complete, Published, served
<1>10. SourcesInv' BY <1>1, <1>4 DEF CodeInv, SourcesInv, sources
<1>. QED BY <1>4, <1>5, <1>6, <1>8, <1>9, <1>10 DEF CodeInv

\* A clone and a recovery prepare a release of their own.
LEMMA CloneStartStep ==
    ASSUME CodeInv, NEW c \in Candidates, CloneStart(c) PROVE CodeInv'
<1>0. PICK src \in Names :
        src = Active /\ (src = Prod \/ (src \in Published /\ Settled(src)))
  BY ActiveFacts
<1>. DEFINE scope == Present(rel[src].norm)  r == Prepare(TRUE, scope)
<1>1. /\ rel[c].status = "absent" /\ rel' = [rel EXCEPT ![c] = r]
      /\ op' = [NoOp EXCEPT !.kind = "clone", !.pc = "copy", !.dir = c,
                            !.src = src, !.parts = {"norm"}]
      /\ UNCHANGED <<sources, coll, served, snaps, job>>
  BY <1>0 DEF CloneStart, Prepared, Prepare
<1>2. scope \in SUBSET Docs BY DEF Present
<1>3. r \in Releases /\ r.status = "building" /\ r.scope = scope
  BY <1>2, PrepareTyped
<1>. HIDE DEF r, scope
<1>4. c \in Names BY DEF Names
<1>5. /\ rel' \in [Names -> Releases] /\ rel'[c] = r
      /\ \A d \in Names : d # c => rel'[d] = rel[d]
  BY <1>1, <1>3, <1>4 DEF CodeInv, CodeTyped
<1>6. /\ op'.kind = "clone" /\ op'.pc = "copy" /\ op'.dir = c /\ op'.src = src
      /\ op'.parts = {"norm"} /\ OpTyped'
  BY <1>1, <1>4 DEF NoOp, OpTyped, Making
<1>7. CodeTyped' BY <1>1, <1>5, <1>6 DEF CodeInv, CodeTyped, sources, served, JobTyped
<1>8. c \notin Published /\ ~Settled(c) /\ c # Prod
  BY <1>1, CodeReleaseConstants DEF CodeInv, PublishedInv, Settled
<1>9. src # c /\ rel'[src] = rel[src]
  BY <1>0, <1>5, <1>8
<1>10. SourceInv'
  BY <1>0, <1>1, <1>6, <1>9 DEF SourceInv, Settled, Published, served
<1>11. CopyInv'
  BY <1>1, <1>2, <1>3, <1>5, <1>6, <1>8, <1>9 DEF CopyInv, Published, served
<1>12. OpInv' BY <1>6 DEF OpInv
<1>13. job.kind = "build" => job.dir # c
  BY <1>1 DEF CodeInv, BuildInv
<1>. QED BY <1>1, <1>3, <1>5, <1>6, <1>7, <1>8, <1>10, <1>11, <1>12, <1>13, OpRelease
       DEF Settled

LEMMA RecoverPrepareStep ==
    ASSUME CodeInv, RecoverPrepare PROVE CodeInv'
<1>0. PICK c \in Candidates, src \in Candidates :
        /\ c = op.dir /\ src = op.src /\ op.kind = "recover" /\ op.pc = "prepare"
        /\ Settled(src) /\ rel[src].eligible
  <2>1. op.kind = "recover" /\ op.pc = "prepare" /\ op.dir \in Candidates /\ op.src # None
    BY DEF RecoverPrepare, CodeInv, CodeTyped, OpTyped, OpInv, Making
  <2>2. Settled(op.src) /\ rel[op.src].eligible
    BY <2>1 DEF CodeInv, SourceInv
  <2>. QED BY <2>1, <2>2 DEF Settled
<1>1. CASE op' = NoOp /\ UNCHANGED rel
  BY <1>1, OpEndsStep DEF RecoverPrepare
<1>2. CASE Prepared(c, TRUE, rel[src].scope)
             /\ op' = [op EXCEPT !.pc = "copy", !.parts = {"norm"}]
  <2>. DEFINE scope == rel[src].scope  r == Prepare(TRUE, scope)
  <2>1. /\ rel[c].status = "absent" /\ rel' = [rel EXCEPT ![c] = r]
        /\ UNCHANGED <<sources, coll, served, snaps, job>>
    BY <1>2 DEF RecoverPrepare, Prepared, Prepare
  <2>2. c \in Names /\ src \in Names BY DEF Names
  <2>3. scope \in SUBSET (Docs \cup {None})
    BY <2>2 DEF CodeInv, CodeTyped, Releases
  <2>4. r \in Releases /\ r.status = "building" /\ r.scope = scope
    BY <2>3, PrepareTyped
  <2>. HIDE DEF r
  <2>5. /\ rel' \in [Names -> Releases] /\ rel'[c] = r
        /\ \A d \in Names : d # c => rel'[d] = rel[d]
    BY <2>1, <2>2, <2>4 DEF CodeInv, CodeTyped
  <2>6. /\ op'.kind = "recover" /\ op'.pc = "copy" /\ op'.dir = c /\ op'.src = src
        /\ op'.parts = {"norm"} /\ OpTyped'
    BY <1>0, <1>2 DEF CodeInv, CodeTyped, OpTyped, Making
  <2>7. CodeTyped' BY <2>1, <2>5, <2>6 DEF CodeInv, CodeTyped, sources, served, JobTyped
  <2>8. c \notin Published /\ ~Settled(c) /\ c # Prod
    BY <2>1, CodeReleaseConstants DEF CodeInv, PublishedInv, Settled
  <2>9. src # c /\ rel'[src] = rel[src] BY <1>0, <2>2, <2>5, <2>8
  <2>10. SourceInv'
    BY <1>0, <2>6, <2>9 DEF SourceInv, Settled
  <2>11. CopyInv'
    BY <2>1, <2>4, <2>5, <2>6, <2>8, <2>9 DEF CopyInv, Published, served
  <2>12. OpInv' BY <2>6 DEF OpInv
  <2>13. job.kind = "build" => job.dir # c
    BY <2>1 DEF CodeInv, BuildInv
  <2>. QED BY <2>1, <2>4, <2>5, <2>6, <2>7, <2>8, <2>10, <2>11, <2>12, <2>13, OpRelease
         DEF Settled
<1>. QED BY <1>0, <1>1, <1>2 DEF RecoverPrepare, OpEnds

\* Where op makes a release: the source is not it, and keeps its files.
LEMMA MakingFacts ==
    ASSUME CodeInv, OpMakes
    PROVE  \E c \in Candidates, src \in Names :
             /\ c = op.dir /\ src = op.src /\ src # c
             /\ c \notin Published /\ rel[c].status \in {"building", "built"}
             /\ job.kind = "build" => job.dir # c
             /\ src = Prod \/ Settled(src)
             /\ op.kind = "recover" => Settled(src) /\ rel[src].eligible
             /\ op.kind = "clone" => src = Prod \/ src \in Published
             /\ op.kind \in {"clone", "recover"}
<1>1. op.src = Prod \/ Settled(op.src)
  BY DEF CodeInv, SourceInv
<1>2. op.src \in Names BY <1>1 DEF Settled, Names
<1>. QED BY <1>1, <1>2 DEF CodeInv, CopyInv, SourceInv, BuildInv, OpMakes

LEMMA CopyPartStep ==
    ASSUME CodeInv, NEW part \in {"norm", "rows", "chunks", "runs"}, CopyPart(part)
    PROVE  CodeInv'
<1>1. OpMakes /\ op.pc = "copy" /\ part \in op.parts
  BY DEF CopyPart, CodeInv, CodeTyped, OpTyped, OpMakes, Making
<1>2. PICK c \in Candidates, src \in Names :
        /\ c = op.dir /\ src = op.src /\ src # c
        /\ c \notin Published /\ rel[c].status \in {"building", "built"}
        /\ job.kind = "build" => job.dir # c
        /\ src = Prod \/ Settled(src)
        /\ op.kind = "recover" => Settled(src) /\ rel[src].eligible
        /\ op.kind = "clone" => src = Prod \/ src \in Published
        /\ op.kind \in {"clone", "recover"}
  BY <1>1, MakingFacts
<1>. DEFINE s == rel[src]
            r == CASE part = "norm" -> [rel[c] EXCEPT !.norm = s.norm]
                   [] part = "rows" -> [rel[c] EXCEPT !.rows = s.rows]
                   [] part = "chunks" -> [rel[c] EXCEPT !.chunks = s.chunks]
                   [] part = "runs" -> [rel[c] EXCEPT !.runs = s.runs]
            parts == IF part = "norm" THEN {"rows", "chunks", "runs"} ELSE op.parts \ {part}
<1>3. c \in Names BY DEF Names
<1>4. /\ rel' = [rel EXCEPT ![c] = r] /\ op' = [op EXCEPT !.parts = parts]
      /\ UNCHANGED <<sources, coll, served, snaps, job>>
  BY <1>2, <1>3 DEF CopyPart, CodeInv, CodeTyped
<1>5. rel[c] \in Releases /\ s \in Releases BY <1>3 DEF CodeInv, CodeTyped
<1>6. /\ r \in Releases /\ r.status = rel[c].status /\ r.eligible = rel[c].eligible
      /\ r.scope = rel[c].scope
      /\ r.norm = IF part = "norm" THEN s.norm ELSE rel[c].norm
      /\ r.rows = IF part = "rows" THEN s.rows ELSE rel[c].rows
      /\ r.chunks = IF part = "chunks" THEN s.chunks ELSE rel[c].chunks
  <2>1. CASE part = "norm" BY <1>5, <2>1 DEF Releases
  <2>2. CASE part = "rows" BY <1>5, <2>2 DEF Releases
  <2>3. CASE part = "chunks" BY <1>5, <2>3 DEF Releases
  <2>4. CASE part = "runs" BY <1>5, <2>4 DEF Releases
  <2>. QED BY <2>1, <2>2, <2>3, <2>4
<1>7. /\ part = "norm" => parts = {"rows", "chunks", "runs"}
      /\ part # "norm" => parts = op.parts \ {part}
  OBVIOUS
<1>. HIDE DEF r, parts
<1>8. /\ rel' \in [Names -> Releases] /\ rel'[c] = r
      /\ \A d \in Names : d # c => rel'[d] = rel[d]
  BY <1>3, <1>4, <1>6 DEF CodeInv, CodeTyped
<1>9. /\ op'.kind = op.kind /\ op'.pc = "copy" /\ op'.dir = c /\ op'.src = src
      /\ op'.parts = parts /\ OpTyped' /\ OpMakes'
  BY <1>1, <1>2, <1>4, <1>7 DEF CodeInv, CodeTyped, OpTyped, Making, OpMakes
<1>10. CodeTyped' BY <1>4, <1>8, <1>9 DEF CodeInv, CodeTyped, sources, served, JobTyped
<1>11. SourceInv'
  BY <1>2, <1>4, <1>8, <1>9 DEF SourceInv, Settled, Published, served
<1>12. CopyInv'
  <2>1. /\ rel[c].status = "building"
        /\ IF op.kind = "clone" THEN rel[c].scope \subseteq Docs ELSE rel[c].scope = s.scope
        /\ "norm" \notin op.parts =>
             \A l \in Libraries :
                 /\ rel[c].norm[File(l)] = s.norm[File(l)]
                 /\ "rows" \notin op.parts => rel[c].rows[File(l)] = s.rows[File(l)]
                 /\ "chunks" \notin op.parts => rel[c].chunks[File(l)] = s.chunks[File(l)]
    BY <1>1, <1>2 DEF CodeInv, CopyInv
  <2>2. "norm" \notin parts =>
             \A l \in Libraries :
                 /\ r.norm[File(l)] = s.norm[File(l)]
                 /\ "rows" \notin parts => r.rows[File(l)] = s.rows[File(l)]
                 /\ "chunks" \notin parts => r.chunks[File(l)] = s.chunks[File(l)]
    BY <1>6, <1>7, <2>1
  <2>. QED BY <1>2, <1>4, <1>6, <1>8, <1>9, <2>1, <2>2 DEF CopyInv, Published, served
<1>13. OpInv' BY <1>2, <1>9 DEF OpInv
<1>14. ~Settled(c)' /\ rel'[c].status # "validated"
  BY <1>1, <1>2, <1>6, <1>8 DEF CodeInv, CopyInv, Settled
<1>. QED BY <1>2, <1>4, <1>8, <1>9, <1>10, <1>11, <1>12, <1>13, <1>14, OpRelease

\* The steps of a clone or a recovery between its writes.
LEMMA CopyEndsStep ==
    ASSUME CodeInv, CopyEnds \/ CloneSnapshot PROVE CodeInv'
<1>1. OpMakes /\ UNCHANGED <<sources, rel, coll, served, job>>
  BY DEF CopyEnds, CloneSnapshot, CodeInv, CodeTyped, OpTyped, OpMakes, Making
<1>2. PICK c \in Candidates, src \in Names :
        /\ c = op.dir /\ src = op.src /\ src # c
        /\ c \notin Published /\ rel[c].status \in {"building", "built"}
        /\ job.kind = "build" => job.dir # c
        /\ src = Prod \/ Settled(src)
        /\ op.kind = "recover" => Settled(src) /\ rel[src].eligible
        /\ op.kind = "clone" => src = Prod \/ src \in Published
        /\ op.kind \in {"clone", "recover"}
  BY <1>1, MakingFacts
<1>3. PICK pc \in {"snapshot", "recover", "error", "record"}, points \in SUBSET Points :
        /\ op' = [op EXCEPT !.pc = pc, !.points = points]
        /\ snaps' \in Seq(Snapshots) /\ op.parts = {}
        /\ op.kind = "recover" => pc = "record"
        /\ rel[c].status = "building"
  <2>1. CASE CopyEnds
    <3>1. PICK pc \in {"snapshot", "record"} :
            op' = [op EXCEPT !.pc = pc] /\ (op.kind = "recover" => pc = "record")
      BY <1>2, <2>1 DEF CopyEnds, OpStep
    <3>2. op' = [op EXCEPT !.pc = pc, !.points = op.points] /\ op.points \in SUBSET Points
      BY <3>1 DEF CodeInv, CodeTyped, OpTyped
    <3>3. snaps' \in Seq(Snapshots) /\ op.parts = {} /\ op.pc = "copy"
      BY <2>1 DEF CopyEnds, CodeInv, CodeTyped
    <3>4. rel[c].status = "building" BY <1>1, <1>2, <3>3 DEF CodeInv, CopyInv
    <3>. QED BY <3>1, <3>2, <3>3, <3>4
  <2>2. CASE CloneSnapshot
    <3>1. op.kind = "clone" /\ op.pc = "snapshot" BY <2>2 DEF CloneSnapshot
    <3>2. coll[src] \in SUBSET Points
      <4>1. coll[src] # NoColl BY <1>2, <3>1 DEF CodeInv, ProdInv, PublishedInv, Published
      <4>2. coll[src] \in Collections BY DEF CodeInv, CodeTyped
      <4>. QED BY <4>1, <4>2 DEF Collections
    <3>3. snaps' \in Seq(Snapshots)
      <4>1. Snapshot(src, None, {}) \in Snapshots
        BY <3>2 DEF Snapshot, Snapshots, Seals
      <4>. QED BY <1>2, <2>2, <4>1 DEF CloneSnapshot, CodeInv, CodeTyped
    <3>4. \E pc \in {"recover", "error"}, points \in SUBSET Points :
            op' = [op EXCEPT !.pc = pc, !.points = points]
      <4>1. CASE coll[op.dir] = NoColl
        BY <1>2, <2>2, <3>2, <4>1 DEF CloneSnapshot
      <4>2. CASE coll[op.dir] # NoColl
        <5>1. op' = [op EXCEPT !.pc = "error", !.points = op.points]
                /\ op.points \in SUBSET Points
          BY <2>2, <4>2 DEF CloneSnapshot, CodeInv, CodeTyped, OpTyped
        <5>. QED BY <5>1
      <4>. QED BY <4>1, <4>2
    <3>5. op.parts = {} /\ rel[c].status = "building"
      BY <1>1, <1>2, <3>1 DEF CodeInv, CopyInv
    <3>. QED BY <3>1, <3>3, <3>4, <3>5
  <2>. QED BY <2>1, <2>2
<1>4. /\ op'.kind = op.kind /\ op'.pc = pc /\ op'.dir = c /\ op'.src = src /\ op'.parts = {}
      /\ OpTyped' /\ OpMakes'
  BY <1>2, <1>3 DEF CodeInv, CodeTyped, OpTyped, OpMakes, Making
<1>5. CodeTyped' BY <1>1, <1>3, <1>4 DEF CodeInv, CodeTyped, sources, served, JobTyped
<1>6. SourceInv' BY <1>1, <1>2, <1>4 DEF SourceInv, Settled, Published, served
<1>7. CopyInv'
  BY <1>1, <1>2, <1>3, <1>4 DEF CodeInv, CopyInv, Published, served
<1>8. OpInv' BY <1>1, <1>2, <1>3, <1>4 DEF OpInv, Published, served
<1>9. SourcesInv' BY <1>1, <1>2, <1>4 DEF CodeInv, SourcesInv, sources
<1>. QED BY <1>1, <1>2, <1>4, <1>5, <1>6, <1>7, <1>8, <1>9, OpQuiet DEF sources

\* A clone that has all its parts is indexed like its source.
LEMMA CloneRecordStep ==
    ASSUME CodeInv, CloneRecord PROVE CodeInv'
<1>1. OpMakes /\ op.pc = "record"
  BY DEF CloneRecord, CodeInv, CodeTyped, OpTyped, OpMakes, Making
<1>2. PICK c \in Candidates, src \in Names :
        /\ c = op.dir /\ src = op.src /\ src # c
        /\ c \notin Published /\ rel[c].status \in {"building", "built"}
        /\ job.kind = "build" => job.dir # c
        /\ src = Prod \/ Settled(src)
        /\ op.kind = "recover" => Settled(src) /\ rel[src].eligible
        /\ op.kind = "clone" => src = Prod \/ src \in Published
        /\ op.kind \in {"clone", "recover"}
  BY <1>1, MakingFacts
<1>3. /\ rel' = [rel EXCEPT ![c].status = "built"] /\ op' = [op EXCEPT !.pc = "vindex"]
      /\ UNCHANGED <<sources, coll, served, snaps, job>>
  BY <1>2 DEF CloneRecord, OpStep
<1>4. /\ rel' \in [Names -> Releases] /\ \A k \in Names : k # c => rel'[k] = rel[k]
      /\ rel'[c].status = "built" /\ rel'[c].eligible = rel[c].eligible
      /\ rel'[c].scope = rel[c].scope /\ rel'[c].norm = rel[c].norm
      /\ rel'[c].chunks = rel[c].chunks /\ rel'[c].rows = rel[c].rows
  <2>1. c \in Names /\ rel[c] \in Releases BY DEF CodeInv, CodeTyped, Names
  <2>2. [rel[c] EXCEPT !.status = "built"] \in Releases BY <2>1 DEF Releases
  <2>. QED BY <1>3, <2>1, <2>2 DEF CodeInv, CodeTyped, Releases
<1>5. /\ IF op.kind = "clone" THEN rel[c].scope \subseteq Docs ELSE rel[c].scope = rel[src].scope
      /\ op.parts = {}
      /\ \A l \in Libraries : /\ rel[c].norm[File(l)] = rel[src].norm[File(l)]
                              /\ rel[c].rows[File(l)] = rel[src].rows[File(l)]
                              /\ rel[c].chunks[File(l)] = rel[src].chunks[File(l)]
  BY <1>1, <1>2 DEF CodeInv, CopyInv
<1>6. FilesIndexed(rel'[c])
  <2>1. FilesIndexed(rel[src]) BY <1>2 DEF CodeInv, ProdInv, SettledInv, Settled
  <2>. QED BY <1>4, <1>5, <2>1 DEF FilesIndexed
<1>7. CleanRaces \/ HasAllLibraries(rel'[c])
  <2>1. CASE op.kind = "clone"
    <3>1. rel'[c].scope # {None} BY <1>4, <1>5, <2>1, PointFacts
    <3>. QED BY <3>1 DEF HasAllLibraries
  <2>2. CASE op.kind = "recover"
    <3>1. CleanRaces \/ HasAllLibraries(rel[src])
      BY <1>2, <2>2 DEF CodeInv, SettledInv, Settled
    <3>. QED BY <1>2, <1>4, <1>5, <2>2, <3>1 DEF HasAllLibraries
  <2>. QED BY <1>2, <2>1, <2>2
<1>8. /\ op'.kind = op.kind /\ op'.pc = "vindex" /\ op'.dir = c /\ op'.src = src
      /\ op'.parts = {} /\ OpTyped' /\ OpMakes'
  BY <1>1, <1>2, <1>3, <1>5 DEF CodeInv, CodeTyped, OpTyped, Making, OpMakes
<1>9. CodeTyped' BY <1>3, <1>4, <1>8 DEF CodeInv, CodeTyped, sources, served, JobTyped
<1>10. SourceInv' BY <1>2, <1>3, <1>4, <1>8 DEF SourceInv, Settled, Published, served
<1>11. CopyInv'
  BY <1>2, <1>3, <1>4, <1>5, <1>8 DEF CopyInv, Published, served
<1>12. OpInv' BY <1>2, <1>4, <1>8 DEF OpInv, Settled
<1>. QED BY <1>2, <1>3, <1>4, <1>6, <1>7, <1>8, <1>9, <1>10, <1>11, <1>12, OpRelease

LEMMA CloneFailsStep ==
    ASSUME CodeInv, CloneFails PROVE CodeInv'
<1>1. OpMakes
  BY DEF CloneFails, CodeInv, CodeTyped, OpTyped, OpMakes, Making
<1>2. PICK c \in Candidates, src \in Names :
        /\ c = op.dir /\ src = op.src /\ src # c
        /\ c \notin Published /\ rel[c].status \in {"building", "built"}
        /\ job.kind = "build" => job.dir # c
        /\ src = Prod \/ Settled(src)
        /\ op.kind = "recover" => Settled(src) /\ rel[src].eligible
        /\ op.kind = "clone" => src = Prod \/ src \in Published
        /\ op.kind \in {"clone", "recover"}
  BY <1>1, MakingFacts
<1>3. /\ rel' = [rel EXCEPT ![c].status = "failed"] /\ op' = NoOp
      /\ UNCHANGED <<sources, coll, served, snaps, job>>
  BY <1>2 DEF CloneFails, OpEnds
<1>4. /\ rel' \in [Names -> Releases] /\ \A k \in Names : k # c => rel'[k] = rel[k]
      /\ rel'[c].status = "failed"
  <2>1. c \in Names /\ rel[c] \in Releases BY DEF CodeInv, CodeTyped, Names
  <2>2. [rel[c] EXCEPT !.status = "failed"] \in Releases BY <2>1 DEF Releases
  <2>. QED BY <1>3, <2>1, <2>2 DEF CodeInv, CodeTyped, Releases
<1>5. OpTyped' /\ SourceInv' /\ CopyInv' /\ OpInv' /\ ~OpMakes' /\ op'.kind = "idle"
  BY <1>3, OpEnded
<1>6. CodeTyped' BY <1>3, <1>4, <1>5 DEF CodeInv, CodeTyped, sources, served, JobTyped
<1>. QED BY <1>2, <1>3, <1>4, <1>5, <1>6, OpRelease DEF Settled

-----------------------------------------------------------------------------
(* Cleanup.                                                                *)

LEMMA CleanSourcePlanStep ==
    ASSUME CodeInv, NEW l \in Libraries, CleanSourcePlan(l) PROVE CodeInv'
<1>1. /\ op'.kind = "clean_source" /\ op'.pc = "remove" /\ op'.src = l
      /\ op'.dirs = Removable(l) /\ Removable(l) \subseteq Revs /\ marker[l] \notin Removable(l)
      /\ UNCHANGED <<sources, rel, coll, served, snaps, job>>
  BY DEF CleanSourcePlan, Removable, NoOp, CodeInv, CodeTyped
<1>2. OpTyped' BY <1>1 DEF CleanSourcePlan, NoOp, OpTyped
<1>3. CodeTyped' BY <1>1, <1>2 DEF CodeInv, CodeTyped, sources, served, JobTyped
<1>4. ~OpMakes' /\ SourceInv' /\ CopyInv' /\ OpInv'
  BY <1>1 DEF OpMakes, SourceInv, CopyInv, OpInv
<1>5. SourcesInv'
  BY <1>1 DEF CodeInv, SourcesInv, sources, CleanSourcePlan
<1>. QED BY <1>1, <1>3, <1>4, <1>5, OpQuiet DEF sources

LEMMA CleanSourceStep ==
    ASSUME CodeInv, CleanSource PROVE CodeInv'
<1>1. /\ op.kind = "clean_source" /\ op' = NoOp
      /\ checkouts' = [checkouts EXCEPT ![op.src] = @ \ op.dirs]
      /\ UNCHANGED <<marker, notes, rel, coll, served, snaps, job>>
  BY DEF CleanSource, OpEnds
<1>2. OpTyped' /\ SourceInv' /\ CopyInv' /\ OpInv' /\ ~OpMakes' /\ op'.kind = "idle"
  BY <1>1, OpEnded
<1>3. checkouts' \in [Libraries -> SUBSET Revs] BY <1>1 DEF CodeInv, CodeTyped
<1>4. CodeTyped' BY <1>1, <1>2, <1>3 DEF CodeInv, CodeTyped, served, JobTyped
<1>5. SourcesInv'
  <2>. SUFFICES ASSUME ~CleanRaces
                PROVE  /\ \A l \in Libraries : marker[l] \in checkouts'[l]
                       /\ job.pc # "marker"
    BY <1>1, <1>2 DEF SourcesInv
  <2>1. /\ \A l \in Libraries : marker[l] \in checkouts[l]
        /\ job.kind # "sync" /\ marker[op.src] \notin op.dirs
    BY <1>1 DEF CodeInv, SourcesInv
  <2>2. job.pc # "marker" BY <2>1 DEF CodeInv, CodeTyped, JobTyped, Writing
  <2>. QED BY <1>1, <2>1, <2>2 DEF CodeInv, CodeTyped
<1>. QED BY <1>1, <1>2, <1>4, <1>5, OpQuiet

LEMMA PrunePlanStep ==
    ASSUME CodeInv, PrunePlan PROVE CodeInv'
<1>1. /\ op'.kind = "prune" /\ op'.pc = "remove"
      /\ op'.dirs = Present(rel[Prod].chunks) \ Present(rel[Prod].rows)
      /\ UNCHANGED <<sources, rel, coll, served, snaps, job>>
  BY DEF PrunePlan, NoOp
<1>2. OpTyped' BY DEF PrunePlan, NoOp, OpTyped, Present
<1>3. CodeTyped' BY <1>1, <1>2 DEF CodeInv, CodeTyped, sources, served, JobTyped
<1>4. ~OpMakes' /\ SourceInv' /\ CopyInv' /\ OpInv'
  BY <1>1 DEF OpMakes, SourceInv, CopyInv, OpInv
<1>5. \A l \in Libraries : File(l) \notin op'.dirs
  BY <1>1, DocFacts DEF CodeInv, ProdInv, Present
<1>6. SourcesInv' BY <1>1 DEF CodeInv, SourcesInv, sources
<1>. QED BY <1>1, <1>3, <1>4, <1>5, <1>6, OpQuiet DEF sources

LEMMA PruneStep ==
    ASSUME CodeInv, Prune PROVE CodeInv'
<1>. DEFINE F == [d \in Docs |-> IF d \in op.dirs THEN 0 ELSE rel[Prod].chunks[d]]
<1>. Prod \notin Candidates /\ Prod \in Names /\ Candidates \subseteq Names
  BY CodeReleaseConstants DEF Names
<1>1. /\ op.kind = "prune" /\ op' = NoOp /\ rel' = [rel EXCEPT ![Prod].chunks = F]
      /\ UNCHANGED <<sources, coll, served, snaps, job>>
  BY DEF Prune, OpEnds, CodeInv, CodeTyped
<1>2. rel[Prod] \in Releases /\ rel[Prod].chunks \in Files
  BY DEF CodeInv, CodeTyped, Releases
<1>3. F \in Files BY <1>2, BoundFacts DEF Files
<1>4. \A l \in Libraries : F[File(l)] = rel[Prod].chunks[File(l)]
  BY <1>1, DocFacts DEF CodeInv, ProdInv
<1>. HIDE DEF F
<1>5. /\ rel' \in [Names -> Releases] /\ \A c \in Candidates : rel'[c] = rel[c]
      /\ Alike(rel[Prod], rel'[Prod])
  BY <1>1, <1>2, <1>3, <1>4 DEF CodeInv, CodeTyped, Releases, Alike
<1>6. OpTyped' /\ SourceInv' /\ CopyInv' /\ OpInv' /\ ~OpMakes' /\ op'.kind = "idle"
  BY <1>1, OpEnded
<1>7. CodeTyped' BY <1>1, <1>5, <1>6 DEF CodeInv, CodeTyped, sources, served, JobTyped
<1>8. BuildInv' /\ PlanInv' /\ LibrariesInv' /\ DiffInv'
  <2>1. \A c \in Candidates : Alike(rel[c], rel'[c]) BY <1>5, AlikeSelf
  <2>2. job.kind = "build" => job.dir # Prod BY DEF CodeInv, BuildInv
  <2>. QED BY <1>1, <1>6, <1>7, <2>1, <2>2, OpFrame DEF sources, served
<1>9. SettledInv' BY <1>5 DEF CodeInv, SettledInv, Settled
<1>10. ProdInv' BY <1>1, <1>5, <1>6 DEF CodeInv, ProdInv, FilesIndexed, Alike
<1>11. PublishedInv'
  BY <1>1, <1>5 DEF CodeInv, PublishedInv, Settled, Complete, Published, served
<1>12. SourcesInv' BY <1>1, <1>6 DEF CodeInv, SourcesInv, sources
<1>. QED BY <1>6, <1>7, <1>8, <1>9, <1>10, <1>11, <1>12 DEF CodeInv

-----------------------------------------------------------------------------
(* The theorems.                                                           *)

LEMMA CommandStep ==
    ASSUME CodeInv, OpNext \/ CleanNext PROVE CodeInv'
<1>1. ASSUME SnapshotStart PROVE CodeInv'
  BY <1>1, StartStep
<1>2. ASSUME OpDies PROVE CodeInv'
  BY <1>2, OpEndsStep DEF OpDies, OpEnds
<1>. QED BY <1>1, <1>2, StartStep, CloneStartStep, ValidateIndexStep, ValidateSealStep,
         ServedStep, SnapshotTakeStep, RecoverStartStep, RecoverCollectionStep,
         RecoverPrepareStep, CopyPartStep, CopyEndsStep, CloneRecordStep, CloneFailsStep,
         CleanSourcePlanStep, CleanSourceStep, PrunePlanStep, PruneStep
       DEF OpNext, CleanNext

LEMMA CodeStep ==
    ASSUME CodeInv, [Next]_vars PROVE CodeInv'
<1>1. CASE UNCHANGED vars
  BY <1>1 DEF vars, sources, served, CodeInv, CodeTyped, JobTyped, OpTyped, SettledInv, ProdInv,
       PublishedInv, SourcesInv, BuildInv, PlanInv, LibrariesInv, DiffInv, SourceInv, CopyInv,
       OpInv, Settled, FilesIndexed, HasAllLibraries, Published, Complete, OpMakes
<1>. QED BY <1>1, JobStep, CommandStep DEF Next

\* Each conjunct of the invariant, in every state that sync, build, validation,
\* promotion, snapshots and cleanup can reach together.
THEOREM CodeInvariance == Spec => []CodeInv
BY CodeInitially, CodeStep, PTL DEF Spec

\* A release that verify_validated accepts has every file it normalized, at one
\* revision, in its rows, its chunks and its collection, whatever failed on the
\* way, and whatever is written to it afterwards.
THEOREM VerifiedStaysComplete == Spec => []VerifiedIsComplete
<1>1. CodeInv => VerifiedIsComplete
  BY DEF CodeInv, PublishedInv, VerifiedIsComplete, Verified
<1>. QED BY <1>1, CodeInvariance, PTL

\* So does what the alias serves: promotion, rollback, diffs, snapshots, clones
\* and cleanups never leave it at a release with a missing or torn file.
THEOREM ServedStaysComplete == Spec => []ServedIsComplete
<1>1. CodeInv => ServedIsComplete
  BY DEF CodeInv, CodeTyped, PublishedInv, ServedIsComplete, Active, Published, Names
<1>. QED BY <1>1, CodeInvariance, PTL

\* A complete build has every library, provided that no cleanup of a source runs
\* beside a sync of it; the locks of the task store do not ensure that, and with
\* CleanRaces the property is false.
THEOREM EligibleStaysWhole == ASSUME ~CleanRaces PROVE Spec => []EligibleHasAllLibraries
<1>1. CodeInv => EligibleHasAllLibraries
  BY DEF CodeInv, SettledInv, Settled, EligibleHasAllLibraries, Verified, HasAllLibraries, File
<1>. QED BY <1>1, CodeInvariance, PTL
================================================================================
