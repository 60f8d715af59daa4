-------------------------- MODULE WritingRetention --------------------------
(***************************************************************************)
(* The end of a writing-material run: when its retention period is over,   *)
(* its provider cache is purged, its releases are retired from under the   *)
(* alias, its directory is quarantined, and after a grace period what is   *)
(* quarantined is destroyed (writing_rag/retention.py,                     *)
(* release_retention.py, retention_coordinator.py).  Every stage writes an *)
(* intent, acts, and writes a receipt, so that a command that died is      *)
(* repeated.  Candidates are the collections this run's releases use.      *)
(***************************************************************************)
EXTENDS CollectionPromotion

CONSTANTS
    Keys,       \* provider cache entries
    Expiry,     \* when the run's retention period ends
    Grace,      \* the quarantine's length
    MaxNow,     \* bound on the clock
    MaxDeaths   \* bound on interrupted commands

ASSUME RetentionConstants ==
    /\ Expiry \in Nat /\ Grace \in Nat \ {0} /\ MaxNow \in Nat
    /\ MaxDeaths \in Nat

VARIABLES
    now,         \* the clock
    run,         \* where the run's directory is
    cache,       \* the scopes of each entry; {} when there is no entry
    scopeFile,   \* cache-scope intent without its receipt: the keys to bind
    cacheFile,   \* cache-purge intent and receipt
    retireFile,  \* release-retirement intent and receipt
    quarantined, \* reference directories in quarantine
    refFile,     \* reference-purge intent and receipt
    runFile,     \* run-quarantine intent and receipt
    coordFile,   \* coordinated intent and receipt
    disposing,   \* the running command is the coordinator's
    deaths

retentionFiles == <<cacheFile, retireFile, refFile, runFile, coordFile>>
answers == <<cache, scopeFile>>
retentionVars == <<promotionVars, now, run, cache, scopeFile, cacheFile, retireFile,
                   quarantined, refFile, runFile, coordFile, disposing, deaths>>

\* An entry written before scopes existed carries no run: "legacy".
Scopes == {"run", "other", "legacy"}

Expired == now >= Expiry

\* A reference directory: the candidate's report, or its release manifest.
Directories == {"report", "manifest"} \X Candidates

\* The live directories that name the run (_references).
References ==
    ({"report"} \X (refs \cap Candidates))
        \cup ({"manifest"} \X (released \cap Candidates))

OwnedBy(dirs) == {d[2] : d \in dirs}

Unscoped == {k \in Keys : "legacy" \in cache[k]}
ScopedToRun == {k \in Keys : "run" \in cache[k]}

\* A command's success ends it, or hands over to the coordinator's next stage.
Return(stage) == Goto(IF disposing THEN stage ELSE "idle")

\* A check in the middle of a command raises: what is written stays.
Raise(s) ==
    /\ step = s
    /\ Goto("idle")
    /\ disposing' = FALSE
    /\ UNCHANGED <<stores, journal, work, then, now, run, answers,
                   retentionFiles, quarantined, deaths>>

-----------------------------------------------------------------------------
(* Provider cache.                                                         *)

\* An extraction stores or reuses an answer; it needs the run's directory.
CacheAnswer(k, r) ==
    /\ Idle
    /\ r = "run" => run = "runs"
    /\ cache' = [cache EXCEPT ![k] = (@ \ {"legacy"}) \cup {r}]
    /\ cache[k] # cache'[k]
    /\ UNCHANGED <<promotionVars, now, run, scopeFile, retentionFiles,
                   quarantined, disposing, deaths>>

\* migrate-cache-scope binds every unscoped entry, one write each; a pending
\* intent is carried on with the keys it names.
MigrateCacheScope ==
    /\ Idle /\ run = "runs"
    /\ scopeFile.on \/ Unscoped # {}
    /\ scopeFile' = IF scopeFile.on THEN scopeFile
                    ELSE [on |-> TRUE, keys |-> Unscoped]
    /\ Goto("migrate")
    /\ UNCHANGED <<stores, journal, work, then, now, run, cache,
                   retentionFiles, quarantined, disposing, deaths>>

BindEntry ==
    /\ step = "migrate"
    /\ \E k \in {j \in scopeFile.keys \ ScopedToRun : cache[j] # {}} :
         cache' = [cache EXCEPT ![k] = (@ \ {"legacy"}) \cup {"run"}]
    /\ UNCHANGED <<promotionVars, now, run, scopeFile, retentionFiles,
                   quarantined, disposing, deaths>>

MigrationDone ==
    /\ step = "migrate"
    /\ scopeFile.keys \subseteq ScopedToRun
    /\ Unscoped = {}
    /\ scopeFile' = [on |-> FALSE, keys |-> {}]
    /\ Goto("idle")
    /\ UNCHANGED <<stores, journal, work, then, now, run, cache,
                   retentionFiles, quarantined, disposing, deaths>>

\* An entry of the intent that is gone cannot be bound.
MigrationFails ==
    /\ \E k \in scopeFile.keys : cache[k] = {}
    /\ Raise("migrate")

\* The part of purge_cache_scope before its first write.
CachePurgeReady == run = "runs" /\ Expired /\ Unscoped = {}

CachePurgeBegins ==
    /\ CachePurgeReady
    /\ ~cacheFile.done
    /\ cacheFile' = IF cacheFile.on THEN cacheFile
                    ELSE [on |-> TRUE, keys |-> ScopedToRun, done |-> FALSE]
    /\ Goto("unscope")
    /\ UNCHANGED <<stores, journal, work, then, now, run, answers, retireFile,
                   refFile, runFile, coordFile, quarantined, deaths>>

PurgeCacheScope == Idle /\ CachePurgeBegins /\ UNCHANGED disposing

\* Mutant of UnscopeEntry: an entry is deleted although another run holds it.
DropEntry ==
    /\ step = "unscope"
    /\ \E k \in cacheFile.keys \cap ScopedToRun : cache' = [cache EXCEPT ![k] = {}]
    /\ UNCHANGED <<promotionVars, now, run, scopeFile, retentionFiles, quarantined,
                   disposing, deaths>>

\* The run's scope is removed from one entry; an entry no run holds goes.
UnscopeEntry ==
    /\ step = "unscope"
    /\ \E k \in cacheFile.keys \cap ScopedToRun :
         cache' = [cache EXCEPT ![k] = @ \ {"run"}]
    /\ UNCHANGED <<promotionVars, now, run, scopeFile, retentionFiles, quarantined,
                   disposing, deaths>>

\* Entries that appeared since the intent make the purge fail.
CachePurged ==
    /\ step = "unscope"
    /\ ScopedToRun = {}
    /\ cacheFile' = [cacheFile EXCEPT !.done = TRUE]
    /\ Return("retire")
    /\ UNCHANGED <<stores, journal, work, then, now, run, answers, retireFile,
                   refFile, runFile, coordFile, quarantined, disposing, deaths>>

CachePurgeFails ==
    /\ cacheFile.keys \cap ScopedToRun = {}
    /\ ScopedToRun # {}
    /\ Raise("unscope")

-----------------------------------------------------------------------------
(* Release retirement.                                                     *)

NoAction == [op |-> "none", retired |-> NoColl, fallback |-> NoColl]

\* Whether the alias state allows the owned collections to be retired, and
\* what it takes (_alias_action).
AliasAction(owned) ==
    IF current.active \in owned
      THEN [op |-> "rollback", retired |-> current.active,
            fallback |-> current.prev]
    ELSE IF current.prev \in owned
      THEN [op |-> "retire_previous", retired |-> current.prev,
            fallback |-> current.active]
    ELSE NoAction

AliasAllows(owned) ==
    /\ alias # NoColl /\ alias = current.active
    /\ staged \in owned => staged \in {current.active, current.prev}
    /\ LET action == AliasAction(owned)
       IN action.op # "none" => /\ action.fallback \notin owned
                                /\ action.fallback \in coll

RetirementReady ==
    /\ run = "runs" /\ Expired
    /\ References # {}
    /\ AliasAllows(OwnedBy(References))

\* What every attempt re-checks against the intent (_verify_resume_safety).
ResumeSafe(intent) ==
    /\ run = "runs" /\ Expired
    /\ intent.colls \cap coll \subseteq intent.existing
    /\ \A d \in intent.dirs : (d \in References) # (d \in quarantined)

RetirementIntent ==
    LET owned == OwnedBy(References)
    IN [on |-> TRUE, done |-> FALSE, at |-> 0, dirs |-> References,
        colls |-> owned, existing |-> owned \cap coll,
        action |-> AliasAction(owned)]

RetirementBegins ==
    LET intent == IF retireFile.on THEN retireFile ELSE RetirementIntent
    IN /\ ~retireFile.done
       /\ retireFile.on \/ RetirementReady
       /\ ResumeSafe(intent)
       /\ retireFile' = intent
       /\ Goto("fallback")
       /\ UNCHANGED <<stores, journal, work, then, now, run, answers, cacheFile,
                      refFile, runFile, coordFile, quarantined, deaths>>

DecommissionRelease == Idle /\ RetirementBegins /\ UNCHANGED disposing

\* The alias is moved off a live target, or found to have left it already.
EnsureFallback ==
    /\ step = "fallback"
    /\ LET action == retireFile.action
           live == alias = action.retired /\ current.active = action.retired
           left == /\ alias = action.fallback /\ current.active = alias
                   /\ current.prev \in {action.retired, NoColl}
       IN \/ /\ action.op = "rollback" /\ live
             /\ RollbackThen("rolled")
          \/ /\ action.op = "none" \/ (~(action.op = "rollback" /\ live) /\ left)
             /\ Goto("delete")
             /\ UNCHANGED <<stores, journal, work, then>>
          \/ /\ action.op # "none" /\ ~left
             /\ (action.op = "rollback" /\ live) =>
                    (Pending \/ current.prev \notin coll)
             /\ Goto("idle")
             /\ UNCHANGED <<stores, journal, work, then>>
    /\ disposing' = (disposing /\ step' # "idle")
    /\ UNCHANGED <<now, run, answers, retentionFiles, quarantined, deaths>>

\* The rollback must have reached the fallback of the intent.
FallbackReached ==
    /\ step = "rolled"
    /\ Goto(IF alias = retireFile.action.fallback THEN "delete" ELSE "idle")
    /\ disposing' = (disposing /\ alias = retireFile.action.fallback)
    /\ UNCHANGED <<stores, journal, work, then, now, run, answers,
                   retentionFiles, quarantined, deaths>>

\* Mutant of DeleteCollection: the live alias is not asked for again.
DeleteUnasked ==
    /\ step = "delete"
    /\ \E c \in retireFile.colls \cap coll :
         /\ coll' = coll \ {c}
         /\ merged' = merged \ {c}
    /\ UNCHANGED <<refs, released, journal, work, step, then, now, run, answers,
                   retentionFiles, quarantined, disposing, deaths>>

\* One collection is deleted, never the live target.
DeleteCollection ==
    /\ step = "delete"
    /\ \E c \in (retireFile.colls \cap coll) \ {alias} :
         /\ coll' = coll \ {c}
         /\ merged' = merged \ {c}
    /\ UNCHANGED <<refs, released, journal, work, step, then, now, run, answers,
                   retentionFiles, quarantined, disposing, deaths>>

DeleteRefused == alias \in retireFile.colls /\ Raise("delete")

CollectionsDeleted ==
    /\ step = "delete"
    /\ retireFile.colls \cap (coll \cup {alias}) = {}
    /\ Goto("move")
    /\ UNCHANGED <<stores, journal, work, then, now, run, answers,
                   retentionFiles, quarantined, disposing, deaths>>

\* One reference directory is renamed into quarantine.
MoveDirectory ==
    /\ step = "move"
    /\ \E d \in retireFile.dirs \cap References :
         /\ quarantined' = quarantined \cup {d}
         /\ refs' = IF d[1] = "report" THEN refs \ {d[2]} ELSE refs
         /\ released' = IF d[1] = "manifest" THEN released \ {d[2]} ELSE released
    /\ UNCHANGED <<coll, merged, journal, work, step, then, now, run, answers,
                   retentionFiles, disposing, deaths>>

DirectoriesMoved ==
    /\ step = "move"
    /\ retireFile.dirs \cap References = {}
    /\ Goto(IF retireFile.action.op = "none" THEN "retired" ELSE "finalize")
    /\ UNCHANGED <<stores, journal, work, then, now, run, answers,
                   retentionFiles, quarantined, disposing, deaths>>

\* finalize_retired_previous: the staged file goes first, current.json next.
FinalizeAllowed ==
    LET retired == retireFile.action.retired
    IN /\ ~Pending
       /\ current.active # NoColl /\ alias = current.active
       /\ \/ current.prev = NoColl
          \/ /\ current.prev = retired /\ current.active # retired
             /\ staged \in {NoColl, retired, current.active}

ForgetStaged ==
    /\ step = "finalize"
    /\ FinalizeAllowed
    /\ staged' = IF staged = retireFile.action.retired THEN NoColl ELSE staged
    /\ Goto("forget")
    /\ UNCHANGED <<stores, alias, current, txn, work, then, now, run, answers,
                   retentionFiles, quarantined, disposing, deaths>>

FinalizeRefused == ~FinalizeAllowed /\ Raise("finalize")

ForgetPrevious ==
    /\ step = "forget"
    /\ current' = [current EXCEPT !.prev = NoColl, !.pdir = NoColl,
                                  !.prel = NoColl]
    /\ Goto("retired")
    /\ UNCHANGED <<stores, alias, staged, txn, work, then, now, run, answers,
                   retentionFiles, quarantined, disposing, deaths>>

RetirementDone ==
    /\ step = "retired"
    /\ retireFile' = [retireFile EXCEPT !.done = TRUE, !.at = now]
    /\ Return("quarantine")
    /\ UNCHANGED <<stores, journal, work, then, now, run, answers, cacheFile,
                   refFile, runFile, coordFile, quarantined, disposing, deaths>>

\* A repeated decommission checks that nothing came back.
RetirementHolds ==
    /\ References = {}
    /\ retireFile.colls \cap (coll \cup {alias}) = {}
    /\ refFile.done \/ retireFile.dirs \subseteq quarantined

-----------------------------------------------------------------------------
(* Run quarantine and the purges.                                          *)

\* Mutant of QuarantineReady: the order of the stages is not checked.
QuarantineUnordered == run = "runs" /\ Expired

\* _plan_run: due, unreferenced, and nothing of the run in the cache.
QuarantineReady ==
    /\ run = "runs" /\ Expired
    /\ References = {}
    /\ Unscoped = {} /\ ScopedToRun = {}

\* A new attempt plans at a new time, so an intent left by an earlier attempt
\* never equals the one just made, and quarantine refuses to replace it.
QuarantineBegins ==
    /\ QuarantineReady
    /\ ~runFile.on
    /\ runFile' = [on |-> TRUE, status |-> "none", at |-> now]
    /\ Goto("rename")
    /\ UNCHANGED <<stores, journal, work, then, now, run, answers, cacheFile,
                   retireFile, refFile, coordFile, quarantined, deaths>>

\* A run already renamed only misses its receipt.
QuarantineResumes ==
    /\ run = "quarantined" /\ runFile.status = "none"
    /\ Goto("receipt")
    /\ UNCHANGED <<stores, journal, work, then, now, run, answers,
                   retentionFiles, quarantined, deaths>>

Quarantine ==
    /\ Idle
    /\ QuarantineBegins \/ QuarantineResumes
    /\ UNCHANGED disposing

RenameRun ==
    /\ step = "rename"
    /\ run' = "quarantined"
    /\ Goto("receipt")
    /\ UNCHANGED <<stores, journal, work, then, now, answers, retentionFiles,
                   quarantined, disposing, deaths>>

QuarantineReceipt ==
    /\ step = "receipt"
    /\ runFile' = [runFile EXCEPT !.status = "quarantined"]
    /\ Return("disposed")
    /\ UNCHANGED <<stores, journal, work, then, now, run, answers, cacheFile,
                   retireFile, refFile, coordFile, quarantined, disposing,
                   deaths>>

RunGraceOver == now >= runFile.at + Grace

ReferenceGraceOver == now >= retireFile.at + Grace

\* reference_purge_plan before its intent: nothing came back, grace over.
ReferencePurgeReady ==
    /\ retireFile.done /\ ReferenceGraceOver
    /\ retireFile.colls \cap (coll \cup {alias}) = {}
    /\ retireFile.dirs \subseteq quarantined

ReferencePurgeBegins ==
    /\ ~refFile.done
    /\ refFile.on \/ ReferencePurgeReady
    /\ refFile' = [refFile EXCEPT !.on = TRUE]
    /\ Goto("refpurge")
    /\ UNCHANGED <<stores, journal, work, then, now, run, answers, cacheFile,
                   retireFile, runFile, coordFile, quarantined, deaths>>

PurgeReferences == Idle /\ ReferencePurgeBegins /\ UNCHANGED disposing

RemoveDirectory ==
    /\ step = "refpurge"
    /\ \E d \in retireFile.dirs \cap quarantined :
         quarantined' = quarantined \ {d}
    /\ UNCHANGED <<promotionVars, now, run, answers, retentionFiles, disposing,
                   deaths>>

ReferencesPurged ==
    /\ step = "refpurge"
    /\ retireFile.dirs \cap quarantined = {}
    /\ refFile' = [refFile EXCEPT !.done = TRUE]
    /\ Return("rmtree")
    /\ UNCHANGED <<stores, journal, work, then, now, run, answers, cacheFile,
                   retireFile, runFile, coordFile, quarantined, disposing,
                   deaths>>

\* purge: a run whose directory is already gone only misses its receipt; one
\* whose removal was cut short no longer has the inventory of its receipt.
Purge ==
    /\ Idle
    /\ runFile.status = "quarantined"
    /\ RunGraceOver
    /\ run \in {"quarantined", "purged"}
    /\ Goto("rmtree")
    /\ UNCHANGED <<stores, journal, work, then, now, run, answers,
                   retentionFiles, quarantined, disposing, deaths>>

RemoveRun ==
    /\ step = "rmtree" /\ run = "quarantined"
    /\ run' = "purged"
    /\ UNCHANGED <<promotionVars, now, answers, retentionFiles, quarantined,
                   disposing, deaths>>

RunPurged ==
    /\ step = "rmtree" /\ run = "purged"
    /\ runFile' = [runFile EXCEPT !.status = "purged"]
    /\ Goto("idle")
    /\ disposing' = FALSE
    /\ UNCHANGED <<stores, journal, work, then, now, run, answers, cacheFile,
                   retireFile, refFile, coordFile, quarantined, deaths>>

-----------------------------------------------------------------------------
(* The coordinator.                                                        *)

\* What plan() finds to do; blocked when a stage is neither done nor doable.
CacheBlocked == Unscoped # {} \/ (cacheFile.done /\ ScopedToRun # {})
ReleaseBlocked ==
    IF retireFile.done THEN ~RetirementHolds
    ELSE References # {} /\ ~RetirementReady

CoordinatedIntent ==
    [on |-> TRUE, done |-> FALSE,
     cache |-> cacheFile.done \/ ScopedToRun # {},
     release |-> retireFile.done \/ References # {}]

\* dispose, up to its first stage.  Every attempt walks the stages again; a
\* stage with a receipt is passed by.
Dispose ==
    /\ Idle
    /\ ~coordFile.done
    /\ \/ coordFile.on
       \/ runFile.status # "none"
       \/ run = "runs" /\ Expired /\ ~CacheBlocked /\ ~ReleaseBlocked
    /\ coordFile' = IF coordFile.on THEN coordFile
                    ELSE IF runFile.status # "none"
                      THEN [CoordinatedIntent EXCEPT !.cache = cacheFile.done,
                                                     !.release = retireFile.done]
                      ELSE CoordinatedIntent
    /\ disposing' = TRUE
    /\ Goto(IF runFile.status # "none" THEN "disposed" ELSE "cache")
    /\ UNCHANGED <<stores, journal, work, then, now, run, answers, cacheFile,
                   retireFile, refFile, runFile, quarantined, deaths>>

CacheStage ==
    /\ step = "cache"
    /\ \/ /\ coordFile.cache
          /\ CachePurgeBegins
       \/ /\ coordFile.cache => /\ cacheFile.done /\ CachePurgeReady
                                /\ ScopedToRun = {}
          /\ Goto("retire")
          /\ UNCHANGED <<stores, journal, work, then, now, run, answers,
                         retentionFiles, quarantined, deaths>>
    /\ UNCHANGED disposing

CacheStageFails ==
    /\ coordFile.cache
    /\ ~CachePurgeReady \/ (cacheFile.done /\ ScopedToRun # {})
    /\ Raise("cache")

ReleaseStage ==
    /\ step = "retire"
    /\ \/ /\ coordFile.release
          /\ RetirementBegins
       \/ /\ coordFile.release => retireFile.done /\ RetirementHolds
          /\ Goto("quarantine")
          /\ UNCHANGED <<stores, journal, work, then, now, run, answers,
                         retentionFiles, quarantined, deaths>>
    /\ UNCHANGED disposing

ReleaseStageFails ==
    /\ coordFile.release
    /\ IF retireFile.done THEN ~RetirementHolds
       ELSE IF retireFile.on THEN ~ResumeSafe(retireFile)
       ELSE ~(RetirementReady /\ ResumeSafe(RetirementIntent))
    /\ Raise("retire")

QuarantineStage ==
    /\ step = "quarantine"
    /\ QuarantineBegins \/ QuarantineResumes
    /\ UNCHANGED disposing

QuarantineStageFails ==
    /\ run = "runs" => runFile.on \/ ~QuarantineReady
    /\ run = "quarantined" => runFile.status # "none"
    /\ Raise("quarantine")

Disposed ==
    /\ step = "disposed"
    /\ coordFile' = [coordFile EXCEPT !.done = TRUE]
    /\ Goto("idle")
    /\ disposing' = FALSE
    /\ UNCHANGED <<stores, journal, work, then, now, run, answers, cacheFile,
                   retireFile, refFile, runFile, quarantined, deaths>>

\* purge-disposition: both grace periods are over; references go first.
PurgeDisposition ==
    /\ Idle
    /\ runFile.status # "none"
    /\ runFile.status = "quarantined" => RunGraceOver
    /\ \/ retireFile.done /\ ~refFile.done /\ disposing' = TRUE
          /\ ReferenceGraceOver
          /\ ReferencePurgeBegins
       \/ /\ ~retireFile.done \/ refFile.done
          /\ runFile.status = "quarantined" /\ run \in {"quarantined", "purged"}
          /\ Goto("rmtree")
          /\ UNCHANGED <<stores, journal, work, then, now, run, answers,
                         retentionFiles, quarantined, disposing, deaths>>

\* A purge of both finds the run's directory cut short, or its receipt done.
PurgeStageFails ==
    /\ run \notin {"quarantined", "purged"}
    /\ Raise("rmtree")

-----------------------------------------------------------------------------
(* The clock, and a process that dies.                                     *)

Tick ==
    /\ Idle /\ now < MaxNow
    /\ now' = now + 1
    /\ UNCHANGED <<promotionVars, run, answers, retentionFiles, quarantined,
                   disposing, deaths>>

\* A death inside rmtree may leave part of the directory behind.
Interrupted ==
    /\ deaths < MaxDeaths
    /\ deaths' = deaths + 1
    /\ Die
    /\ disposing' = FALSE
    /\ run' \in IF step = "rmtree" /\ run = "quarantined"
                THEN {"quarantined", "partial"} ELSE {run}
    /\ UNCHANGED <<now, answers, retentionFiles, quarantined>>

RetentionInit ==
    /\ PromotionInit
    /\ now = 0
    /\ run = "runs"
    /\ cache \in [Keys -> {{}, {"legacy"}, {"run"}}]
    /\ scopeFile = [on |-> FALSE, keys |-> {}]
    /\ cacheFile = [on |-> FALSE, keys |-> {}, done |-> FALSE]
    /\ retireFile = [on |-> FALSE, done |-> FALSE, at |-> 0, dirs |-> {},
                     colls |-> {}, existing |-> {}, action |-> NoAction]
    /\ quarantined = {}
    /\ refFile = [on |-> FALSE, done |-> FALSE]
    /\ runFile = [on |-> FALSE, status |-> "none", at |-> 0]
    /\ coordFile = [on |-> FALSE, done |-> FALSE, cache |-> FALSE,
                    release |-> FALSE]
    /\ disposing = FALSE
    /\ deaths = 0

\* A build validates the run, which its expiry and its absence refuse.
ReleaseNext ==
    /\ \/ /\ run = "runs" /\ ~Expired
          /\ \E c \in Candidates : StartBuild(c)
       \/ Merge
       \/ WriteReport
       \/ WriteManifest
       \/ AliasNext
    /\ disposing' = (disposing /\ step' # "idle")
    /\ UNCHANGED <<now, run, answers, retentionFiles, quarantined, deaths>>

CacheNext ==
    \/ \E k \in Keys, r \in {"run", "other"} : CacheAnswer(k, r)
    \/ MigrateCacheScope
    \/ BindEntry
    \/ MigrationDone
    \/ MigrationFails
    \/ PurgeCacheScope
    \/ UnscopeEntry
    \/ CachePurged
    \/ CachePurgeFails

RetireStep ==
    \/ EnsureFallback
    \/ FallbackReached
    \/ DeleteCollection
    \/ DeleteRefused
    \/ CollectionsDeleted
    \/ MoveDirectory
    \/ DirectoriesMoved
    \/ ForgetStaged
    \/ FinalizeRefused
    \/ ForgetPrevious
    \/ RetirementDone

RunNext ==
    \/ Quarantine
    \/ RenameRun
    \/ QuarantineReceipt
    \/ PurgeReferences
    \/ RemoveDirectory
    \/ ReferencesPurged
    \/ Purge
    \/ RemoveRun
    \/ RunPurged

CoordinatorNext ==
    \/ Dispose
    \/ CacheStage
    \/ CacheStageFails
    \/ ReleaseStage
    \/ ReleaseStageFails
    \/ QuarantineStage
    \/ QuarantineStageFails
    \/ Disposed
    \/ PurgeDisposition
    \/ PurgeStageFails

RetentionNext ==
    \/ ReleaseNext
    \/ CacheNext
    \/ DecommissionRelease
    \/ RetireStep
    \/ RunNext
    \/ CoordinatorNext
    \/ Tick
    \/ Interrupted

RetentionSpec == RetentionInit /\ [][RetentionNext]_retentionVars

-----------------------------------------------------------------------------
(* Properties.                                                             *)

\* Whatever is retired, resumed or rolled back, the collection being served
\* exists (decommission refuses to delete the live alias target).
ServedExists == Served \in coll

\* A run leaves runs/ only after its cache scope and its references, and they
\* do not come back (the coordinator's strict order, also when the commands
\* are called one by one).
QuarantinedIsUnreferenced ==
    run # "runs" => References = {} /\ ScopedToRun = {}

\* An answer another run still holds is never taken from it.
SharedAnswersKept ==
    [][\A k \in Keys : "other" \in cache[k] => "other" \in cache'[k]]_retentionVars

=============================================================================
