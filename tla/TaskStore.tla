----------------------------- MODULE TaskStore -----------------------------
(***************************************************************************)
(* governance/tasks.py: the durable task table, its append-only attempts   *)
(* table, the expiring resource locks, and TaskExecutor.execute, which     *)
(* runs one operation under them with a heartbeat thread.                  *)
(*                                                                         *)
(* Every SQLite transaction is one action; everything a process does       *)
(* between two transactions is interleaved with the other processes, with  *)
(* the passage of time and with crashes.  A timestamp is kept as what is   *)
(* left of it: a lock row holds the ticks to expires_at, a task row the    *)
(* ticks since started_at, so that no bound on the clock is needed.        *)
(***************************************************************************)
EXTENDS Naturals, Sequences, FiniteSets

CONSTANTS
  Execs,        \* processes that call TaskExecutor.execute
  Keys,         \* idempotency keys; task_id is one-to-one with the key
  LockKeys,     \* resource lock keys, numbered in their sorted order
  Needs,        \* Needs[k]: the lock_keys the task k is executed with
  TTL,          \* ttl_seconds, in ticks
  MaxAttempts,  \* bound: attempts of one task, beside one for every crash
  MaxCrashes,   \* bound: crashes of executor processes
  LeaseKept,    \* TRUE: heartbeats run and reach the store within the TTL
  OperatorUnlock, \* TRUE: `task unlock --force` may be issued
  None

ASSUME ConstantsAssumption ==
  /\ LockKeys \subseteq Nat /\ IsFiniteSet(LockKeys)
  /\ Needs \in [Keys -> (SUBSET LockKeys) \ {{}}]
  /\ TTL \in Nat \ {0}
  /\ MaxAttempts \in Nat \ {0} /\ MaxCrashes \in Nat
  /\ LeaseKept \in BOOLEAN /\ OperatorUnlock \in BOOLEAN
  /\ None \notin Keys /\ None \notin Execs

VARIABLES
  status,    \* tasks.status, "none" when there is no row
  age,       \* of a running task: ticks since tasks.started_at, up to TTL + 1
  retry,     \* tasks.retry_count
  attempts,  \* attempts.status by attempt_number
  lockTask,  \* locks.task_id, None when there is no row
  lockLeft,  \* ticks to locks.expires_at; 0 means expires_at <= now
  pc, key, held, hb, result,   \* one call of execute: see the actions
  crashes,
  lockBy, att  \* history: who inserted the lock row, which attempt is whose

store == <<status, age, retry, attempts>>
locks == <<lockTask, lockLeft, lockBy>>
procs == <<pc, key, held, hb, result, att>>
vars  == <<store, locks, procs, crashes>>

Terminal == {"completed", "partial", "failed"}
PCs == {"idle", "acquiring", "operating", "returned", "failing",
        "finish_failed", "releasing"}

Init ==
  /\ status = [k \in Keys |-> "none"] /\ age = [k \in Keys |-> 0]
  /\ retry = [k \in Keys |-> 0] /\ attempts = [k \in Keys |-> <<>>]
  /\ lockTask = [l \in LockKeys |-> None]
  /\ lockLeft = [l \in LockKeys |-> 0] /\ lockBy = [l \in LockKeys |-> None]
  /\ pc = [e \in Execs |-> "idle"] /\ key = [e \in Execs |-> None]
  /\ held = [e \in Execs |-> {}] /\ hb = [e \in Execs |-> "off"]
  /\ result = [e \in Execs |-> "failed"] /\ att = [e \in Execs |-> 0]
  /\ crashes = 0

---------------------------------------------------------------------------
(* TaskStore: what the SQL statements do to the rows.                      *)

\* _has_live_lock and _is_stale: a running task whose lease has run out.
HasLockRow(k) == \E l \in LockKeys : lockTask[l] = k   \* mutant: ignores expiry
HasLiveLock(k) == \E l \in LockKeys : lockTask[l] = k /\ lockLeft[l] > 0
IsOld(k) == status[k] = "running" /\ age[k] > TTL       \* mutant: ignores locks
IsStale(k) == status[k] = "running" /\ age[k] > TTL /\ ~HasLiveLock(k)

\* UPDATE attempts ... WHERE status='running': stale recovery closes them.
KeepRunning(s) == s                                     \* mutant: no UPDATE
CloseRunning(s) ==
  [i \in 1 .. Len(s) |-> IF s[i] = "running" THEN "failed" ELSE s[i]]

\* finish: the latest attempt that is still running, if any, gets the outcome.
RecordOnLast(s, outcome) == [s EXCEPT ![Len(s)] = outcome] \* mutant: any status
RecordOutcome(s, outcome) ==
  [i \in 1 .. Len(s) |->
     IF s[i] = "running" /\ \A j \in i + 1 .. Len(s) : s[j] # "running"
       THEN outcome ELSE s[i]]

\* retry_count goes up when the previous attempt did not complete.
RetryAfterFailed(previous) == IF previous = "failed" THEN 1 ELSE 0   \* mutant
RetryIncrement(previous) == IF previous \in {"failed", "partial"} THEN 1 ELSE 0

Finish(k, outcome) ==
  /\ status' = [status EXCEPT ![k] = outcome]
  /\ attempts' = [attempts EXCEPT ![k] = RecordOutcome(attempts[k], outcome)]
  /\ age' = [age EXCEPT ![k] = 0]
  /\ UNCHANGED retry

\* DELETE FROM locks, for the rows of a set of lock keys.
DeleteLocks(L) ==
  /\ lockTask' = [l \in LockKeys |-> IF l \in L THEN None ELSE lockTask[l]]
  /\ lockLeft' = [l \in LockKeys |-> IF l \in L THEN 0 ELSE lockLeft[l]]
  /\ lockBy'   = [l \in LockKeys |-> IF l \in L THEN None ELSE lockBy[l]]

---------------------------------------------------------------------------
(* TaskExecutor.execute.                                                   *)

\* begin: a running task that is not stale is refused (no change); any other
\* is started again under the same task_id with a new attempt row.
Begin(e, k) ==
  LET recovered == IsStale(k)
      rows == IF recovered THEN CloseRunning(attempts[k]) ELSE attempts[k]
      before == IF recovered THEN "failed" ELSE status[k]
  IN
  /\ pc[e] = "idle"
  /\ status[k] # "running" \/ recovered
  /\ Len(attempts[k]) < MaxAttempts + crashes
  /\ status' = [status EXCEPT ![k] = "running"]
  /\ age' = [age EXCEPT ![k] = 0]
  /\ retry' = [retry EXCEPT ![k] =
                 @ + RetryIncrement(before)]
  /\ attempts' = [attempts EXCEPT ![k] = Append(rows, "running")]
  /\ DeleteLocks(IF recovered THEN {l \in LockKeys : lockTask[l] = k} ELSE {})
  /\ pc' = [pc EXCEPT ![e] = "acquiring"]
  /\ key' = [key EXCEPT ![e] = k]
  /\ att' = [att EXCEPT ![e] = Len(attempts[k]) + 1]
  /\ UNCHANGED <<held, hb, result, crashes>>

\* The next lock key in sorted order.
NextLock(e, l) ==
  /\ l \in Needs[key[e]] \ held[e]
  /\ \A m \in Needs[key[e]] \ held[e] : l <= m

ExpiresSoon(l) == lockTask[l] = None \/ lockLeft[l] <= 1   \* mutant: off by one
Available(l) == lockTask[l] = None \/ lockLeft[l] = 0

\* acquire: purge every expired row, then INSERT.
Acquire(e, l) ==
  /\ pc[e] = "acquiring" /\ NextLock(e, l) /\ Available(l)
  /\ LET kept(m) == lockLeft[m] > 0
     IN /\ lockTask' = [m \in LockKeys |-> IF m = l THEN key[e]
                          ELSE IF kept(m) THEN lockTask[m] ELSE None]
        /\ lockLeft' = [lockLeft EXCEPT ![l] = TTL]
        /\ lockBy' = [m \in LockKeys |-> IF m = l THEN e
                        ELSE IF kept(m) THEN lockBy[m] ELSE None]
  /\ held' = [held EXCEPT ![e] = @ \cup {l}]
  /\ UNCHANGED <<store, pc, key, hb, result, att, crashes>>

\* The INSERT violates the primary key: "lock is held", the purge rolls back.
AcquireRefused(e, l) ==
  /\ pc[e] = "acquiring" /\ NextLock(e, l) /\ ~Available(l)
  /\ pc' = [pc EXCEPT ![e] = "failing"]
  /\ UNCHANGED <<store, locks, key, held, hb, result, att, crashes>>

\* All locks are acquired: start the heartbeat thread and call operation().
StartOperation(e) ==
  /\ pc[e] = "acquiring" /\ held[e] = Needs[key[e]]
  /\ pc' = [pc EXCEPT ![e] = "operating"]
  /\ hb' = [hb EXCEPT ![e] = "on"]
  /\ UNCHANGED <<store, locks, key, held, result, att, crashes>>

\* renew: all rows of the lock set must be this task's and live, or nothing
\* is renewed, the error is kept and the thread ends.
LeaseRow(e, l) == lockTask[l] = key[e] /\ lockLeft[l] > 0

Heartbeat(e) ==
  /\ hb[e] = "on"
  /\ \A l \in Needs[key[e]] : LeaseRow(e, l)
  /\ lockLeft' = [l \in LockKeys |-> IF l \in Needs[key[e]] THEN TTL ELSE lockLeft[l]]
  /\ UNCHANGED <<store, lockTask, lockBy, procs, crashes>>

HeartbeatLost(e) ==
  /\ hb[e] = "on"
  /\ \E l \in Needs[key[e]] : ~LeaseRow(e, l)
  /\ hb' = [hb EXCEPT ![e] = "lost"]
  /\ UNCHANGED <<store, locks, pc, key, held, result, att, crashes>>

\* operation() returns; heartbeat_stop is set and the thread joined with a
\* timeout, so a renewal under way may still be running.
OperationReturns(e, outcome, joined) ==
  /\ pc[e] = "operating"
  /\ pc' = [pc EXCEPT ![e] = "returned"]
  /\ result' = [result EXCEPT ![e] = outcome]
  /\ hb' = [hb EXCEPT ![e] = IF joined /\ @ = "on" THEN "off" ELSE @]
  /\ UNCHANGED <<store, locks, key, held, att, crashes>>

OperationRaises(e) ==
  /\ pc[e] = "operating"
  /\ pc' = [pc EXCEPT ![e] = "failing"]
  /\ UNCHANGED <<store, locks, key, held, hb, result, att, crashes>>

\* heartbeat_errors is empty: record the outcome of the operation.
RecordResult(e) ==
  /\ pc[e] = "returned" /\ hb[e] # "lost"
  /\ Finish(key[e], result[e])
  /\ pc' = [pc EXCEPT ![e] = "releasing"]
  /\ result' = [result EXCEPT ![e] = "failed"]
  /\ UNCHANGED <<locks, key, held, hb, att, crashes>>

\* heartbeat_errors is not empty: TaskConflictError.
LeaseLossRaises(e) ==
  /\ pc[e] = "returned" /\ hb[e] = "lost"
  /\ pc' = [pc EXCEPT ![e] = "failing"]
  /\ result' = [result EXCEPT ![e] = "failed"]
  /\ UNCHANGED <<store, locks, key, held, hb, att, crashes>>

\* except BaseException: read the row, and fail it only if it is running.
ReadFailedTask(e) ==
  /\ pc[e] = "failing"
  /\ pc' = [pc EXCEPT ![e] = IF status[key[e]] = "running"
                               THEN "finish_failed" ELSE "releasing"]
  /\ UNCHANGED <<store, locks, key, held, hb, result, att, crashes>>

FinishFailed(e) ==
  /\ pc[e] = "finish_failed"
  /\ Finish(key[e], "failed")
  /\ pc' = [pc EXCEPT ![e] = "releasing"]
  /\ UNCHANGED <<locks, key, held, hb, result, att, crashes>>

\* finally: release in reverse order, each row only while it is this task's.
Release(e, l) ==
  /\ pc[e] = "releasing"
  /\ l \in held[e] /\ \A m \in held[e] : m <= l
  /\ DeleteLocks(IF lockTask[l] = key[e] THEN {l} ELSE {})
  /\ held' = [held EXCEPT ![e] = @ \ {l}]
  /\ UNCHANGED <<store, pc, key, hb, result, att, crashes>>

\* The call is over: its local variables are gone.
Ends(e) ==
  /\ pc' = [pc EXCEPT ![e] = "idle"] /\ key' = [key EXCEPT ![e] = None]
  /\ held' = [held EXCEPT ![e] = {}] /\ hb' = [hb EXCEPT ![e] = "off"]
  /\ result' = [result EXCEPT ![e] = "failed"] /\ att' = [att EXCEPT ![e] = 0]

Return(e) ==
  /\ pc[e] = "releasing" /\ held[e] = {}
  /\ Ends(e)
  /\ UNCHANGED <<store, locks, crashes>>

---------------------------------------------------------------------------
(* The environment.                                                        *)

\* The process dies: its rows stay as they are.
Crash(e) ==
  /\ pc[e] # "idle" /\ crashes < MaxCrashes
  /\ crashes' = crashes + 1
  /\ Ends(e)
  /\ UNCHANGED <<store, locks>>

\* knowledgehub task unlock <lock-key> --force
ForceUnlock(l) ==
  /\ OperatorUnlock /\ lockTask[l] # None
  /\ DeleteLocks({l})
  /\ UNCHANGED <<store, procs, crashes>>

Active(e) == pc[e] \notin {"idle", "releasing"}

\* With LeaseKept no lease of a running process expires, and a process gets
\* from begin to its first lock within the TTL.
Timely ==
  /\ \A e \in Execs : \A l \in held[e] : lockLeft[l] > 1
  /\ \A e \in Execs : Active(e) /\ held[e] = {} => age[key[e]] < TTL

Tick ==
  /\ LeaseKept => Timely
  /\ age' = [k \in Keys |->
               IF status[k] = "running" /\ age[k] <= TTL THEN age[k] + 1 ELSE age[k]]
  /\ lockLeft' = [l \in LockKeys |-> IF lockLeft[l] > 0 THEN lockLeft[l] - 1 ELSE 0]
  /\ UNCHANGED <<status, retry, attempts, lockTask, lockBy, procs, crashes>>

Execute(e) ==
  \/ \E l \in LockKeys : Acquire(e, l) \/ AcquireRefused(e, l) \/ Release(e, l)
  \/ StartOperation(e)
  \/ \E outcome \in Terminal, joined \in BOOLEAN : OperationReturns(e, outcome, joined)
  \/ OperationRaises(e) \/ RecordResult(e) \/ LeaseLossRaises(e)
  \/ ReadFailedTask(e) \/ FinishFailed(e) \/ Return(e)

Next ==
  \/ \E e \in Execs : \/ \E k \in Keys : Begin(e, k)
                      \/ Execute(e)
                      \/ Heartbeat(e)
                      \/ HeartbeatLost(e)
                      \/ Crash(e)
  \/ \E l \in LockKeys : ForceUnlock(l)
  \/ Tick

Spec == Init /\ [][Next]_vars

\* The scheduler runs every process, operations terminate, the heartbeat
\* thread wakes up, time passes, and the systemd timer or the operator issues
\* each command again.
Fairness ==
  /\ \A e \in Execs : WF_vars(Execute(e)) /\ WF_vars(Heartbeat(e))
  /\ \A k \in Keys : WF_vars(\E e \in Execs : Begin(e, k))
  /\ WF_vars(Tick)

FairSpec == Spec /\ Fairness

---------------------------------------------------------------------------
(* Properties.                                                             *)

Outcomes == Terminal \cup {"running"}

\* The rows of tasks, attempts and locks, and the variables of execute, hold
\* values of their kinds; finish accepts only a terminal status.
TypeOK ==
  /\ status \in [Keys -> Outcomes \cup {"none"}]
  /\ age \in [Keys -> 0 .. TTL + 1]
  /\ retry \in [Keys -> Nat]
  /\ attempts \in [Keys -> Seq(Outcomes)]
  /\ lockTask \in [LockKeys -> Keys \cup {None}]
  /\ lockLeft \in [LockKeys -> 0 .. TTL]
  /\ lockBy \in [LockKeys -> Execs \cup {None}]
  /\ pc \in [Execs -> PCs]
  /\ key \in [Execs -> Keys \cup {None}]
  /\ \A e \in Execs : pc[e] # "idle" => key[e] \in Keys
  /\ held \in [Execs -> SUBSET LockKeys]
  /\ hb \in [Execs -> {"off", "on", "lost"}]
  /\ result \in [Execs -> Terminal]
  /\ att \in [Execs -> Nat]
  /\ crashes \in 0 .. MaxCrashes

\* Two executions never hold the same resource lock, whatever crashes and
\* however the transactions of begin, acquire, renew and release interleave
\* (lock rows belong to a task_id, which a retry shares with its predecessor).
MutualExclusion ==
  \A e, f \in Execs : e # f => held[e] \cap held[f] = {}

\* An execution that has not finished is the only one of its task and owns the
\* last attempt row, which is still running: the outcome it will record cannot
\* be credited to another attempt, and nobody recovered it as stale.
RunnerOwnsAttempt ==
  \A e \in Execs : Active(e) =>
    /\ att[e] = Len(attempts[key[e]])
    /\ attempts[key[e]][att[e]] = "running"
    /\ \A f \in Execs : Active(f) /\ key[f] = key[e] => f = e

\* The ledger of attempts: a task is running exactly when its last attempt is,
\* and no earlier attempt is left running by a crash or by a late finish.
AttemptLedger ==
  \A k \in Keys :
    /\ status[k] = "none" <=> attempts[k] = <<>>
    /\ \A i \in 1 .. Len(attempts[k]) :
         attempts[k][i] = "running" <=> i = Len(attempts[k]) /\ status[k] = "running"

\* retry_count counts the attempts that ended failed or partial and were run
\* again, and the task row shows what its last attempt ended with.
RetryCount ==
  \A k \in Keys :
    LET s == attempts[k]
    IN s # <<>> =>
         /\ status[k] = s[Len(s)]
         /\ retry[k] = Cardinality({i \in 1 .. Len(s) - 1 : s[i] \in {"failed", "partial"}})

\* The attempts table is append-only: a closed attempt is never rewritten and
\* no row disappears (docs/v2_architecture.md calls it append-only).
AttemptsAppendOnly ==
  [][\A k \in Keys :
       /\ Len(attempts'[k]) >= Len(attempts[k])
       /\ \A i \in 1 .. Len(attempts[k]) :
            attempts[k][i] # "running" => attempts'[k][i] = attempts[k][i]]_vars

\* A task whose process died is not running for ever: its lease runs out and
\* the next request for it closes the attempt and starts another one.
CrashRecovered ==
  \A k \in Keys :
    (status[k] = "running" /\ \A e \in Execs : ~(Active(e) /\ key[e] = k))
      ~> (status[k] # "running" \/ \E e \in Execs : Active(e) /\ key[e] = k)

\* A renewal that succeeds while the operation runs renews this execution's own
\* lock rows; a lease that was lost and taken over by somebody else makes the renewal fail, so that
\* the task fails instead of continuing unprotected.
RenewsOnlyOwnLease ==
  [][\A e \in Execs : pc[e] = "operating" /\ Heartbeat(e) =>
        \A l \in Needs[key[e]] : lockBy[l] = e]_vars

=============================================================================
