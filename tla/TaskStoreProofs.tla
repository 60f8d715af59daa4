-------------------------- MODULE TaskStoreProofs --------------------------
(***************************************************************************)
(* Theorems about TaskStore, for every set of processes, tasks and locks,  *)
(* every TTL and any number of attempts and crashes.                       *)
(***************************************************************************)
EXTENDS TaskStore, SequenceTheorems, FiniteSetTheorems, TLAPS

---------------------------------------------------------------------------
(* What the two UPDATE statements on the attempts table return.            *)

\* Closing the running attempts keeps every row and every closed outcome.
LEMMA CloseRunningRows ==
  ASSUME NEW s \in Seq(Outcomes)
  PROVE  /\ CloseRunning(s) \in Seq(Outcomes)
         /\ Len(CloseRunning(s)) = Len(s)
         /\ \A i \in 1 .. Len(s) :
              CloseRunning(s)[i] = IF s[i] = "running" THEN "failed" ELSE s[i]
<1> DEFINE f == [i \in 1 .. Len(s) |-> IF s[i] = "running" THEN "failed" ELSE s[i]]
<1>1. Len(s) \in Nat /\ \A i \in 1 .. Len(s) : s[i] \in Outcomes
  OBVIOUS
<1>2. f \in [1 .. Len(s) -> Outcomes]
  BY <1>1 DEF Outcomes, Terminal
<1>3. f \in Seq(Outcomes)
  BY <1>1, <1>2, SeqDef
<1>4. Len(f) = Len(s)
  BY <1>1, <1>2, <1>3, LenProperties
<1> QED
  BY <1>3, <1>4 DEF CloseRunning

\* Recording an outcome changes the last running row only, if there is one.
LEMMA RecordOutcomeRows ==
  ASSUME NEW s \in Seq(Outcomes), NEW outcome \in Outcomes
  PROVE  /\ RecordOutcome(s, outcome) \in Seq(Outcomes)
         /\ Len(RecordOutcome(s, outcome)) = Len(s)
         /\ \A i \in 1 .. Len(s) :
              RecordOutcome(s, outcome)[i] =
                IF s[i] = "running" /\ \A j \in i + 1 .. Len(s) : s[j] # "running"
                  THEN outcome ELSE s[i]
<1> DEFINE f == [i \in 1 .. Len(s) |->
                   IF s[i] = "running" /\ \A j \in i + 1 .. Len(s) : s[j] # "running"
                     THEN outcome ELSE s[i]]
<1>1. Len(s) \in Nat /\ \A i \in 1 .. Len(s) : s[i] \in Outcomes
  OBVIOUS
<1>2. f \in [1 .. Len(s) -> Outcomes]
  BY <1>1
<1>3. f \in Seq(Outcomes)
  BY <1>1, <1>2, SeqDef
<1>4. Len(f) = Len(s)
  BY <1>1, <1>2, <1>3, LenProperties
<1> QED
  BY <1>3, <1>4 DEF RecordOutcome

---------------------------------------------------------------------------
(* The rows and the processes keep their types, and a call that is over    *)
(* holds nothing.                                                          *)

Typed == TypeOK /\ \A e \in Execs : pc[e] = "idle" => held[e] = {}

\* DELETE FROM locks keeps the types of the lock table.
LEMMA DeleteLocksTyped ==
  ASSUME TypeOK, NEW L, DeleteLocks(L)
  PROVE  /\ lockTask' \in [LockKeys -> Keys \cup {None}]
         /\ lockLeft' \in [LockKeys -> 0 .. TTL]
         /\ lockBy' \in [LockKeys -> Execs \cup {None}]
BY ConstantsAssumption DEF TypeOK, DeleteLocks

\* finish keeps the types of the task and the attempt table.
LEMMA FinishTyped ==
  ASSUME TypeOK, NEW k \in Keys, NEW outcome \in Terminal, Finish(k, outcome)
  PROVE  /\ status' \in [Keys -> Outcomes \cup {"none"}]
         /\ age' \in [Keys -> 0 .. TTL + 1]
         /\ retry' \in [Keys -> Nat]
         /\ attempts' \in [Keys -> Seq(Outcomes)]
<1>1. RecordOutcome(attempts[k], outcome) \in Seq(Outcomes)
  BY RecordOutcomeRows DEF TypeOK, Outcomes
<1> QED
  BY <1>1, ConstantsAssumption DEF TypeOK, Finish, Outcomes

\* begin keeps the types of the task and the attempt table.
LEMMA BeginTyped ==
  ASSUME TypeOK, NEW e \in Execs, NEW k \in Keys, Begin(e, k)
  PROVE  /\ status' \in [Keys -> Outcomes \cup {"none"}]
         /\ age' \in [Keys -> 0 .. TTL + 1]
         /\ retry' \in [Keys -> Nat]
         /\ attempts' \in [Keys -> Seq(Outcomes)]
         /\ att' \in [Execs -> Nat]
<1> DEFINE rows == IF IsStale(k) THEN CloseRunning(attempts[k]) ELSE attempts[k]
           before == IF IsStale(k) THEN "failed" ELSE status[k]
<1>1. attempts[k] \in Seq(Outcomes) /\ rows \in Seq(Outcomes)
  BY CloseRunningRows DEF TypeOK
<1>2. Append(rows, "running") \in Seq(Outcomes)
  BY <1>1 DEF Outcomes
<1>3. attempts' = [attempts EXCEPT ![k] = Append(rows, "running")]
  BY DEF Begin
<1>4. attempts' \in [Keys -> Seq(Outcomes)]
  BY <1>2, <1>3 DEF TypeOK
<1>5. RetryIncrement(before) \in Nat
  BY DEF RetryIncrement
<1>6. retry' \in [Keys -> Nat]
  BY <1>5 DEF TypeOK, Begin
<1>7. Len(attempts[k]) + 1 \in Nat
  BY <1>1
<1>8. att' \in [Execs -> Nat]
  BY <1>7 DEF TypeOK, Begin
<1>9. status' \in [Keys -> Outcomes \cup {"none"}] /\ age' \in [Keys -> 0 .. TTL + 1]
  BY ConstantsAssumption DEF TypeOK, Begin, Outcomes
<1> QED
  BY <1>4, <1>6, <1>8, <1>9

\* Every step keeps the types.
LEMMA TypedStep == Typed /\ [Next]_vars => Typed'
<1> SUFFICES ASSUME Typed, [Next]_vars PROVE Typed'
  OBVIOUS
<1> USE ConstantsAssumption
<1>1. CASE UNCHANGED vars
  BY <1>1 DEF Typed, TypeOK, vars, store, locks, procs
<1>2. ASSUME NEW e \in Execs, NEW k \in Keys, Begin(e, k) PROVE Typed'
  <2>1. PICK L : DeleteLocks(L)
    BY <1>2 DEF Begin
  <2>2. /\ pc' = [pc EXCEPT ![e] = "acquiring"] /\ key' = [key EXCEPT ![e] = k]
        /\ UNCHANGED <<held, hb, result, crashes>>
    BY <1>2 DEF Begin
  <2> QED
    BY <1>2, <2>1, <2>2, DeleteLocksTyped, BeginTyped DEF Typed, TypeOK, PCs
<1>3. ASSUME NEW e \in Execs, NEW l \in LockKeys, Acquire(e, l) PROVE Typed'
  BY <1>3 DEF Typed, TypeOK, PCs, Acquire, store
<1>4. ASSUME NEW e \in Execs, NEW l \in LockKeys, Release(e, l) PROVE Typed'
  <2>1. PICK L : DeleteLocks(L)
    BY <1>4 DEF Release
  <2> QED
    BY <1>4, <2>1, DeleteLocksTyped DEF Typed, TypeOK, PCs, Release, store
<1>5. ASSUME NEW e \in Execs,
             \/ \E l \in LockKeys : AcquireRefused(e, l)
             \/ StartOperation(e) \/ OperationRaises(e) \/ LeaseLossRaises(e)
             \/ \E outcome \in Terminal, joined \in BOOLEAN :
                  OperationReturns(e, outcome, joined)
             \/ ReadFailedTask(e) \/ HeartbeatLost(e) \/ Return(e)
      PROVE Typed'
  <2> USE DEF Typed, TypeOK, PCs, Terminal, store, locks
  <2>1. CASE \E l \in LockKeys : AcquireRefused(e, l)
    BY <2>1 DEF AcquireRefused
  <2>2. CASE StartOperation(e)
    BY <2>2 DEF StartOperation
  <2>3. CASE OperationRaises(e) \/ LeaseLossRaises(e)
    BY <2>3 DEF OperationRaises, LeaseLossRaises
  <2>4. CASE \E outcome \in Terminal, joined \in BOOLEAN :
               OperationReturns(e, outcome, joined)
    BY <2>4 DEF OperationReturns
  <2>5. CASE ReadFailedTask(e)
    BY <2>5 DEF ReadFailedTask
  <2>6. CASE HeartbeatLost(e)
    BY <2>6 DEF HeartbeatLost
  <2>7. CASE Return(e)
    BY <2>7 DEF Return, Ends
  <2> QED
    BY <1>5, <2>1, <2>2, <2>3, <2>4, <2>5, <2>6, <2>7
<1>6. ASSUME NEW e \in Execs, RecordResult(e) PROVE Typed'
  <2>1. key[e] \in Keys /\ result[e] \in Terminal /\ Finish(key[e], result[e])
    BY <1>6 DEF Typed, TypeOK, RecordResult
  <2> QED
    BY <1>6, <2>1, FinishTyped
      DEF Typed, TypeOK, PCs, Terminal, RecordResult, locks
<1>7. ASSUME NEW e \in Execs, FinishFailed(e) PROVE Typed'
  <2>1. key[e] \in Keys /\ "failed" \in Terminal /\ Finish(key[e], "failed")
    BY <1>7 DEF Typed, TypeOK, FinishFailed, Terminal
  <2> QED
    BY <1>7, <2>1, FinishTyped DEF Typed, TypeOK, PCs, FinishFailed, locks
<1>8. ASSUME NEW e \in Execs, Heartbeat(e) PROVE Typed'
  BY <1>8 DEF Typed, TypeOK, Heartbeat, store, procs
<1>9. ASSUME NEW e \in Execs, Crash(e) PROVE Typed'
  BY <1>9 DEF Typed, TypeOK, PCs, Terminal, Crash, Ends, store, locks
<1>10. ASSUME NEW l \in LockKeys, ForceUnlock(l) PROVE Typed'
  <2>1. DeleteLocks({l})
    BY <1>10 DEF ForceUnlock
  <2> QED
    BY <1>10, <2>1, DeleteLocksTyped DEF Typed, TypeOK, ForceUnlock, store, procs
<1>11. CASE Tick
  BY <1>11 DEF Typed, TypeOK, Tick, procs
<1> QED
  BY <1>1, <1>2, <1>3, <1>4, <1>5, <1>6, <1>7, <1>8, <1>9, <1>10, <1>11
    DEF Next, Execute

\* The rows of the store and the local state of every process keep their
\* types, whatever crashes, expires or is unlocked by force.
THEOREM TypeCorrect == Spec => []TypeOK
<1>1. Init => Typed
  BY ConstantsAssumption DEF Init, Typed, TypeOK, PCs, Terminal
<1>2. Typed /\ [Next]_vars => Typed'
  BY TypedStep
<1>3. Typed => TypeOK
  BY DEF Typed
<1> QED
  BY <1>1, <1>2, <1>3, PTL DEF Spec

---------------------------------------------------------------------------
(* The attempts table, whatever happens to the leases.                     *)

\* A process executes a task that has a row; with that, AttemptLedger is
\* inductive.
Ledger ==
  /\ Typed /\ AttemptLedger
  /\ \A e \in Execs : pc[e] # "idle" => status[key[e]] # "none"

\* begin leaves exactly the new attempt running, at the end of the rows.
LEMMA BeginRows ==
  ASSUME TypeOK, AttemptLedger, NEW e \in Execs, NEW k \in Keys, Begin(e, k)
  PROVE  /\ status' = [status EXCEPT ![k] = "running"]
         /\ \A m \in Keys \ {k} : attempts'[m] = attempts[m]
         /\ Len(attempts'[k]) = Len(attempts[k]) + 1
         /\ attempts'[k][Len(attempts'[k])] = "running"
         /\ \A i \in 1 .. Len(attempts[k]) :
              attempts'[k][i] # "running"
              /\ (attempts[k][i] # "running" => attempts'[k][i] = attempts[k][i])
<1> DEFINE rows == IF IsStale(k) THEN CloseRunning(attempts[k]) ELSE attempts[k]
<1>1. /\ attempts[k] \in Seq(Outcomes) /\ rows \in Seq(Outcomes)
      /\ Len(rows) = Len(attempts[k]) /\ Len(rows) \in Nat
  BY CloseRunningRows DEF TypeOK
<1>2. \A i \in 1 .. Len(attempts[k]) :
        rows[i] # "running" /\ (attempts[k][i] # "running" => rows[i] = attempts[k][i])
  <2>1. CASE IsStale(k)
    BY <1>1, <2>1, CloseRunningRows
  <2>2. CASE ~IsStale(k)
    BY <1>1, <2>2 DEF Begin, AttemptLedger
  <2> QED
    BY <2>1, <2>2
<1>3. attempts' = [attempts EXCEPT ![k] = Append(rows, "running")]
  BY DEF Begin
<1>4. attempts'[k] = Append(rows, "running") /\ \A m \in Keys \ {k} : attempts'[m] = attempts[m]
  BY <1>3 DEF TypeOK
<1>5. /\ Len(Append(rows, "running")) = Len(rows) + 1
      /\ Append(rows, "running")[Len(rows) + 1] = "running"
      /\ \A i \in 1 .. Len(rows) : Append(rows, "running")[i] = rows[i]
  BY <1>1 DEF Outcomes
<1>6. status' = [status EXCEPT ![k] = "running"]
  BY DEF Begin
<1> QED
  BY <1>1, <1>2, <1>4, <1>5, <1>6

\* finish leaves no attempt of the task running.
LEMMA FinishRows ==
  ASSUME TypeOK, AttemptLedger, NEW k \in Keys, NEW outcome \in Terminal,
         Finish(k, outcome)
  PROVE  /\ status' = [status EXCEPT ![k] = outcome]
         /\ \A m \in Keys \ {k} : attempts'[m] = attempts[m]
         /\ Len(attempts'[k]) = Len(attempts[k])
         /\ \A i \in 1 .. Len(attempts[k]) :
              attempts'[k][i] # "running"
              /\ (attempts[k][i] # "running" => attempts'[k][i] = attempts[k][i])
<1>1. attempts[k] \in Seq(Outcomes) /\ Len(attempts[k]) \in Nat /\ outcome \in Outcomes
  BY DEF TypeOK, Outcomes
<1>2. /\ attempts'[k] = RecordOutcome(attempts[k], outcome)
      /\ \A m \in Keys \ {k} : attempts'[m] = attempts[m]
      /\ status' = [status EXCEPT ![k] = outcome]
  BY DEF TypeOK, Finish
<1>3. \A i \in 1 .. Len(attempts[k]) : attempts[k][i] = "running" => i = Len(attempts[k])
  BY DEF AttemptLedger
<1>4. \A i \in 1 .. Len(attempts[k]) :
        attempts'[k][i] = IF attempts[k][i] = "running" THEN outcome ELSE attempts[k][i]
  <2> SUFFICES ASSUME NEW i \in 1 .. Len(attempts[k])
               PROVE  attempts'[k][i] = IF attempts[k][i] = "running"
                                          THEN outcome ELSE attempts[k][i]
    OBVIOUS
  <2>1. attempts'[k][i] = IF attempts[k][i] = "running"
                             /\ \A j \in i + 1 .. Len(attempts[k]) : attempts[k][j] # "running"
                            THEN outcome ELSE attempts[k][i]
    BY <1>1, <1>2, RecordOutcomeRows
  <2>2. attempts[k][i] = "running" =>
          \A j \in i + 1 .. Len(attempts[k]) : attempts[k][j] # "running"
    BY <1>1, <1>3
  <2> QED
    BY <2>1, <2>2
<1>5. Len(attempts'[k]) = Len(attempts[k])
  BY <1>1, <1>2, RecordOutcomeRows
<1> QED
  BY <1>2, <1>4, <1>5 DEF Terminal

\* Every step keeps the ledger.
LEMMA LedgerStep == Ledger /\ [Next]_vars => Ledger'
<1> SUFFICES ASSUME Ledger, [Next]_vars PROVE Ledger'
  OBVIOUS
<1> USE ConstantsAssumption DEF Ledger
<1>0. Typed' /\ TypeOK /\ TypeOK'
  BY TypedStep DEF Typed
<1>1. CASE UNCHANGED vars
  BY <1>0, <1>1 DEF AttemptLedger, vars, store, procs
<1>2. ASSUME NEW e \in Execs, NEW k \in Keys, Begin(e, k) PROVE Ledger'
  <2>1. AttemptLedger'
    <3> SUFFICES ASSUME NEW m \in Keys
                 PROVE  /\ status'[m] = "none" <=> attempts'[m] = <<>>
                        /\ \A i \in 1 .. Len(attempts'[m]) :
                             attempts'[m][i] = "running"
                               <=> i = Len(attempts'[m]) /\ status'[m] = "running"
      BY DEF AttemptLedger
    <3>0. /\ status' = [status EXCEPT ![k] = "running"] /\ DOMAIN status = Keys
          /\ attempts[k] \in Seq(Outcomes) /\ attempts'[k] \in Seq(Outcomes)
      <4>1. status' = [status EXCEPT ![k] = "running"]
        BY <1>0, <1>2, BeginRows
      <4> QED
        BY <1>0, <4>1 DEF TypeOK
    <3>1. CASE m = k
      <4>1. /\ Len(attempts'[k]) = Len(attempts[k]) + 1
            /\ attempts'[k][Len(attempts'[k])] = "running"
            /\ \A i \in 1 .. Len(attempts[k]) : attempts'[k][i] # "running"
        BY <1>0, <1>2, BeginRows
      <4>2. status'[m] = "running" /\ attempts'[m] # <<>>
        BY <3>0, <3>1, <4>1
      <4> QED
        BY <3>0, <3>1, <4>1, <4>2
    <3>2. CASE m # k
      <4>1. attempts'[m] = attempts[m]
        BY <1>0, <1>2, <3>2, BeginRows
      <4>2. status'[m] = status[m]
        BY <3>0, <3>2
      <4> QED
        BY <4>1, <4>2 DEF AttemptLedger
    <3> QED
      BY <3>1, <3>2
  <2>2. \A f \in Execs : pc'[f] # "idle" => status'[key'[f]] # "none"
    BY <1>0, <1>2 DEF Begin, TypeOK
  <2> QED
    BY <1>0, <2>1, <2>2
<1>3. ASSUME NEW e \in Execs, RecordResult(e) \/ FinishFailed(e) PROVE Ledger'
  <2>1. PICK outcome \in Terminal : Finish(key[e], outcome)
    BY <1>0, <1>3 DEF RecordResult, FinishFailed, TypeOK, Terminal
  <2>2. pc[e] # "idle" /\ key[e] \in Keys /\ UNCHANGED key
        /\ pc' = [pc EXCEPT ![e] = "releasing"]
    BY <1>0, <1>3 DEF RecordResult, FinishFailed, TypeOK
  <2>5. status' = [status EXCEPT ![key[e]] = outcome] /\ DOMAIN status = Keys
    <3>1. status' = [status EXCEPT ![key[e]] = outcome]
      BY <1>0, <2>1, <2>2, FinishRows
    <3> QED
      BY <1>0, <3>1 DEF TypeOK
  <2>3. AttemptLedger'
    <3> SUFFICES ASSUME NEW m \in Keys
                 PROVE  /\ status'[m] = "none" <=> attempts'[m] = <<>>
                        /\ \A i \in 1 .. Len(attempts'[m]) :
                             attempts'[m][i] = "running"
                               <=> i = Len(attempts'[m]) /\ status'[m] = "running"
      BY DEF AttemptLedger
    <3>0. /\ attempts[m] \in Seq(Outcomes) /\ attempts'[m] \in Seq(Outcomes)
          /\ status[key[e]] # "none"
      BY <1>0, <2>2 DEF TypeOK
    <3>1. CASE m = key[e]
      <4>1. status'[m] = outcome /\ outcome \notin {"none", "running"}
        BY <2>2, <2>5, <3>1 DEF Terminal
      <4>2. Len(attempts'[m]) = Len(attempts[m])
            /\ \A i \in 1 .. Len(attempts[m]) : attempts'[m][i] # "running"
        BY <1>0, <2>1, <2>2, <3>1, FinishRows
      <4>3. attempts[m] # <<>>
        BY <3>0, <3>1 DEF AttemptLedger
      <4>4. attempts'[m] # <<>>
        BY <3>0, <4>2, <4>3
      <4> QED
        BY <4>1, <4>2, <4>4
    <3>2. CASE m # key[e]
      <4>1. attempts'[m] = attempts[m]
        BY <1>0, <2>1, <2>2, <3>2, FinishRows
      <4>2. status'[m] = status[m]
        BY <2>2, <2>5, <3>2
      <4> QED
        BY <4>1, <4>2 DEF AttemptLedger
    <3> QED
      BY <3>1, <3>2
  <2>4. \A f \in Execs : pc'[f] # "idle" => status'[key'[f]] # "none"
    BY <1>0, <2>2, <2>5 DEF TypeOK, Terminal
  <2> QED
    BY <1>0, <2>3, <2>4
<1>4. ASSUME NEW e \in Execs,
             \/ \E l \in LockKeys : Acquire(e, l) \/ AcquireRefused(e, l) \/ Release(e, l)
             \/ StartOperation(e) \/ OperationRaises(e) \/ LeaseLossRaises(e)
             \/ \E outcome \in Terminal, joined \in BOOLEAN :
                  OperationReturns(e, outcome, joined)
             \/ ReadFailedTask(e) \/ HeartbeatLost(e) \/ Heartbeat(e)
      PROVE Ledger'
  <2>1. UNCHANGED <<status, attempts, key>> /\ (pc'[e] # "idle" => pc[e] # "idle")
        /\ \A f \in Execs \ {e} : pc'[f] = pc[f]
    BY <1>0, <1>4 DEF Acquire, AcquireRefused, Release, StartOperation,
         OperationRaises, LeaseLossRaises, OperationReturns, ReadFailedTask,
         HeartbeatLost, Heartbeat, store, procs, TypeOK
  <2> QED
    BY <1>0, <2>1 DEF AttemptLedger
<1>5. ASSUME NEW e \in Execs, Return(e) \/ Crash(e) PROVE Ledger'
  <2>1. UNCHANGED <<status, attempts>> /\ Ends(e)
    BY <1>5 DEF Return, Crash, store
  <2>2. \A f \in Execs : pc'[f] # "idle" => pc[f] # "idle" /\ key'[f] = key[f]
    BY <1>0, <2>1 DEF Ends, TypeOK
  <2> QED
    BY <1>0, <2>1, <2>2 DEF AttemptLedger
<1>6. CASE (\E l \in LockKeys : ForceUnlock(l)) \/ Tick
  <2>1. UNCHANGED <<status, attempts, pc, key>>
    BY <1>6 DEF ForceUnlock, Tick, store, procs
  <2> QED
    BY <1>0, <2>1 DEF AttemptLedger
<1> QED
  BY <1>1, <1>2, <1>3, <1>4, <1>5, <1>6 DEF Next, Execute

\* The invariant holds along every behaviour.
LEMMA LedgerInvariant == Spec => []Ledger
<1>1. Init => Ledger
  BY ConstantsAssumption DEF Init, Ledger, Typed, TypeOK, PCs, Terminal, AttemptLedger
<1> QED
  BY <1>1, LedgerStep, PTL DEF Spec

\* A task is running exactly when its last attempt is and no earlier attempt
\* is left running: begin, stale recovery, late finishes, crashes, lost leases
\* and forced unlocks together never leave two open attempts of a task.
THEOREM AttemptLedgerHolds == Spec => []AttemptLedger
<1>1. Ledger => AttemptLedger
  BY DEF Ledger
<1> QED
  BY <1>1, LedgerInvariant, PTL

\* A closed attempt is never rewritten and no attempt row disappears.
THEOREM AttemptsAreAppendOnly == Spec => AttemptsAppendOnly
<1> DEFINE Kept == \A k \in Keys :
                     /\ Len(attempts'[k]) >= Len(attempts[k])
                     /\ \A i \in 1 .. Len(attempts[k]) :
                          attempts[k][i] # "running" => attempts'[k][i] = attempts[k][i]
<1>1. Ledger /\ [Next]_vars => [Kept]_vars
  <2> SUFFICES ASSUME Ledger, Next PROVE Kept
    OBVIOUS
  <2>0. TypeOK /\ AttemptLedger /\ \A k \in Keys : Len(attempts[k]) \in Nat
    BY DEF Ledger, Typed, TypeOK
  <2>1. ASSUME NEW e \in Execs, NEW k \in Keys, Begin(e, k) PROVE Kept
    BY <2>0, <2>1, BeginRows
  <2>2. ASSUME NEW e \in Execs, RecordResult(e) \/ FinishFailed(e) PROVE Kept
    <3>1. PICK outcome \in Terminal : Finish(key[e], outcome)
      BY <2>0, <2>2 DEF RecordResult, FinishFailed, TypeOK, Terminal
    <3>2. key[e] \in Keys
      BY <2>0, <2>2 DEF RecordResult, FinishFailed, TypeOK
    <3> QED
      BY <2>0, <3>1, <3>2, FinishRows
  <2>3. CASE UNCHANGED attempts
    BY <2>0, <2>3
  <2> QED
    BY <2>1, <2>2, <2>3 DEF Next, Execute, Acquire, AcquireRefused, Release,
         StartOperation, OperationRaises, LeaseLossRaises, OperationReturns,
         ReadFailedTask, HeartbeatLost, Heartbeat, Return, Crash, ForceUnlock,
         Tick, store
<1> QED
  BY <1>1, LedgerInvariant, PTL DEF Spec, AttemptsAppendOnly

---------------------------------------------------------------------------
(* What the leases protect, as long as heartbeats reach the store in time  *)
(* and nobody unlocks by force.                                            *)

\* A lock a process believes it holds is a live row that it inserted itself
\* for the task it executes.
LeaseHeld ==
  \A e \in Execs : \A l \in held[e] :
    lockBy[l] = e /\ lockTask[l] = key[e] /\ lockLeft[l] > 0

\* A process that has not got its first lock began less than a TTL ago, so
\* its task is not stale even though no lock row shows that it is alive.
RecentStart ==
  \A e \in Execs : Active(e) /\ held[e] = {} => age[key[e]] <= TTL

Leased == Ledger /\ LeaseHeld /\ RecentStart /\ RunnerOwnsAttempt

\* Every step keeps the leases: rows are inserted over expired ones only,
\* stale recovery deletes no live row, and a release deletes its own row.
LEMMA LeaseHeldStep ==
  ASSUME LeaseKept, ~OperatorUnlock, Ledger, LeaseHeld, [Next]_vars
  PROVE  LeaseHeld'
<1> USE ConstantsAssumption
<1>0. TypeOK /\ \A e \in Execs : pc[e] = "idle" => held[e] = {}
  BY DEF Ledger, Typed
<1>1. CASE UNCHANGED vars
  BY <1>1 DEF LeaseHeld, vars, locks, procs
<1>2. ASSUME NEW e \in Execs, NEW k \in Keys, Begin(e, k) PROVE LeaseHeld'
  <2>1. held[e] = {} /\ UNCHANGED held /\ \A f \in Execs \ {e} : key'[f] = key[f]
    BY <1>0, <1>2 DEF Begin, TypeOK
  <2>2. ASSUME NEW l \in LockKeys, lockLeft[l] > 0
        PROVE  /\ lockTask'[l] = lockTask[l] /\ lockBy'[l] = lockBy[l]
               /\ lockLeft'[l] = lockLeft[l]
    <3>1. IsStale(k) => lockTask[l] # k
      BY <2>2 DEF IsStale, HasLiveLock
    <3> QED
      BY <1>0, <1>2, <3>1 DEF Begin, DeleteLocks
  <2>3. \A f \in Execs : held[f] \subseteq LockKeys
    BY <1>0 DEF TypeOK
  <2> SUFFICES ASSUME NEW f \in Execs, NEW l \in held[f]
               PROVE  lockBy'[l] = f /\ lockTask'[l] = key'[f] /\ lockLeft'[l] > 0
    BY <2>1 DEF LeaseHeld
  <2>4. f # e /\ l \in LockKeys /\ lockBy[l] = f /\ lockTask[l] = key[f] /\ lockLeft[l] > 0
    BY <2>1, <2>3 DEF LeaseHeld
  <2> QED
    BY <2>1, <2>2, <2>4
<1>3. ASSUME NEW e \in Execs, NEW l \in LockKeys, Acquire(e, l) PROVE LeaseHeld'
  <2>1. \A f \in Execs : l \notin held[f]
    BY <1>0, <1>3 DEF Acquire, Available, LeaseHeld, TypeOK
  <2>2. held' = [held EXCEPT ![e] = @ \cup {l}] /\ UNCHANGED key
        /\ lockTask'[l] = key[e] /\ lockBy'[l] = e /\ lockLeft'[l] > 0
    <3>1. UNCHANGED key /\ held' = [held EXCEPT ![e] = @ \cup {l}]
      BY <1>3 DEF Acquire
    <3>2. lockTask'[l] = key[e] /\ lockBy'[l] = e
      BY <1>3 DEF Acquire
    <3>3. lockLeft'[l] = TTL
      BY <1>0, <1>3 DEF Acquire, TypeOK
    <3> QED
      BY <3>1, <3>2, <3>3
  <2>3. \A m \in LockKeys \ {l} : lockLeft[m] > 0 =>
          lockTask'[m] = lockTask[m] /\ lockBy'[m] = lockBy[m] /\ lockLeft'[m] = lockLeft[m]
    BY <1>0, <1>3 DEF Acquire, TypeOK
  <2>4. held \in [Execs -> SUBSET LockKeys]
    BY <1>0 DEF TypeOK
  <2> QED
    BY <2>1, <2>2, <2>3, <2>4 DEF LeaseHeld
<1>4. ASSUME NEW e \in Execs, NEW l \in LockKeys, Release(e, l) PROVE LeaseHeld'
  <2>1. held' = [held EXCEPT ![e] = @ \ {l}] /\ UNCHANGED key /\ l \in held[e]
    BY <1>4 DEF Release
  <2>2. \A m \in LockKeys \ {l} :
          lockTask'[m] = lockTask[m] /\ lockBy'[m] = lockBy[m] /\ lockLeft'[m] = lockLeft[m]
    BY <1>4 DEF Release, DeleteLocks
  <2>3. \A f \in Execs \ {e} : l \notin held[f]
    BY <2>1 DEF LeaseHeld
  <2>4. held \in [Execs -> SUBSET LockKeys]
    BY <1>0 DEF TypeOK
  <2> QED
    BY <2>1, <2>2, <2>3, <2>4 DEF LeaseHeld
<1>5. ASSUME NEW e \in Execs, Heartbeat(e) PROVE LeaseHeld'
  <2>1. UNCHANGED <<held, key, lockTask, lockBy>>
    BY <1>5 DEF Heartbeat, procs
  <2>2. \A l \in LockKeys : lockLeft[l] > 0 => lockLeft'[l] > 0
    BY <1>0, <1>5 DEF Heartbeat, TypeOK
  <2>3. \A f \in Execs : held[f] \subseteq LockKeys
    BY <1>0 DEF TypeOK
  <2> QED
    BY <2>1, <2>2, <2>3 DEF LeaseHeld
<1>6. ASSUME NEW e \in Execs, Return(e) \/ Crash(e) PROVE LeaseHeld'
  <2>1. UNCHANGED <<lockTask, lockLeft, lockBy>> /\ Ends(e)
    BY <1>6 DEF Return, Crash, locks
  <2>2. held'[e] = {} /\ \A f \in Execs \ {e} : held'[f] = held[f] /\ key'[f] = key[f]
    BY <1>0, <2>1 DEF Ends, TypeOK
  <2> QED
    BY <2>1, <2>2 DEF LeaseHeld
<1>7. CASE Tick
  <2>1. UNCHANGED <<held, key, lockTask, lockBy>> /\ Timely
    BY <1>7 DEF Tick, procs
  <2>2. \A f \in Execs : held[f] \subseteq LockKeys
    BY <1>0 DEF TypeOK
  <2>3. \A l \in LockKeys : lockLeft[l] > 1 => lockLeft'[l] > 0
    BY <1>0, <1>7 DEF Tick, TypeOK
  <2> QED
    BY <2>1, <2>2, <2>3 DEF LeaseHeld, Timely
<1>8. CASE UNCHANGED <<held, key, lockTask, lockBy, lockLeft>>
  BY <1>8 DEF LeaseHeld
<1> QED
  BY <1>1, <1>2, <1>3, <1>4, <1>5, <1>6, <1>7, <1>8
    DEF Next, Execute, AcquireRefused, StartOperation, OperationRaises,
        OperationReturns, RecordResult, LeaseLossRaises, ReadFailedTask,
        FinishFailed, HeartbeatLost, ForceUnlock, locks


\* Every step keeps the ownership of attempts.  The step that could break it
\* is a begin of the task some process executes: the task is not stale, since
\* that process holds a live lock or began less than a TTL ago.
LEMMA RunnerStep ==
  ASSUME LeaseKept, Leased, Ledger', [Next]_vars
  PROVE  RecentStart' /\ RunnerOwnsAttempt'
<1> USE ConstantsAssumption
<1>0. /\ TypeOK /\ TypeOK' /\ AttemptLedger /\ LeaseHeld
      /\ \A e \in Execs : pc[e] = "idle" => held[e] = {}
      /\ \A e \in Execs : Active(e) => pc[e] # "idle" /\ key[e] \in Keys
  BY DEF Leased, Ledger, Typed, Active, TypeOK
<1>1. CASE UNCHANGED vars
  BY <1>1 DEF Leased, RecentStart, RunnerOwnsAttempt, Active, vars, store, procs
<1>2. ASSUME NEW e \in Execs, NEW k \in Keys, Begin(e, k)
      PROVE  RecentStart' /\ RunnerOwnsAttempt'
  <2>1. \A f \in Execs : Active(f) => key[f] # k
    <3> SUFFICES ASSUME NEW f \in Execs, Active(f), key[f] = k PROVE FALSE
      OBVIOUS
    <3>1. status[k] = "running"
      <4>1. /\ att[f] = Len(attempts[k]) /\ attempts[k][att[f]] = "running"
            /\ attempts[k] \in Seq(Outcomes)
        BY <1>0 DEF Leased, RunnerOwnsAttempt, TypeOK
      <4>2. status[k] # "none"
        BY <1>0 DEF Leased, Ledger
      <4>3. attempts[k] # <<>>
        BY <1>0, <4>2 DEF AttemptLedger
      <4>4. Len(attempts[k]) \in 1 .. Len(attempts[k])
        BY <4>1, <4>3
      <4> QED
        BY <1>0, <4>1, <4>4 DEF AttemptLedger
    <3>2. IsStale(k)
      BY <1>2, <3>1 DEF Begin
    <3>3. held[f] = {}
      <4>1. held[f] \subseteq LockKeys
        BY <1>0 DEF TypeOK
      <4> QED
        BY <1>0, <3>2, <4>1 DEF IsStale, HasLiveLock, LeaseHeld
    <3>4. age[k] <= TTL
      BY <3>3 DEF Leased, RecentStart
    <3> QED
      BY <1>0, <3>2, <3>4 DEF IsStale, TypeOK
  <2>2. /\ \A f \in Execs \ {e} : /\ pc'[f] = pc[f] /\ key'[f] = key[f]
                                  /\ att'[f] = att[f] /\ held'[f] = held[f]
        /\ key'[e] = k /\ att'[e] = Len(attempts[k]) + 1
        /\ age'[k] = 0 /\ \A m \in Keys \ {k} : age'[m] = age[m]
    BY <1>0, <1>2 DEF Begin, TypeOK
  <2>3. /\ \A m \in Keys \ {k} : attempts'[m] = attempts[m]
        /\ Len(attempts'[k]) = Len(attempts[k]) + 1
        /\ attempts'[k][Len(attempts'[k])] = "running"
    BY <1>0, <1>2, BeginRows
  <2>4. \A f \in Execs \ {e} : Active(f)' => Active(f) /\ key[f] \in Keys \ {k}
    BY <1>0, <2>1, <2>2 DEF Active
  <2>5. RecentStart'
    BY <2>2, <2>4 DEF Leased, RecentStart
  <2>6. RunnerOwnsAttempt'
    BY <2>2, <2>3, <2>4 DEF Leased, RunnerOwnsAttempt
  <2> QED
    BY <2>5, <2>6
<1>3. ASSUME NEW e \in Execs, RecordResult(e) \/ FinishFailed(e)
      PROVE  RecentStart' /\ RunnerOwnsAttempt'
  <2>1. PICK outcome \in Terminal : Finish(key[e], outcome)
    BY <1>0, <1>3 DEF RecordResult, FinishFailed, TypeOK, Terminal
  <2>2. /\ Active(e) /\ key[e] \in Keys /\ ~Active(e)'
        /\ \A f \in Execs \ {e} : pc'[f] = pc[f]
        /\ UNCHANGED <<key, held, att>>
    BY <1>0, <1>3 DEF RecordResult, FinishFailed, TypeOK, Active
  <2>3. /\ \A m \in Keys \ {key[e]} : attempts'[m] = attempts[m]
        /\ age'[key[e]] = 0 /\ \A m \in Keys \ {key[e]} : age'[m] = age[m]
    BY <1>0, <2>1, <2>2, FinishRows DEF Finish, TypeOK
  <2>4. \A f \in Execs : Active(f)' => Active(f) /\ key[f] \in Keys \ {key[e]}
    <3>1. \A f \in Execs : Active(f)' => f # e /\ Active(f)
      BY <2>2 DEF Active
    <3> QED
      BY <1>0, <2>2, <3>1 DEF Leased, RunnerOwnsAttempt
  <2>5. RecentStart'
    BY <2>2, <2>3, <2>4 DEF Leased, RecentStart
  <2>6. RunnerOwnsAttempt'
    BY <2>2, <2>3, <2>4 DEF Leased, RunnerOwnsAttempt
  <2> QED
    BY <2>5, <2>6
<1>4. ASSUME NEW e \in Execs, NEW l \in LockKeys, Release(e, l)
      PROVE  RecentStart' /\ RunnerOwnsAttempt'
  <2>1. /\ ~Active(e) /\ UNCHANGED <<pc, key, att, age, attempts>>
        /\ \A f \in Execs \ {e} : held'[f] = held[f]
    BY <1>0, <1>4 DEF Release, Active, store, TypeOK
  <2> QED
    BY <2>1 DEF Leased, RecentStart, RunnerOwnsAttempt, Active
<1>5. ASSUME NEW e \in Execs, Return(e) \/ Crash(e)
      PROVE  RecentStart' /\ RunnerOwnsAttempt'
  <2>1. UNCHANGED <<age, attempts>> /\ Ends(e)
    BY <1>5 DEF Return, Crash, store
  <2>2. /\ ~Active(e)'
        /\ \A f \in Execs \ {e} : /\ pc'[f] = pc[f] /\ key'[f] = key[f]
                                  /\ att'[f] = att[f] /\ held'[f] = held[f]
    BY <1>0, <2>1 DEF Ends, TypeOK, Active
  <2> QED
    BY <2>1, <2>2 DEF Leased, RecentStart, RunnerOwnsAttempt, Active
<1>6. CASE Tick
  <2>1. Timely /\ UNCHANGED <<pc, key, held, att, attempts>>
    BY <1>6 DEF Tick, procs
  <2>2. \A m \in Keys : age[m] < TTL => age'[m] <= TTL
    BY <1>0, <1>6 DEF Tick, TypeOK
  <2>3. RecentStart'
    BY <1>0, <2>1, <2>2 DEF RecentStart, Timely, Active
  <2>4. RunnerOwnsAttempt'
    BY <2>1 DEF Leased, RunnerOwnsAttempt, Active
  <2> QED
    BY <2>3, <2>4
<1>7. ASSUME NEW e \in Execs,
             /\ UNCHANGED <<key, att, age, attempts>>
             /\ Active(e)' => Active(e)
             /\ \A f \in Execs \ {e} : pc'[f] = pc[f]
             /\ \A f \in Execs : held[f] \subseteq held'[f]
      PROVE  RecentStart' /\ RunnerOwnsAttempt'
  <2>1. \A f \in Execs : Active(f)' => Active(f)
    BY <1>7 DEF Active
  <2> QED
    BY <1>7, <2>1 DEF Leased, RecentStart, RunnerOwnsAttempt
<1>8. ASSUME NEW e \in Execs,
             \/ \E l \in LockKeys : Acquire(e, l) \/ AcquireRefused(e, l)
             \/ StartOperation(e) \/ OperationRaises(e) \/ LeaseLossRaises(e)
             \/ \E outcome \in Terminal, joined \in BOOLEAN :
                  OperationReturns(e, outcome, joined)
             \/ ReadFailedTask(e) \/ HeartbeatLost(e) \/ Heartbeat(e)
      PROVE  RecentStart' /\ RunnerOwnsAttempt'
  <2>1. /\ UNCHANGED <<key, att, age, attempts>>
        /\ \A f \in Execs \ {e} : pc'[f] = pc[f]
        /\ \A f \in Execs : held[f] \subseteq held'[f]
    <3>1. CASE \E l \in LockKeys : Acquire(e, l)
      BY <1>0, <3>1 DEF Acquire, store, TypeOK
    <3>2. CASE ~\E l \in LockKeys : Acquire(e, l)
      BY <1>0, <1>8, <3>2 DEF AcquireRefused, StartOperation, OperationRaises,
           LeaseLossRaises, OperationReturns, ReadFailedTask, HeartbeatLost,
           Heartbeat, store, procs, TypeOK
    <3> QED
      BY <3>1, <3>2
  <2>2. Active(e)' => Active(e)
    BY <1>0, <1>8 DEF Acquire, AcquireRefused, StartOperation, OperationRaises,
         LeaseLossRaises, OperationReturns, ReadFailedTask, HeartbeatLost,
         Heartbeat, procs, TypeOK, Active
  <2> QED
    BY <1>7, <2>1, <2>2
<1>9. ASSUME NEW l \in LockKeys, ForceUnlock(l)
      PROVE  RecentStart' /\ RunnerOwnsAttempt'
  BY <1>9 DEF ForceUnlock, store, procs, Leased, RecentStart, RunnerOwnsAttempt, Active
<1> QED
  BY <1>1, <1>2, <1>3, <1>4, <1>5, <1>6, <1>8, <1>9 DEF Next, Execute

\* The invariant holds along every behaviour with kept leases.
LEMMA LeasedInvariant ==
  ASSUME LeaseKept, ~OperatorUnlock PROVE Spec => []Leased
<1>1. Init => Leased
  <2>1. Init => Ledger
    BY ConstantsAssumption DEF Init, Ledger, Typed, TypeOK, PCs, Terminal, AttemptLedger
  <2>2. Init => LeaseHeld /\ RecentStart /\ RunnerOwnsAttempt
    BY DEF Init, LeaseHeld, RecentStart, RunnerOwnsAttempt, Active
  <2> QED
    BY <2>1, <2>2 DEF Leased
<1>2. Leased /\ [Next]_vars => Leased'
  <2> SUFFICES ASSUME Leased, [Next]_vars PROVE Leased'
    OBVIOUS
  <2>1. Ledger'
    BY LedgerStep DEF Leased
  <2>2. LeaseHeld'
    BY LeaseHeldStep DEF Leased
  <2> QED
    BY <2>1, <2>2, RunnerStep DEF Leased
<1> QED
  BY <1>1, <1>2, PTL DEF Spec

\* While heartbeats reach the store within the TTL and nobody unlocks by
\* force, two executions never hold the same resource lock, whatever crashes.
THEOREM LocksExclude ==
  ASSUME LeaseKept, ~OperatorUnlock PROVE Spec => []MutualExclusion
<1>1. Leased => MutualExclusion
  BY DEF Leased, LeaseHeld, MutualExclusion
<1> QED
  BY <1>1, LeasedInvariant, PTL

\* Under the same condition a task is executed by one process at a time and
\* the outcome a process records goes to the attempt it began.
THEOREM OutcomesGoToTheirAttempt ==
  ASSUME LeaseKept, ~OperatorUnlock PROVE Spec => []RunnerOwnsAttempt
<1>1. Leased => RunnerOwnsAttempt
  BY DEF Leased
<1> QED
  BY <1>1, LeasedInvariant, PTL

---------------------------------------------------------------------------
(* The retry_count, with leases kept: it counts the failed and partial     *)
(* attempts that were run again, and the task row repeats its last         *)
(* attempt.                                                                *)

\* The attempts that were run again although they ended.
Retried(s) == {i \in 1 .. Len(s) - 1 : s[i] \in {"failed", "partial"}}

RetryInv ==
  \A k \in Keys :
    /\ attempts[k] = <<>> => retry[k] = 0
    /\ attempts[k] # <<>> => /\ status[k] = attempts[k][Len(attempts[k])]
                             /\ retry[k] = Cardinality(Retried(attempts[k]))

LEMMA RetriedFinite == ASSUME NEW s \in Seq(Outcomes) PROVE IsFiniteSet(Retried(s))
<1>1. Len(s) - 1 \in Int
  OBVIOUS
<1>2. IsFiniteSet(1 .. Len(s) - 1)
  BY <1>1, FS_Interval
<1> QED BY <1>2, FS_Subset DEF Retried

\* A new row counts the row before it, if that one has to be counted.
LEMMA RetriedNext ==
  ASSUME NEW s \in Seq(Outcomes), NEW t \in Seq(Outcomes), s # <<>>, Len(t) = Len(s) + 1,
         \A i \in 1 .. Len(s) - 1 : t[i] = s[i]
  PROVE  Cardinality(Retried(t)) = Cardinality(Retried(s)) + RetryIncrement(t[Len(s)])
<1>1. Len(s) \in Nat /\ Len(s) >= 1
  OBVIOUS
<1>2. Retried(t) = Retried(s) \cup {i \in {Len(s)} : t[i] \in {"failed", "partial"}}
  BY <1>1 DEF Retried
<1>3. Len(s) \notin Retried(s)
  BY <1>1 DEF Retried
<1>4. IsFiniteSet(Retried(s)) /\ Cardinality(Retried(s)) \in Nat
  BY RetriedFinite, FS_CardinalityType
<1>5. CASE t[Len(s)] \in {"failed", "partial"}
  <2>1. Retried(t) = Retried(s) \cup {Len(s)}
    BY <1>2, <1>5
  <2> QED BY <1>3, <1>4, <1>5, <2>1, FS_AddElement DEF RetryIncrement
<1>6. CASE t[Len(s)] \notin {"failed", "partial"}
  <2>1. Retried(t) = Retried(s)
    BY <1>2, <1>6
  <2> QED BY <1>4, <1>6, <2>1 DEF RetryIncrement
<1> QED BY <1>5, <1>6

\* begin counts the attempt it runs again.
LEMMA BeginCounts ==
  ASSUME TypeOK, TypeOK', AttemptLedger, RetryInv, NEW e \in Execs, NEW k \in Keys, Begin(e, k)
  PROVE  RetryInv'
<1> DEFINE s == attempts[k]
           t == attempts'[k]
           before == IF IsStale(k) THEN "failed" ELSE status[k]
           n == Len(s)
<1>1. /\ s \in Seq(Outcomes) /\ t \in Seq(Outcomes) /\ n \in Nat
      /\ Len(t) = n + 1 /\ t[n + 1] = "running" /\ t # <<>>
      /\ \A i \in 1 .. n : s[i] # "running" => t[i] = s[i]
      /\ status'[k] = "running" /\ retry'[k] = retry[k] + RetryIncrement(before)
  <2>1. s \in Seq(Outcomes) /\ t \in Seq(Outcomes) /\ n \in Nat
    BY DEF TypeOK
  <2>2. /\ status' = [status EXCEPT ![k] = "running"]
        /\ Len(t) = n + 1 /\ t[Len(t)] = "running"
        /\ \A i \in 1 .. n : s[i] # "running" => t[i] = s[i]
    BY BeginRows
  <2>3. retry'[k] = retry[k] + RetryIncrement(before)
    BY DEF Begin, TypeOK
  <2> QED BY <2>1, <2>2, <2>3 DEF TypeOK
<1>2. \A m \in Keys \ {k} : UNCHANGED <<attempts[m], status[m], retry[m]>>
  BY BeginRows DEF Begin, TypeOK
<1>3. CASE s = <<>>
  <2>1. before = "none"
    BY <1>3 DEF AttemptLedger, IsStale
  <2>2. Retried(t) = {}
    BY <1>1, <1>3 DEF Retried
  <2>3. retry'[k] = 0
    BY <1>1, <1>3, <2>1 DEF RetryInv, RetryIncrement
  <2>4. retry'[k] = Cardinality(Retried(t))
    BY <2>2, <2>3, FS_EmptySet
  <2> QED BY <1>1, <1>2, <2>4 DEF RetryInv
<1>4. CASE s # <<>>
  <2>1. n >= 1 /\ \A i \in 1 .. n - 1 : s[i] # "running"
    BY <1>1, <1>4 DEF AttemptLedger
  <2>2. t[n] = before
    <3>1. CASE IsStale(k)
      <4>1. s[n] = "running"
        BY <1>1, <2>1, <3>1 DEF IsStale, AttemptLedger
      <4>2. t = Append(CloseRunning(s), "running")
        BY <3>1 DEF Begin, TypeOK
      <4>3. CloseRunning(s)[n] = "failed" /\ Len(CloseRunning(s)) = n /\ CloseRunning(s) \in Seq(Outcomes)
        BY <1>1, <2>1, <4>1, CloseRunningRows
      <4> QED BY <1>1, <2>1, <3>1, <4>2, <4>3
    <3>2. CASE ~IsStale(k)
      <4>1. status[k] = s[n] /\ status[k] # "running"
        BY <1>4, <3>2 DEF RetryInv, Begin
      <4> QED BY <1>1, <2>1, <3>2, <4>1
    <3> QED BY <3>1, <3>2
  <2>3. Cardinality(Retried(t)) = Cardinality(Retried(s)) + RetryIncrement(before)
    <3>1. Len(t) = Len(s) + 1 /\ \A i \in 1 .. Len(s) - 1 : t[i] = s[i]
      BY <1>1, <2>1
    <3> HIDE DEF s, t, before
    <3>2. Cardinality(Retried(t)) = Cardinality(Retried(s)) + RetryIncrement(t[Len(s)])
      BY <1>1, <1>4, <3>1, RetriedNext
    <3> QED BY <2>2, <3>2
  <2>4. retry'[k] = Cardinality(Retried(t))
    BY <1>1, <1>4, <2>3 DEF RetryInv
  <2> QED BY <1>1, <1>2, <2>4 DEF RetryInv
<1> QED BY <1>3, <1>4

\* finish gives the last attempt its outcome, which nobody has counted yet.
LEMMA FinishCounts ==
  ASSUME TypeOK, AttemptLedger, RetryInv, NEW k \in Keys, NEW outcome \in Terminal,
         Finish(k, outcome), attempts[k] # <<>>, attempts[k][Len(attempts[k])] = "running"
  PROVE  RetryInv'
<1> DEFINE s == attempts[k]
           t == attempts'[k]
           n == Len(s)
<1>1. s \in Seq(Outcomes) /\ n \in Nat /\ n >= 1 /\ outcome \in Outcomes
  BY DEF TypeOK, Outcomes
<1>2. /\ Len(t) = n /\ \A i \in 1 .. n - 1 : t[i] = s[i]
      /\ \A m \in Keys \ {k} : attempts'[m] = attempts[m]
  BY <1>1, FinishRows DEF AttemptLedger
<1>3. t = RecordOutcome(s, outcome)
  BY DEF Finish, TypeOK
<1>4. t[n] = outcome
  <2>1. n \in 1 .. n /\ n + 1 .. n = {}
    BY <1>1
  <2>2. RecordOutcome(s, outcome)[n] =
          IF s[n] = "running" /\ \A j \in n + 1 .. n : s[j] # "running" THEN outcome ELSE s[n]
    BY <1>1, <2>1, RecordOutcomeRows
  <2> QED BY <1>3, <2>1, <2>2
<1>5. Retried(t) = Retried(s)
  BY <1>2 DEF Retried
<1>6. status'[k] = outcome /\ (\A m \in Keys \ {k} : status'[m] = status[m]) /\ retry' = retry
  BY DEF Finish, TypeOK
<1> QED BY <1>2, <1>4, <1>5, <1>6 DEF RetryInv

LEMMA RetryNext == ASSUME Leased, Leased', RetryInv, [Next]_vars PROVE RetryInv'
<1>0. TypeOK /\ TypeOK' /\ AttemptLedger /\ RunnerOwnsAttempt
  BY DEF Leased, Ledger, Typed
<1>1. ASSUME NEW e \in Execs, NEW k \in Keys, Begin(e, k) PROVE RetryInv'
  BY <1>0, <1>1, BeginCounts
<1>2. ASSUME NEW e \in Execs, RecordResult(e) \/ FinishFailed(e) PROVE RetryInv'
  <2>1. PICK outcome \in Terminal : Finish(key[e], outcome)
    BY <1>0, <1>2 DEF RecordResult, FinishFailed, TypeOK, Terminal
  <2>2. Active(e) /\ key[e] \in Keys
    BY <1>0, <1>2 DEF RecordResult, FinishFailed, TypeOK, Active
  <2>3. attempts[key[e]] # <<>>
    BY <1>0, <2>2 DEF Leased, Ledger, AttemptLedger, Active
  <2>4. attempts[key[e]][Len(attempts[key[e]])] = "running"
    BY <1>0, <2>2 DEF RunnerOwnsAttempt
  <2> QED BY <1>0, <2>1, <2>2, <2>3, <2>4, FinishCounts
<1>3. CASE UNCHANGED <<status, attempts, retry>>
  BY <1>3 DEF RetryInv
<1> QED
  BY <1>1, <1>2, <1>3 DEF Next, Execute, Acquire, AcquireRefused, Release, StartOperation,
     OperationReturns, OperationRaises, LeaseLossRaises, ReadFailedTask, Return, Heartbeat,
     HeartbeatLost, Crash, ForceUnlock, Tick, vars, store

\* While heartbeats reach the store within the TTL and nobody unlocks by force,
\* retry_count is the number of failed and partial attempts that were run again,
\* and the task row shows what its last attempt ended with.
THEOREM RetriesAreCounted ==
  ASSUME LeaseKept, ~OperatorUnlock PROVE Spec => []RetryCount
<1>1. Init => RetryInv
  BY DEF Init, RetryInv
<1>2. RetryInv => RetryCount
  BY DEF RetryInv, RetryCount, Retried
<1> QED BY <1>1, <1>2, RetryNext, LeasedInvariant, PTL DEF Spec
=============================================================================
