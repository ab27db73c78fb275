-------------------------- MODULE SyncParamsProofs --------------------------
(***************************************************************************)
(* Proofs about SyncParams, for every set of users, with and without the   *)
(* kernel's param_lock: the parameter callbacks run the test as SyncTest   *)
(* says, so that what is proved of SyncTest holds of the whole module; and *)
(* with the lock, what result_get prints.                                  *)
(***************************************************************************)
EXTENDS SyncParams, SyncTestProofs

Inside == {"divide"} \union Holding \union Files \union Returns

\* With param_lock one user at a time is in a callback.
Exclusive == Serialised => \A u \in Users : upc[u] \in Inside <=> param_lock = u

\* What run_set has copied to ctx stays in range until run_test reads it.
Copied ==
  \A u \in Users :
    /\ upc[u] \in {"copy_iterations", "copy_lock", "run_test"} => ctx.num_threads \in 1 .. MaxThreads
    /\ upc[u] \in {"copy_lock", "run_test"} => ctx.iterations \in 1 .. MaxIterations

CtxShape == DOMAIN ctx = {"num_threads", "iterations", "lock_type"}

PInv == ParamsTypeOK /\ RunHasOwner /\ Copied /\ CtxShape /\ Exclusive /\ NeverBusy

-----------------------------------------------------------------------------
LEMMA ParamsInitially == ParamsInit => PInv
<1> SUFFICES ASSUME ParamsInit PROVE PInv
  OBVIOUS
<1>1. ParamsTypeOK
  BY DEF ParamsInit, ParamsTypeOK
<1>2. RunHasOwner /\ Copied /\ CtxShape /\ Exclusive /\ NeverBusy
  BY ParamsAssumption DEF ParamsInit, Init, RunHasOwner, Copied, CtxShape, Exclusive, NeverBusy, Inside,
                          Files, Returns, Holding
<1> QED
  BY <1>1, <1>2 DEF PInv

\* The steps of the test itself start no run behind the back of its owner, and
\* leave its parameters alone.
LEMMA TestStepShape ==
  ASSUME TestStep
  PROVE  ctx' = ctx /\ (run_pc = "idle" => run_pc' = "idle")
BY DEF TestStep, RunStep, InitJoin, InitLock, Allocate, AllocateFails, CreateThread, CreateFails, AllCreated, StopCreated,
       AllStopped, LaunchThread, AllLaunched, WaitTest, PrepareToWait, Retest, Awaken,
       CollectWaitTime, AllCollected, FreeMem, WorkerStep, WorkerStart, SyncLock, Increment, Decrement,
       UpdateShared, ReportDone, WakeUp, runVars

\* Every step of the module preserves its invariant.
LEMMA ParamsInduction ==
  ASSUME PInv, [ParamsNext]_allVars
  PROVE  PInv'
<1> USE ParamsAssumption DEF PInv, Goto, settings, Files, Returns
<1> USE DEF ParamsTypeOK, RunHasOwner, Copied, CtxShape, Exclusive, NeverBusy, Inside, Holding
<1>1. ASSUME NEW u \in Users, Call(u)
      PROVE  PInv'
  BY <1>1 DEF Call, vars, runVars
<1>2. ASSUME NEW u \in Users, ParamLock(u)
      PROVE  PInv'
  BY <1>2 DEF ParamLock, vars, runVars
<1>3. ASSUME NEW u \in Users, ParamUnlock(u)
      PROVE  PInv'
  BY <1>3 DEF ParamUnlock, vars, runVars
<1>4. ASSUME NEW u \in Users, NumThreadsSet(u)
      PROVE  PInv'
  BY <1>4 DEF NumThreadsSet, Numbers, Store, InRange, vars, runVars
<1>5. ASSUME NEW u \in Users, IterationsSet(u)
      PROVE  PInv'
  BY <1>5 DEF IterationsSet, Numbers, Store, InRange, vars, runVars
<1>6. ASSUME NEW u \in Users, LockTypeSet(u)
      PROVE  PInv'
  BY <1>6 DEF LockTypeSet, Numbers, Store, InRange, LockTypes, SPINLOCK, MUTEX, SEMAPHORE, vars, runVars
<1>7. ASSUME NEW u \in Users, RunTrylock(u)
      PROVE  PInv'
  BY <1>7 DEF RunTrylock, vars, runVars
<1>14. ASSUME NEW u \in Users, CopyThreads(u) \/ CopyIterations(u) \/ CopyLockType(u)
       PROVE  PInv'
  <2>1. CASE CopyThreads(u)
    BY <2>1 DEF CopyThreads, Copy, Configure, runVars
  <2>2. CASE CopyIterations(u)
    BY <2>2 DEF CopyIterations, Copy, Configure, runVars
  <2>3. CASE CopyLockType(u)
    BY <2>3 DEF CopyLockType, Copy, Configure, runVars
  <2> QED
    BY <1>14, <2>1, <2>2, <2>3
<1>15. ASSUME NEW u \in Users, RunTest(u)
       PROVE  PInv'
  BY <1>15 DEF RunTest, BeginRun
<1>8. ASSUME NEW u \in Users, RunRefused(u)
      PROVE  PInv'
  BY <1>8 DEF RunRefused, vars, runVars
<1>9. ASSUME NEW u \in Users, RunReturn(u)
      PROVE  PInv'
  BY <1>9 DEF RunReturn, vars, runVars
<1>10. ASSUME NEW u \in Users, ResetRefused(u) \/ ResetUnlock(u)
       PROVE  PInv'
  BY <1>10 DEF ResetRefused, ResetUnlock, vars, runVars
<1>16. ASSUME NEW u \in Users, ResetTrylock(u) \/ ResetClear(u)
       PROVE  PInv'
  BY <1>16 DEF ResetTrylock, ResetClear, ClearRun, vars, runVars
<1>11. ASSUME NEW u \in Users, ResultGet(u) \/ StatsGet(u) \/ StatsDivide(u)
       PROVE  PInv'
  BY <1>11 DEF ResultGet, StatsGet, StatsDivide, vars, runVars
<1>12. ASSUME TestStep
       PROVE  PInv'
  <2>1. UNCHANGED <<settings, run_mutex, param_lock, upc>>
    BY <1>12 DEF TestStep
  <2> QED
    BY <1>12, <2>1, TestStepShape
<1>13. ASSUME UNCHANGED allVars
       PROVE  PInv'
  BY <1>13 DEF allVars, vars, runVars
<1> QED
  BY <1>1, <1>2, <1>3, <1>4, <1>5, <1>6, <1>7, <1>8, <1>9, <1>10, <1>11, <1>12, <1>13,
     <1>14, <1>15, <1>16
  DEF ParamsNext, Callback

LEMMA ParamsInvariance == ParamsSpec => []PInv
<1> QED
  BY ParamsInitially, ParamsInduction, PTL DEF ParamsSpec

\* The parameters stay in range, whatever is written to them.
THEOREM ParamsTypeCorrect == ParamsSpec => []ParamsTypeOK
<1>1. PInv => ParamsTypeOK
  BY DEF PInv
<1> QED
  BY <1>1, ParamsInvariance, PTL

\* run_mutex is held by the one user whose run is in progress.
THEOREM OwnerCorrect == ParamsSpec => []RunHasOwner
<1>1. PInv => RunHasOwner
  BY DEF PInv
<1> QED
  BY <1>1, ParamsInvariance, PTL

\* With param_lock no caller is refused because a test is running: EBUSY is
\* never returned.
THEOREM NeverBusyCorrect == ParamsSpec => []NeverBusy
<1>1. PInv => NeverBusy
  BY DEF PInv
<1> QED
  BY <1>1, ParamsInvariance, PTL

-----------------------------------------------------------------------------
\* A step of the module is a step of SyncTest, or leaves the test alone.
LEMMA ParamsStep ==
  ASSUME PInv, [ParamsNext]_allVars
  PROVE  [Next]_vars
<1>1. ASSUME NEW u \in Users, CopyThreads(u) \/ CopyIterations(u) \/ CopyLockType(u)
      PROVE  Next
  <2>1. /\ run_pc = "idle" /\ num_threads \in 1 .. MaxThreads /\ iterations \in 1 .. MaxIterations
        /\ lock_type \in LockTypes
    BY <1>1 DEF PInv, ParamsTypeOK, RunHasOwner, Holding, CopyThreads, CopyIterations, CopyLockType, Copy
  <2>2. CopyParams
    BY <1>1, <2>1 DEF CopyParams, CopyThreads, CopyIterations, CopyLockType, Copy
  <2> QED
    BY <2>2 DEF Next
<1>6. ASSUME NEW u \in Users, RunTest(u)
      PROVE  Next
  BY <1>6 DEF PInv, ParamsTypeOK, RunHasOwner, Holding, Copied, RunTest, StartRun, Next
<1>2. ASSUME NEW u \in Users, ResetClear(u)
      PROVE  Next
  BY <1>2 DEF ResetClear, PInv, ParamsTypeOK, RunHasOwner, Holding, Next, ResetStats
<1>3. ASSUME NEW u \in Users,
             \/ Call(u) \/ ParamLock(u) \/ ParamUnlock(u)
             \/ NumThreadsSet(u) \/ IterationsSet(u) \/ LockTypeSet(u)
             \/ RunRefused(u) \/ RunTrylock(u) \/ RunReturn(u)
             \/ ResetRefused(u) \/ ResetTrylock(u) \/ ResetUnlock(u)
             \/ ResultGet(u) \/ StatsGet(u) \/ StatsDivide(u)
      PROVE  UNCHANGED vars
  BY <1>3 DEF Call, ParamLock, ParamUnlock, NumThreadsSet, IterationsSet, LockTypeSet, RunRefused,
              RunTrylock, RunReturn, ResetRefused, ResetTrylock, ResetUnlock, ResultGet, StatsGet, StatsDivide
<1>4. ASSUME TestStep
      PROVE  Next
  BY <1>4 DEF TestStep, Next
<1>5. ASSUME UNCHANGED allVars
      PROVE  UNCHANGED vars
  BY <1>5 DEF allVars
<1> QED
  BY <1>1, <1>2, <1>3, <1>4, <1>5, <1>6 DEF ParamsNext, Callback

\* The module runs the test as SyncTest specifies, with or without param_lock.
THEOREM RunsCorrect == ParamsSpec => RunsAsSpecified
<1>1. ParamsInit => Init
  BY DEF ParamsInit
<1>2. PInv /\ [ParamsNext]_allVars => [Next]_vars
  BY ParamsStep
<1> QED
  BY <1>1, <1>2, ParamsInvariance, PTL DEF ParamsSpec, RunsAsSpecified, Spec

\* Hence its workers exclude each other, and the test keeps its promise.
THEOREM ModuleCorrect == ParamsSpec => []MutualExclusion /\ []CounterBalanced /\ KeepsPromise
<1> QED
  BY RunsCorrect, ExclusionCorrect, CounterCorrect, PromiseKept, PTL DEF RunsAsSpecified

\* With param_lock result_get prints the counter of no run in progress: 0.
THEOREM ResultCorrect == ParamsSpec => []ResultIsZero
<1>1. PInv /\ IInv => ResultIsZero
  <2> SUFFICES ASSUME PInv, IInv, Serialised, NEW u \in Users, upc[u] = "result"
               PROVE  shared_counter = 0
    BY DEF ResultIsZero
  <2>1. param_lock = u /\ \A v \in Users : upc[v] = "running" => param_lock = v
    BY DEF PInv, Exclusive, Inside, Files, Holding
  <2>2. \A v \in Users : upc[v] # "running"
    BY <2>1
  <2>3. run_pc = "idle"
    BY <2>2 DEF PInv, RunHasOwner
  <2> QED
    BY <2>3, NoneAtWork DEF IInv, Joining
<1>2. ParamsSpec => []IInv
  BY RunsCorrect, Invariance, PTL DEF RunsAsSpecified
<1> QED
  BY <1>1, <1>2, ParamsInvariance, PTL

-----------------------------------------------------------------------------
\* The one user in a callback that does not run the test meets no run.
LEMMA NoRunMet ==
  ASSUME PInv, Serialised, NEW u \in Users, upc[u] \in Inside \ {"running"}
  PROVE  run_pc = "idle" /\ \A v \in Users : upc[v] \in Inside => v = u
<1>1. param_lock = u /\ \A v \in Users : upc[v] \in Inside => param_lock = v
  BY DEF PInv, Exclusive
<1>2. \A v \in Users : upc[v] # "running"
  BY <1>1 DEF Inside, Holding
<1> QED
  BY <1>1, <1>2 DEF PInv, RunHasOwner

DivisorKept == Serialised => \A u \in Users : upc[u] = "divide" => contention_count # 0

LEMMA DivisorInduction ==
  ASSUME PInv, IInv, DivisorKept, [ParamsNext]_allVars
  PROVE  DivisorKept'
<1> SUFFICES ASSUME Serialised, NEW u \in Users, upc'[u] = "divide"
             PROVE  contention_count' # 0
  BY DEF DivisorKept
<1> USE DEF Goto, settings
<1>1. upc \in [Users -> {"out", "enter", "divide"} \union Holding \union Files \union Returns]
  BY DEF PInv, ParamsTypeOK
<1>2. CASE upc[u] = "divide"
  <2>1. contention_count # 0 /\ run_pc = "idle" /\ \A v \in Users : upc[v] \in Inside => v = u
    BY <1>2, NoRunMet DEF DivisorKept, Inside, Holding
  <2>2. ASSUME NEW v \in Users, RunTest(v) \/ ResetClear(v) PROVE FALSE
    BY <1>2, <2>1, <2>2 DEF RunTest, ResetClear, Inside, Holding
  <2>3. ASSUME TestStep PROVE contention_count' = contention_count
    <3>1. \A t \in Tasks : pc[t] \in {"unused", "wake"}
      BY <2>1 DEF IInv, TaskShape, Joining, Busy, TypeOK, TaskPoints
    <3>2. ~ RunStep
      BY <2>1 DEF RunStep, InitJoin, InitLock, Allocate, AllocateFails, CreateThread, CreateFails, AllCreated, StopCreated,
         AllStopped, LaunchThread, AllLaunched, WaitTest, PrepareToWait, Retest, Awaken,
         CollectWaitTime, AllCollected, FreeMem
    <3> QED
      BY <2>3, <3>1, <3>2 DEF TestStep, WorkerStep, WorkerStart, SyncLock, Increment, Decrement, ReportDone,
         WakeUp, ctxVars
  <2>4. ASSUME NEW v \in Users,
               \/ Call(v) \/ ParamLock(v) \/ ParamUnlock(v)
               \/ NumThreadsSet(v) \/ IterationsSet(v) \/ LockTypeSet(v)
               \/ RunRefused(v) \/ RunTrylock(v) \/ RunReturn(v)
               \/ CopyThreads(v) \/ CopyIterations(v) \/ CopyLockType(v)
               \/ ResetRefused(v) \/ ResetTrylock(v) \/ ResetUnlock(v)
               \/ ResultGet(v) \/ StatsGet(v) \/ StatsDivide(v)
        PROVE  contention_count' = contention_count
    BY <2>4 DEF Call, ParamLock, ParamUnlock, NumThreadsSet, IterationsSet, LockTypeSet, RunRefused,
                RunTrylock, RunReturn, CopyThreads, CopyIterations, CopyLockType, Copy, Configure,
                ResetRefused, ResetTrylock, ResetUnlock, ResultGet, StatsGet, StatsDivide, vars, ctxVars
  <2> QED
    BY <2>1, <2>2, <2>3, <2>4 DEF ParamsNext, Callback, allVars, vars, ctxVars
<1>3. CASE upc[u] # "divide"
  <2>1. ~ TestStep /\ ~ UNCHANGED allVars
    BY <1>3 DEF TestStep, allVars
  <2>2. ASSUME NEW v \in Users,
               \/ Call(v) \/ ParamLock(v) \/ ParamUnlock(v)
               \/ NumThreadsSet(v) \/ IterationsSet(v) \/ LockTypeSet(v)
        PROVE  FALSE
    BY <1>1, <1>3, <2>2 DEF Call, ParamLock, ParamUnlock, NumThreadsSet, IterationsSet, LockTypeSet, Store, Files
  <2>3. ASSUME NEW v \in Users,
               \/ RunRefused(v) \/ RunTrylock(v) \/ CopyThreads(v) \/ CopyIterations(v) \/ CopyLockType(v)
               \/ RunTest(v) \/ RunReturn(v)
               \/ ResetRefused(v) \/ ResetTrylock(v) \/ ResetClear(v) \/ ResetUnlock(v)
               \/ ResultGet(v) \/ StatsDivide(v)
        PROVE  FALSE
    BY <1>1, <1>3, <2>3 DEF RunRefused, RunTrylock, CopyThreads, CopyIterations, CopyLockType, Copy,
       RunTest, RunReturn, ResetRefused, ResetTrylock, ResetClear, ResetUnlock, ResultGet, StatsDivide
  <2>4. PICK v \in Users : StatsGet(v)
    BY <2>1, <2>2, <2>3 DEF ParamsNext, Callback
  <2> QED
    BY <1>1, <1>3, <2>4 DEF StatsGet, vars, ctxVars
<1> QED
  BY <1>2, <1>3

\* With param_lock the divisor of stats_get is not 0 when it is read again, and
\* the average is one threshold at least: the statistics are of no run in progress.
THEOREM DivisorCorrect == ParamsSpec => []DivisorTested
<1>1. PInv /\ IInv /\ StatsAgree /\ DivisorKept => DivisorTested
  <2> SUFFICES ASSUME PInv, IInv, StatsAgree, DivisorKept, Serialised, NEW u \in Users, upc[u] = "divide"
               PROVE  contention_count # 0 /\ total_wait_time >= contention_count
    BY DEF DivisorTested
  <2>1. run_pc = "idle"
    BY NoRunMet DEF Inside, Holding
  <2> QED
    BY <2>1 DEF DivisorKept, StatsAgree, IInv, TypeOK
<1>2. ParamsInit => DivisorKept
  BY DEF ParamsInit, DivisorKept
<1>3. PInv /\ IInv /\ DivisorKept /\ [ParamsNext]_allVars => DivisorKept'
  BY DivisorInduction
<1>4. ParamsSpec => []IInv /\ []StatsAgree
  BY RunsCorrect, Invariance, StatsCorrect, PTL DEF RunsAsSpecified
<1> QED
  BY <1>1, <1>2, <1>3, <1>4, ParamsInvariance, PTL DEF ParamsSpec

-----------------------------------------------------------------------------
\* What holds of every run of SyncTest holds of the runs of the module: none is
\* disturbed by a reset or by what is written meanwhile, none gets stuck, and each
\* step of one brings its return nearer.
THEOREM RunsUndisturbed == ParamsSpec => RunGrows /\ []NoLostWakeUp /\ []NeverStuck /\ EveryStepCounts
<1> QED
  BY RunsCorrect, GrowsCorrect, WakeUpKept, NotStuck, RunShrinks, PTL DEF RunsAsSpecified

\* User u can go on in its callback, or get into one.
CanCall(u) ==
  /\ upc[u] # "out"
  /\ upc[u] = "enter" => ~ Serialised \/ param_lock = None
  /\ upc[u] = "running" => run_pc = "idle"

CallsNeverStuck ==
  (\E u \in Users : upc[u] # "out") => \/ \E u \in Users : CanCall(u)
                                       \/ CanRun \/ \E t \in Tasks : CanWork(t)

\* Two locks are taken in one order, and the inner one only by a trylock: while a
\* read or write of a parameter file is in progress, some user or the test that
\* one of them waits for can go on (params.c:152-166, 270-282).
THEOREM CallsNotStuck == ParamsSpec => []CallsNeverStuck
<1>1. PInv /\ NeverStuck => CallsNeverStuck
  <2> SUFFICES ASSUME PInv, NeverStuck, NEW u \in Users, upc[u] # "out",
                      \A v \in Users : ~ CanCall(v), ~ CanRun, \A t \in Tasks : ~ CanWork(t)
               PROVE  FALSE
    BY DEF CallsNeverStuck
  <2>1. run_pc = "idle"
    BY DEF NeverStuck
  <2>2. \A v \in Users : upc[v] \in {"out", "enter"}
    BY <2>1 DEF CanCall
  <2>3. upc[u] = "enter" /\ Serialised /\ param_lock # None
    BY <2>2 DEF CanCall
  <2>4. PICK v \in Users : param_lock = v
    BY <2>3 DEF PInv, ParamsTypeOK
  <2>5. upc[v] \in Inside
    BY <2>3, <2>4 DEF PInv, Exclusive
  <2> QED
    BY <2>2, <2>5 DEF Inside, Holding, Files, Returns
<1>2. ParamsSpec => []NeverStuck
  BY RunsCorrect, NotStuck, PTL DEF RunsAsSpecified
<1> QED
  BY <1>1, <1>2, ParamsInvariance, PTL

=============================================================================
