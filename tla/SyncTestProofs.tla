--------------------------- MODULE SyncTestProofs ---------------------------
(***************************************************************************)
(* Proofs about SyncTest, for every set of tasks, MAX_NUM_THREADS and      *)
(* MAX_ITERATIONS: type correctness, mutual exclusion, the life time of    *)
(* the workers' arguments, the exactness of the join, the balance of the   *)
(* shared counter, and that run_test implements TestRun.                   *)
(*                                                                         *)
(* The inductive invariant relates the program point of run_test to the    *)
(* kthreads: which entries of ctx->threads are filled and by whom          *)
(* (RunShape), where a kthread can be while run_test is at a given point   *)
(* (TaskShape), and what a worker in its critical section knows            *)
(* (LockShape).                                                            *)
(***************************************************************************)
EXTENDS SyncTest, FiniteSetTheorems, TLAPS

Joining == {"launch", "wait", "prepare", "retest", "sleep"}
Owning == Joining \union {"create", "stop", "collect"}   \* both arrays are allocated

\* The entry i of ctx->threads is a kthread that waits for its first wake-up.
Ready(i) == threads[i] \in Tasks /\ pc[threads[i]] = "created" /\ slot[threads[i]] = i

RunShape ==
  /\ run_pc # "idle" => ctx.num_threads >= 1 /\ ctx.iterations >= 1
  /\ run_pc \in Preparing \union {"alloc"} => threads = None /\ args = None /\ run_i = 0
  /\ run_pc \notin Preparing => threads_done <= ctx.num_threads
  /\ run_pc \in Owning => threads \in [Slots -> Tasks \union {None}] /\ args \in [Slots -> Nat]
  /\ run_pc \in {"init_lock", "alloc", "create", "stop"} => threads_done = 0
  /\ run_pc \in Joining \union {"init", "init_lock", "alloc", "create", "collect"} => run_rc = "ok"
  /\ run_pc = "stop" => run_rc = "error"
  /\ run_pc = "create" => \A i \in Slots : IF i < run_i THEN Ready(i) ELSE threads[i] = None
  /\ run_pc = "stop" => \A i \in Slots : threads[i] = None \/ (i >= run_i /\ Ready(i))
  /\ run_pc = "launch" => \A i \in Slots : i >= run_i => Ready(i)
  /\ run_pc = "collect" \/ (run_pc = "free" /\ run_rc = "ok") => threads_done = ctx.num_threads

TaskShape ==
  \A t \in Tasks :
    /\ pc[t] = "created" => \/ run_pc \in {"create", "stop"}
                            \/ run_pc = "launch" /\ slot[t] >= run_i
    /\ t \in Busy => run_pc \in Joining
    /\ t \in Working => slot[t] \in Slots /\ threads[slot[t]] = t

LockShape ==
  \A t \in Tasks :
    /\ t \in Critical => units[ctx.lock_type] = 0 /\ seen[t].counter = shared_counter
    /\ pc[t] \in {"lock_inc", "inc", "lock_dec", "dec"} => iter[t] < ctx.iterations

IInv ==
  /\ TypeOK /\ RunShape /\ TaskShape /\ BarrierExact
  /\ LockShape /\ MutualExclusion /\ CounterBalanced

-----------------------------------------------------------------------------
\* Adding a task to a set of tasks, or taking one away, moves the count by one.
LEMMA TaskCount ==
  ASSUME NEW S \in SUBSET Tasks, NEW t \in Tasks
  PROVE  /\ IsFiniteSet(S) /\ Cardinality(S) \in Nat
         /\ t \notin S => Cardinality(S \union {t}) = Cardinality(S) + 1
         /\ t \in S => Cardinality(S \ {t}) = Cardinality(S) - 1 /\ Cardinality(S) >= 1
<1>1. IsFiniteSet(S)
  BY SyncAssumption, FS_Subset
<1>2. Cardinality(S) \in Nat /\ Cardinality(S \ {t}) \in Nat
  BY <1>1, FS_CardinalityType, FS_RemoveElement
<1>3. t \notin S => Cardinality(S \union {t}) = Cardinality(S) + 1
  BY <1>1, FS_AddElement
<1>4. t \in S => Cardinality(S \ {t}) = Cardinality(S) - 1
  BY <1>1, FS_RemoveElement
<1> QED
  BY <1>1, <1>2, <1>3, <1>4

\* When run_test is not past its first wake-up, or has joined, no worker is at
\* work, none holds the counter up, and the counter is 0.
LEMMA NoneAtWork ==
  ASSUME TypeOK, TaskShape, CounterBalanced, run_pc \notin Joining
  PROVE  Busy = {} /\ Raised = {} /\ Critical = {} /\ Cardinality(Busy) = 0 /\ shared_counter = 0
<1>1. Busy = {}
  BY DEF TaskShape, Busy
<1>2. Raised = {} /\ Critical = {}
  BY <1>1 DEF Raised, Critical, Busy
<1> QED
  BY <1>1, <1>2, FS_EmptySet DEF CounterBalanced

\* Once the wait has found every thread counted, no kthread may use its args.
LEMMA JoinedNoneLeft ==
  ASSUME TypeOK, BarrierExact, TaskShape, Joined,
         run_pc \in {"wait", "prepare", "retest", "sleep", "collect"}
  PROVE  Working = {}
<1>1. Busy \in SUBSET Tasks /\ IsFiniteSet(Busy)
  BY SyncAssumption, FS_Subset DEF Busy
<1>2. Cardinality(Busy) = 0
  BY <1>1, FS_CardinalityType DEF BarrierExact, Joined, TypeOK
<1>3. Busy = {}
  BY <1>1, <1>2, FS_EmptySet
<1> QED
  BY <1>3 DEF Busy, Working, TaskShape, TypeOK, TaskPoints

-----------------------------------------------------------------------------
\* Every step preserves the inductive invariant.
LEMMA Induction ==
  ASSUME IInv, [Next]_vars
 
      PROVE  IInv'
<1> USE SyncAssumption DEF IInv, LockTypes, SPINLOCK, MUTEX, SEMAPHORE, Preparing,
           vars, ctxVars, memVars, waitVars, runVars, taskVars
<1>0. ASSUME CopyParams
      PROVE  IInv'
  <2>a. /\ run_pc = "idle"
        /\ UNCHANGED <<ctxVars, threads_done, memVars, units, waitVars, runVars, taskVars>>
    BY <1>0 DEF CopyParams, Configure
  <2>b. ctx' \in [num_threads : 0 .. MaxThreads, iterations : 0 .. MaxIterations, lock_type : LockTypes]
    BY <1>0 DEF CopyParams, Configure, TypeOK
  <2> USE <2>a
  <2>1. TypeOK'
    BY <2>b DEF TypeOK, RunShape
  <2>2. RunShape'
    BY DEF TypeOK, RunShape, TaskShape, Slots, Ready, Joining, Owning, Busy, Working
  <2>3. TaskShape'
    BY DEF TypeOK, RunShape, TaskShape, Slots, Ready, Joining, Owning, Busy, Working,
           RunPoints, TaskPoints
  <2>4. BarrierExact'
    BY NoneAtWork DEF TypeOK, BarrierExact, Busy, RunShape, TaskShape, Joining, Ready, Slots
  <2>5. LockShape'
    BY DEF TypeOK, LockShape, TaskShape, RunShape, Joining, Busy, Working, Critical,
           MutualExclusion, Slots
  <2>6. MutualExclusion'
    BY DEF TypeOK, MutualExclusion, LockShape, Critical, TaskShape, Busy, Joining
  <2>7. CounterBalanced'
    BY NoneAtWork DEF TypeOK, CounterBalanced, Raised, TaskShape, Busy, Joining, LockShape,
                      Critical
  <2> QED BY <2>1, <2>2, <2>3, <2>4, <2>5, <2>6, <2>7
<1>1. ASSUME StartRun
      PROVE  IInv'
  <2> USE <1>1 DEF StartRun, BeginRun, ClearStats
  <2>1. TypeOK'
    BY DEF TypeOK, RunPoints, TaskPoints, Slots
  <2>2. RunShape'
    BY DEF TypeOK, RunShape, TaskShape, Slots, Ready, Joining, Owning, Busy, Working
  <2>3. TaskShape'
    BY DEF TypeOK, RunShape, TaskShape, Slots, Ready, Joining, Owning, Busy, Working,
           RunPoints, TaskPoints
  <2>4. BarrierExact'
    BY NoneAtWork DEF TypeOK, BarrierExact, Busy, RunShape, TaskShape, Joining, Ready, Slots
  <2>5. LockShape'
    BY DEF TypeOK, LockShape, TaskShape, RunShape, Joining, Busy, Working, Critical,
           MutualExclusion, Slots
  <2>6. MutualExclusion'
    BY DEF TypeOK, MutualExclusion, LockShape, Critical, TaskShape, Busy, Joining
  <2>7. CounterBalanced'
    BY NoneAtWork DEF TypeOK, CounterBalanced, Raised, TaskShape, Busy, Joining, LockShape,
                      Critical
  <2> QED BY <2>1, <2>2, <2>3, <2>4, <2>5, <2>6, <2>7
<1>26. ASSUME InitJoin
       PROVE  IInv'
  <2> USE <1>26 DEF InitJoin
  <2>1. TypeOK'
    <3>1. args = None /\ run_i = 0
      BY DEF RunShape
    <3>2. run_pc' \in RunPoints /\ threads_done' \in 0 .. MaxThreads /\ threads' = None
      BY DEF RunPoints
    <3>3. args' = None /\ run_i' = 0 /\ ctx' = ctx /\ queued' = FALSE /\ awake' = awake
      BY <3>1
    <3>4. queued' \in BOOLEAN /\ awake' \in BOOLEAN
      BY <3>3 DEF TypeOK
    <3>5. shared_counter' \in Int /\ contention_count' \in Nat /\ total_wait_time' \in Nat
      BY DEF TypeOK
    <3> QED
      BY <3>2, <3>3, <3>4, <3>5 DEF TypeOK, Slots
  <2>2. RunShape'
    BY DEF TypeOK, RunShape, TaskShape, Slots, Ready, Joining, Owning, Busy, Working
  <2>3. TaskShape'
    BY DEF TypeOK, RunShape, TaskShape, Slots, Ready, Joining, Owning, Busy, Working,
           RunPoints, TaskPoints
  <2>4. BarrierExact'
    BY NoneAtWork DEF TypeOK, BarrierExact, Busy, RunShape, TaskShape, Joining, Ready, Slots
  <2>5. LockShape'
    BY DEF TypeOK, LockShape, TaskShape, RunShape, Joining, Busy, Working, Critical,
           MutualExclusion, Slots
  <2>6. MutualExclusion'
    BY DEF TypeOK, MutualExclusion, LockShape, Critical, TaskShape, Busy, Joining
  <2>7. CounterBalanced'
    BY NoneAtWork DEF TypeOK, CounterBalanced, Raised, TaskShape, Busy, Joining, LockShape,
                      Critical
  <2> QED BY <2>1, <2>2, <2>3, <2>4, <2>5, <2>6, <2>7
<1>27. ASSUME InitLock
       PROVE  IInv'
  <2> USE <1>27 DEF InitLock, InitialUnits
  <2>1. TypeOK'
    BY DEF TypeOK, RunPoints, TaskPoints, Slots
  <2>2. RunShape'
    BY DEF TypeOK, RunShape, TaskShape, Slots, Ready, Joining, Owning, Busy, Working
  <2>3. TaskShape'
    BY DEF TypeOK, RunShape, TaskShape, Slots, Ready, Joining, Owning, Busy, Working,
           RunPoints, TaskPoints
  <2>4. BarrierExact'
    BY NoneAtWork DEF TypeOK, BarrierExact, Busy, RunShape, TaskShape, Joining, Ready, Slots
  <2>5. LockShape'
    BY DEF TypeOK, LockShape, TaskShape, RunShape, Joining, Busy, Working, Critical,
           MutualExclusion, Slots
  <2>6. MutualExclusion'
    BY DEF TypeOK, MutualExclusion, LockShape, Critical, TaskShape, Busy, Joining
  <2>7. CounterBalanced'
    BY NoneAtWork DEF TypeOK, CounterBalanced, Raised, TaskShape, Busy, Joining, LockShape,
                      Critical
  <2> QED BY <2>1, <2>2, <2>3, <2>4, <2>5, <2>6, <2>7
<1>2. ASSUME ResetStats
      PROVE  IInv'
  <2> USE <1>2 DEF ResetStats, ClearRun, ClearStats
  <2>1. TypeOK'
    BY DEF TypeOK, RunPoints, TaskPoints, Slots
  <2>2. RunShape'
    BY DEF TypeOK, RunShape, TaskShape, Slots, Ready, Joining, Owning, Busy, Working
  <2>3. TaskShape'
    BY DEF TypeOK, RunShape, TaskShape, Slots, Ready, Joining, Owning, Busy, Working,
           RunPoints, TaskPoints
  <2>4. BarrierExact'
    BY NoneAtWork DEF TypeOK, BarrierExact, Busy, RunShape, TaskShape, Joining, Ready, Slots
  <2>5. LockShape'
    BY DEF TypeOK, LockShape, TaskShape, RunShape, Joining, Busy, Working, Critical,
           MutualExclusion, Slots
  <2>6. MutualExclusion'
    BY DEF TypeOK, MutualExclusion, LockShape, Critical, TaskShape, Busy, Joining
  <2>7. CounterBalanced'
    BY NoneAtWork DEF TypeOK, CounterBalanced, Raised, TaskShape, Busy, Joining, LockShape,
                      Critical
  <2> QED BY <2>1, <2>2, <2>3, <2>4, <2>5, <2>6, <2>7
<1>3. ASSUME Allocate
      PROVE  IInv'
  <2> USE <1>3 DEF Allocate
  <2>1. TypeOK'
    BY DEF TypeOK, RunPoints, TaskPoints, Slots
  <2>2. RunShape'
    <3>1. threads' \in [Slots -> Tasks \union {None}] /\ args' \in [Slots -> Nat]
      OBVIOUS
    <3>2. \A i \in Slots : threads'[i] = None /\ i >= run_i
      BY DEF Slots, RunShape, TypeOK
    <3> QED BY <3>1, <3>2 DEF RunShape, Slots, Joining, Owning, TypeOK
  <2>3. TaskShape'
    BY DEF TypeOK, RunShape, TaskShape, Slots, Ready, Joining, Owning, Busy, Working,
           RunPoints, TaskPoints
  <2>4. BarrierExact'
    BY NoneAtWork DEF TypeOK, BarrierExact, Busy, RunShape, TaskShape, Joining, Ready, Slots
  <2>5. LockShape'
    BY DEF TypeOK, LockShape, TaskShape, RunShape, Joining, Busy, Working, Critical,
           MutualExclusion, Slots
  <2>6. MutualExclusion'
    BY DEF TypeOK, MutualExclusion, LockShape, Critical, TaskShape, Busy, Joining
  <2>7. CounterBalanced'
    BY NoneAtWork DEF TypeOK, CounterBalanced, Raised, TaskShape, Busy, Joining, LockShape,
                      Critical
  <2> QED BY <2>1, <2>2, <2>3, <2>4, <2>5, <2>6, <2>7
<1>4. ASSUME AllocateFails
      PROVE  IInv'
  <2> USE <1>4 DEF AllocateFails
  <2>1. TypeOK'
    BY DEF TypeOK, RunPoints, TaskPoints, Slots
  <2>2. RunShape'
    BY DEF TypeOK, RunShape, TaskShape, Slots, Ready, Joining, Owning, Busy, Working
  <2>3. TaskShape'
    BY DEF TypeOK, RunShape, TaskShape, Slots, Ready, Joining, Owning, Busy, Working,
           RunPoints, TaskPoints
  <2>4. BarrierExact'
    BY DEF TypeOK, BarrierExact, Busy, RunShape, TaskShape, Joining, Ready, Slots
  <2>5. LockShape'
    BY DEF TypeOK, LockShape, TaskShape, RunShape, Joining, Busy, Working, Critical,
           MutualExclusion, Slots
  <2>6. MutualExclusion'
    BY DEF TypeOK, MutualExclusion, LockShape, Critical, TaskShape, Busy, Joining
  <2>7. CounterBalanced'
    BY DEF TypeOK, CounterBalanced, Raised, TaskShape, Busy, Joining, LockShape, Critical
  <2> QED BY <2>1, <2>2, <2>3, <2>4, <2>5, <2>6, <2>7
<1>5. ASSUME NEW t \in Tasks, CreateThread(t)
      PROVE  IInv'
  <2> USE <1>5 DEF CreateThread
  <2>1. TypeOK'
    <3>1. run_i \in Slots /\ slot' \in [Tasks -> 0 .. MaxThreads - 1] /\ run_i' \in 0 .. ctx.num_threads
      BY DEF TypeOK, Slots
    <3>2. pc' \in [Tasks -> TaskPoints]
      BY DEF TypeOK, TaskPoints
    <3>3. threads' \in [Slots -> Tasks \union {None}]
      BY <3>1 DEF RunShape, Owning
    <3> QED BY <3>1, <3>2, <3>3 DEF TypeOK, Slots
  <2>2. RunShape'
    BY DEF TypeOK, RunShape, TaskShape, Slots, Ready, Joining, Owning, Busy, Working
  <2>3. TaskShape'
    <3>1. /\ run_i \in Slots /\ run_pc' = "create" /\ Slots' = Slots
          /\ threads \in [Slots -> Tasks \union {None}] /\ threads[run_i] = None
      BY DEF TypeOK, RunShape, Owning, Slots
    <3>2. pc'[t] = "created" /\ slot'[t] = run_i /\ threads'[run_i] = t
      BY <3>1 DEF TypeOK
    <3>3. ASSUME NEW u \in Tasks \ {t}, u \in Working'
          PROVE  slot'[u] \in Slots /\ threads'[slot'[u]] = u
      <4>1. u \in Working /\ slot'[u] = slot[u]
        BY <3>3 DEF Working, TypeOK
      <4>2. slot[u] \in Slots /\ threads[slot[u]] = u /\ u # None
        BY <4>1, SyncAssumption DEF TaskShape
      <4> QED
        BY <3>1, <4>1, <4>2
    <3>4. \A u \in Tasks : u \notin Busy'
      BY <3>1 DEF TaskShape, Busy, Joining, TypeOK
    <3> QED
      BY <3>1, <3>2, <3>3, <3>4 DEF TaskShape, TypeOK
  <2>4. BarrierExact'
    BY DEF TypeOK, BarrierExact, Busy, RunShape, TaskShape, Joining, Ready, Slots
  <2>5. LockShape'
    BY DEF TypeOK, LockShape, TaskShape, RunShape, Joining, Busy, Working, Critical,
           MutualExclusion, Slots
  <2>6. MutualExclusion'
    BY DEF TypeOK, MutualExclusion, LockShape, Critical, TaskShape, Busy, Joining
  <2>7. CounterBalanced'
    BY DEF TypeOK, CounterBalanced, Raised, TaskShape, Busy, Joining, LockShape, Critical
  <2> QED BY <2>1, <2>2, <2>3, <2>4, <2>5, <2>6, <2>7
<1>6. ASSUME CreateFails
      PROVE  IInv'
  <2> USE <1>6 DEF CreateFails
  <2>1. TypeOK'
    <3>1. run_i \in Slots /\ threads' \in [Slots -> Tasks \union {None}]
      BY DEF TypeOK, Slots, RunShape, Owning
    <3>2. run_pc' \in RunPoints /\ run_i' \in 0 .. ctx.num_threads
      BY <3>1 DEF TypeOK, RunPoints, Slots
    <3> QED BY <3>1, <3>2 DEF TypeOK, Slots
  <2>2. RunShape'
    <3>1. threads' \in [Slots -> Tasks \union {None}] /\ args \in [Slots -> Nat]
      BY DEF RunShape, Owning, Slots, TypeOK
    <3>2. \A i \in Slots : threads'[i] = None \/ (i >= 0 /\ Ready(i)')
      
      <4> SUFFICES ASSUME NEW i \in Slots, i < run_i PROVE Ready(i)'
        BY <3>1 DEF RunShape, Owning, Slots, TypeOK
      <4> QED BY <3>1 DEF RunShape, Ready, Slots, TypeOK
    <3> QED BY <3>1, <3>2 DEF RunShape, Slots, Owning, Joining, TypeOK
  <2>3. TaskShape'
    BY DEF TypeOK, RunShape, TaskShape, Slots, Ready, Joining, Owning, Busy, Working,
           RunPoints, TaskPoints
  <2>4. BarrierExact'
    BY DEF TypeOK, BarrierExact, Busy, RunShape, TaskShape, Joining, Ready, Slots
  <2>5. LockShape'
    BY DEF TypeOK, LockShape, TaskShape, RunShape, Joining, Busy, Working, Critical,
           MutualExclusion, Slots
  <2>6. MutualExclusion'
    BY DEF TypeOK, MutualExclusion, LockShape, Critical, TaskShape, Busy, Joining
  <2>7. CounterBalanced'
    BY DEF TypeOK, CounterBalanced, Raised, TaskShape, Busy, Joining, LockShape, Critical
  <2> QED BY <2>1, <2>2, <2>3, <2>4, <2>5, <2>6, <2>7
<1>7. ASSUME AllCreated
      PROVE  IInv'
  <2> USE <1>7 DEF AllCreated
  <2>1. TypeOK'
    BY DEF TypeOK, RunPoints, TaskPoints, Slots
  <2>2. RunShape'
    BY DEF TypeOK, RunShape, TaskShape, Slots, Ready, Joining, Owning, Busy, Working
  <2>3. TaskShape'
    BY DEF TypeOK, RunShape, TaskShape, Slots, Ready, Joining, Owning, Busy, Working,
           RunPoints, TaskPoints
  <2>4. BarrierExact'
    BY NoneAtWork DEF TypeOK, BarrierExact, Busy, RunShape, TaskShape, Joining, Ready, Slots
  <2>5. LockShape'
    BY DEF TypeOK, LockShape, TaskShape, RunShape, Joining, Busy, Working, Critical,
           MutualExclusion, Slots
  <2>6. MutualExclusion'
    BY DEF TypeOK, MutualExclusion, LockShape, Critical, TaskShape, Busy, Joining
  <2>7. CounterBalanced'
    BY NoneAtWork DEF TypeOK, CounterBalanced, Raised, TaskShape, Busy, Joining, LockShape,
                      Critical
  <2> QED BY <2>1, <2>2, <2>3, <2>4, <2>5, <2>6, <2>7
<1>8. ASSUME StopCreated
      PROVE  IInv'
  <2> USE <1>8 DEF StopCreated
  <2>1. TypeOK'
    <3>1. run_i' \in 0 .. ctx.num_threads /\ threads' \in [Slots -> Tasks \union {None}]
      BY DEF TypeOK, Slots, RunShape, Owning
    <3>2. pc' = pc \/ pc' = [pc EXCEPT ![threads[run_i]] = "unused"]
      OBVIOUS
    <3>3. pc' \in [Tasks -> TaskPoints]
      BY <3>2 DEF TypeOK, TaskPoints
    <3> QED BY <3>1, <3>3 DEF TypeOK, Slots
  <2>2. RunShape'
    BY DEF TypeOK, RunShape, TaskShape, Slots, Ready, Joining, Owning, Busy, Working
  <2>3. TaskShape'
    BY DEF TypeOK, RunShape, TaskShape, Slots, Ready, Joining, Owning, Busy, Working,
           RunPoints, TaskPoints
  <2>4. BarrierExact'
    BY DEF TypeOK, BarrierExact, Busy, RunShape, TaskShape, Joining, Ready, Slots
  <2>5. LockShape'
    BY DEF TypeOK, LockShape, TaskShape, RunShape, Joining, Busy, Working, Critical,
           MutualExclusion, Slots
  <2>6. MutualExclusion'
    BY DEF TypeOK, MutualExclusion, LockShape, Critical, TaskShape, Busy, Joining
  <2>7. CounterBalanced'
    <3>1. shared_counter' = shared_counter
      BY DEF ctxVars
    <3>2. threads[run_i] = None \/ (threads[run_i] \in Tasks /\ pc[threads[run_i]] = "created")
      BY DEF RunShape, TypeOK, Slots, Ready
    <3>3. \A t \in Tasks : pc'[t] = pc[t] \/ (pc[t] = "created" /\ pc'[t] = "unused")
      BY <3>2 DEF TypeOK
    <3>4. Raised' = Raised
      BY <3>3 DEF Raised
    <3> QED BY <3>1, <3>4 DEF CounterBalanced
  <2> QED BY <2>1, <2>2, <2>3, <2>4, <2>5, <2>6, <2>7
<1>9. ASSUME AllStopped
      PROVE  IInv'
  <2> USE <1>9 DEF AllStopped
  <2>1. TypeOK'
    BY DEF TypeOK, RunPoints, TaskPoints, Slots
  <2>2. RunShape'
    BY DEF TypeOK, RunShape, TaskShape, Slots, Ready, Joining, Owning, Busy, Working
  <2>3. TaskShape'
    <3>1. \A i \in Slots : threads[i] = None
      BY DEF RunShape, TypeOK, Slots
    <3>2. Working = {}
      BY <3>1 DEF TaskShape, Working
    <3> QED BY <3>2 DEF TaskShape, Busy, Working
  <2>4. BarrierExact'
    BY DEF TypeOK, BarrierExact, Busy, RunShape, TaskShape, Joining, Ready, Slots
  <2>5. LockShape'
    BY DEF TypeOK, LockShape, TaskShape, RunShape, Joining, Busy, Working, Critical,
           MutualExclusion, Slots
  <2>6. MutualExclusion'
    BY DEF TypeOK, MutualExclusion, LockShape, Critical, TaskShape, Busy, Joining
  <2>7. CounterBalanced'
    <3>1. Raised' = Raised /\ shared_counter' = shared_counter
      BY DEF Raised, taskVars, memVars, ctxVars
    <3> QED BY <3>1 DEF CounterBalanced
  <2> QED BY <2>1, <2>2, <2>3, <2>4, <2>5, <2>6, <2>7
<1>10. ASSUME LaunchThread
      PROVE  IInv'
  <2> USE <1>10 DEF LaunchThread
  <2> DEFINE u == threads[run_i]
  <2>a. run_i \in Slots /\ Ready(run_i) /\ u \in Tasks /\ pc[u] = "created"
    BY DEF RunShape, TypeOK, Slots, Ready
  <2>b. pc' = [pc EXCEPT ![u] = "start"]
    OBVIOUS
  <2>c. Busy' = Busy \union {u} /\ u \notin Busy /\ Raised' = Raised /\ Working' = Working
    BY <2>a, <2>b DEF Busy, Raised, Working, TypeOK
  <2> HIDE DEF u
  <2>1. TypeOK'
    <3>1. pc' \in [Tasks -> TaskPoints] /\ run_i' \in 0 .. ctx.num_threads
      BY <2>a, <2>b DEF TypeOK, TaskPoints
    <3> QED BY <3>1 DEF TypeOK, Slots
  <2>2. RunShape'
    BY DEF TypeOK, RunShape, TaskShape, Slots, Ready, Joining, Owning, Busy, Working
  <2>3. TaskShape'
    <3> SUFFICES ASSUME NEW t \in Tasks
                 PROVE  /\ pc'[t] = "created" => run_pc' = "launch" /\ slot'[t] >= run_i'
                        /\ t \in Busy' => run_pc' \in Joining
                        /\ t \in Working' => slot'[t] \in Slots' /\ threads'[slot'[t]] = t
      BY DEF TaskShape
    <3>1. run_pc' = "launch" /\ run_i' = run_i + 1 /\ slot' = slot /\ threads' = threads /\ ctx' = ctx
      OBVIOUS
    <3>2. t \in Working' => slot'[t] \in Slots' /\ threads'[slot'[t]] = t
      BY <2>c, <3>1 DEF TaskShape, Slots
    <3>3. ASSUME pc'[t] = "created"
          PROVE  slot'[t] >= run_i'
      <4>1. t # u /\ pc[t] = "created"
        BY <2>a, <2>b, <3>3 DEF TypeOK
      <4>2. slot[t] >= run_i /\ t \in Working
        BY <4>1 DEF TaskShape, Working
      <4>3. threads[slot[t]] = t /\ slot[t] \in Slots
        BY <4>2 DEF TaskShape
      <4>4. slot[t] # run_i
        BY <4>1, <4>3 DEF u
      <4> QED BY <2>a, <3>1, <4>2, <4>3, <4>4 DEF Slots, TypeOK
    <3> QED BY <3>1, <3>2, <3>3 DEF Joining
  <2>4. BarrierExact'
    <3>1. Cardinality(Busy') = Cardinality(Busy) + 1 /\ Cardinality(Busy) \in Nat
      BY <2>a, <2>c, TaskCount DEF Busy
    <3> QED BY <3>1 DEF BarrierExact, TypeOK
  <2>5. LockShape'
    BY DEF TypeOK, LockShape, TaskShape, RunShape, Joining, Busy, Working, Critical,
           MutualExclusion, Slots
  <2>6. MutualExclusion'
    BY DEF TypeOK, MutualExclusion, LockShape, Critical, TaskShape, Busy, Joining
  <2>7. CounterBalanced'
    BY <2>c DEF CounterBalanced
  <2> QED BY <2>1, <2>2, <2>3, <2>4, <2>5, <2>6, <2>7
<1>11. ASSUME AllLaunched
      PROVE  IInv'
  <2> USE <1>11 DEF AllLaunched
  <2>1. TypeOK'
    BY DEF TypeOK, RunPoints, TaskPoints, Slots
  <2>2. RunShape'
    BY DEF TypeOK, RunShape, TaskShape, Slots, Ready, Joining, Owning, Busy, Working
  <2>3. TaskShape'
    BY DEF TypeOK, RunShape, TaskShape, Slots, Ready, Joining, Owning, Busy, Working,
           RunPoints, TaskPoints
  <2>4. BarrierExact'
    BY DEF TypeOK, BarrierExact, Busy, RunShape, TaskShape, Joining, Ready, Slots
  <2>5. LockShape'
    BY DEF TypeOK, LockShape, TaskShape, RunShape, Joining, Busy, Working, Critical,
           MutualExclusion, Slots
  <2>6. MutualExclusion'
    BY DEF TypeOK, MutualExclusion, LockShape, Critical, TaskShape, Busy, Joining
  <2>7. CounterBalanced'
    BY DEF TypeOK, CounterBalanced, Raised, TaskShape, Busy, Joining, LockShape, Critical
  <2> QED BY <2>1, <2>2, <2>3, <2>4, <2>5, <2>6, <2>7
<1>12. ASSUME WaitTest
      PROVE  IInv'
  <2> USE <1>12 DEF WaitTest, Joined
  <2>1. TypeOK'
    BY DEF TypeOK, RunPoints, TaskPoints, Slots
  <2>2. RunShape'
    BY DEF TypeOK, RunShape, TaskShape, Slots, Ready, Joining, Owning, Busy, Working
  <2>3. TaskShape'
    BY JoinedNoneLeft DEF TypeOK, RunShape, TaskShape, Slots, Ready, Joining, Owning, Busy,
                          Working, RunPoints, TaskPoints
  <2>4. BarrierExact'
    BY DEF TypeOK, BarrierExact, Busy, RunShape, TaskShape, Joining, Ready, Slots
  <2>5. LockShape'
    BY DEF TypeOK, LockShape, TaskShape, RunShape, Joining, Busy, Working, Critical,
           MutualExclusion, Slots
  <2>6. MutualExclusion'
    BY DEF TypeOK, MutualExclusion, LockShape, Critical, TaskShape, Busy, Joining
  <2>7. CounterBalanced'
    BY DEF TypeOK, CounterBalanced, Raised, TaskShape, Busy, Joining, LockShape, Critical
  <2> QED BY <2>1, <2>2, <2>3, <2>4, <2>5, <2>6, <2>7
<1>13. ASSUME PrepareToWait
      PROVE  IInv'
  <2> USE <1>13 DEF PrepareToWait
  <2>1. TypeOK'
    BY DEF TypeOK, RunPoints, TaskPoints, Slots
  <2>2. RunShape'
    BY DEF TypeOK, RunShape, TaskShape, Slots, Ready, Joining, Owning, Busy, Working
  <2>3. TaskShape'
    BY DEF TypeOK, RunShape, TaskShape, Slots, Ready, Joining, Owning, Busy, Working,
           RunPoints, TaskPoints
  <2>4. BarrierExact'
    BY DEF TypeOK, BarrierExact, Busy, RunShape, TaskShape, Joining, Ready, Slots
  <2>5. LockShape'
    BY DEF TypeOK, LockShape, TaskShape, RunShape, Joining, Busy, Working, Critical,
           MutualExclusion, Slots
  <2>6. MutualExclusion'
    BY DEF TypeOK, MutualExclusion, LockShape, Critical, TaskShape, Busy, Joining
  <2>7. CounterBalanced'
    BY DEF TypeOK, CounterBalanced, Raised, TaskShape, Busy, Joining, LockShape, Critical
  <2> QED BY <2>1, <2>2, <2>3, <2>4, <2>5, <2>6, <2>7
<1>14. ASSUME Retest
      PROVE  IInv'
  <2> USE <1>14 DEF Retest, Joined
  <2>1. TypeOK'
    <3>1. run_pc' \in RunPoints /\ run_i' \in 0 .. ctx'.num_threads
      BY DEF TypeOK, RunPoints, Slots
    <3>2. queued' \in BOOLEAN /\ awake' \in BOOLEAN
      BY DEF TypeOK
    <3> QED BY <3>1, <3>2 DEF TypeOK, Slots
  <2>2. RunShape'
    BY DEF TypeOK, RunShape, TaskShape, Slots, Ready, Joining, Owning, Busy, Working
  <2>3. TaskShape'
    BY JoinedNoneLeft DEF TypeOK, RunShape, TaskShape, Slots, Ready, Joining, Owning, Busy,
                          Working, RunPoints, TaskPoints
  <2>4. BarrierExact'
    BY DEF TypeOK, BarrierExact, Busy, RunShape, TaskShape, Joining, Ready, Slots
  <2>5. LockShape'
    BY DEF TypeOK, LockShape, TaskShape, RunShape, Joining, Busy, Working, Critical,
           MutualExclusion, Slots
  <2>6. MutualExclusion'
    BY DEF TypeOK, MutualExclusion, LockShape, Critical, TaskShape, Busy, Joining
  <2>7. CounterBalanced'
    BY DEF TypeOK, CounterBalanced, Raised, TaskShape, Busy, Joining, LockShape, Critical
  <2> QED BY <2>1, <2>2, <2>3, <2>4, <2>5, <2>6, <2>7
<1>15. ASSUME Awaken
      PROVE  IInv'
  <2> USE <1>15 DEF Awaken
  <2>1. TypeOK'
    BY DEF TypeOK, RunPoints, TaskPoints, Slots
  <2>2. RunShape'
    BY DEF TypeOK, RunShape, TaskShape, Slots, Ready, Joining, Owning, Busy, Working
  <2>3. TaskShape'
    BY DEF TypeOK, RunShape, TaskShape, Slots, Ready, Joining, Owning, Busy, Working,
           RunPoints, TaskPoints
  <2>4. BarrierExact'
    BY DEF TypeOK, BarrierExact, Busy, RunShape, TaskShape, Joining, Ready, Slots
  <2>5. LockShape'
    BY DEF TypeOK, LockShape, TaskShape, RunShape, Joining, Busy, Working, Critical,
           MutualExclusion, Slots
  <2>6. MutualExclusion'
    BY DEF TypeOK, MutualExclusion, LockShape, Critical, TaskShape, Busy, Joining
  <2>7. CounterBalanced'
    BY DEF TypeOK, CounterBalanced, Raised, TaskShape, Busy, Joining, LockShape, Critical
  <2> QED BY <2>1, <2>2, <2>3, <2>4, <2>5, <2>6, <2>7
<1>16. ASSUME CollectWaitTime
      PROVE  IInv'
  <2> USE <1>16 DEF CollectWaitTime
  <2>1. TypeOK'
    <3>1. run_i \in Slots
      BY DEF TypeOK, Slots
    <3>3. args[run_i] \in Nat
      BY <3>1 DEF RunShape, Owning
    <3>2. total_wait_time' \in Nat /\ run_i' \in 0 .. ctx.num_threads
      BY <3>1, <3>3 DEF TypeOK, Slots
    <3> QED BY <3>2 DEF TypeOK, Slots
  <2>2. RunShape'
    BY DEF TypeOK, RunShape, TaskShape, Slots, Ready, Joining, Owning, Busy, Working
  <2>3. TaskShape'
    BY DEF TypeOK, RunShape, TaskShape, Slots, Ready, Joining, Owning, Busy, Working,
           RunPoints, TaskPoints
  <2>4. BarrierExact'
    BY DEF TypeOK, BarrierExact, Busy, RunShape, TaskShape, Joining, Ready, Slots
  <2>5. LockShape'
    BY DEF TypeOK, LockShape, TaskShape, RunShape, Joining, Busy, Working, Critical,
           MutualExclusion, Slots
  <2>6. MutualExclusion'
    BY DEF TypeOK, MutualExclusion, LockShape, Critical, TaskShape, Busy, Joining
  <2>7. CounterBalanced'
    BY DEF TypeOK, CounterBalanced, Raised, TaskShape, Busy, Joining, LockShape, Critical
  <2> QED BY <2>1, <2>2, <2>3, <2>4, <2>5, <2>6, <2>7
<1>17. ASSUME AllCollected
      PROVE  IInv'
  <2> USE <1>17 DEF AllCollected
  <2>1. TypeOK'
    BY DEF TypeOK, RunPoints, TaskPoints, Slots
  <2>2. RunShape'
    BY DEF TypeOK, RunShape, TaskShape, Slots, Ready, Joining, Owning, Busy, Working
  <2>3. TaskShape'
    BY DEF TypeOK, RunShape, TaskShape, Slots, Ready, Joining, Owning, Busy, Working,
           RunPoints, TaskPoints
  <2>4. BarrierExact'
    BY DEF TypeOK, BarrierExact, Busy, RunShape, TaskShape, Joining, Ready, Slots
  <2>5. LockShape'
    BY DEF TypeOK, LockShape, TaskShape, RunShape, Joining, Busy, Working, Critical,
           MutualExclusion, Slots
  <2>6. MutualExclusion'
    BY DEF TypeOK, MutualExclusion, LockShape, Critical, TaskShape, Busy, Joining
  <2>7. CounterBalanced'
    BY DEF TypeOK, CounterBalanced, Raised, TaskShape, Busy, Joining, LockShape, Critical
  <2> QED BY <2>1, <2>2, <2>3, <2>4, <2>5, <2>6, <2>7
<1>18. ASSUME FreeMem
      PROVE  IInv'
  <2> USE <1>18 DEF FreeMem
  <2>1. TypeOK'
    BY DEF TypeOK, RunPoints, TaskPoints, Slots
  <2>2. RunShape'
    BY DEF TypeOK, RunShape, TaskShape, Slots, Ready, Joining, Owning, Busy, Working
  <2>3. TaskShape'
    BY DEF TypeOK, RunShape, TaskShape, Slots, Ready, Joining, Owning, Busy, Working,
           RunPoints, TaskPoints
  <2>4. BarrierExact'
    BY DEF TypeOK, BarrierExact, Busy, RunShape, TaskShape, Joining, Ready, Slots
  <2>5. LockShape'
    BY DEF TypeOK, LockShape, TaskShape, RunShape, Joining, Busy, Working, Critical,
           MutualExclusion, Slots
  <2>6. MutualExclusion'
    BY DEF TypeOK, MutualExclusion, LockShape, Critical, TaskShape, Busy, Joining
  <2>7. CounterBalanced'
    BY DEF TypeOK, CounterBalanced, Raised, TaskShape, Busy, Joining, LockShape, Critical
  <2> QED BY <2>1, <2>2, <2>3, <2>4, <2>5, <2>6, <2>7
<1>19. ASSUME NEW t \in Tasks, WorkerStart(t)
      PROVE  IInv'
  <2> USE <1>19 DEF WorkerStart
  <2>a. /\ run_pc \in Joining /\ slot[t] \in Slots /\ threads[slot[t]] = t
        /\ threads \in [Slots -> Tasks \union {None}] /\ args \in [Slots -> Nat]
    BY DEF TaskShape, RunShape, Busy, Working, Owning, Joining
  <2>b. Busy' = Busy /\ Raised' = Raised
    BY DEF Busy, Raised, TypeOK
  <2>1. TypeOK'
    <3>1. args' \in [Slots -> Nat] /\ iter' \in [Tasks -> 0 .. MaxIterations]
      BY <2>a DEF Slots, TypeOK
    <3>2. pc' \in [Tasks -> TaskPoints]
      BY DEF TypeOK, TaskPoints
    <3> QED BY <3>1, <3>2 DEF TypeOK, Slots
  <2>2. RunShape'
    BY <2>a DEF RunShape, TypeOK, Joining, Slots, Ready, Owning
  <2>3. TaskShape'
    BY DEF TypeOK, RunShape, TaskShape, Slots, Ready, Joining, Owning, Busy, Working,
           RunPoints, TaskPoints
  <2>4. BarrierExact'
    BY <2>b DEF BarrierExact
  <2>5. LockShape'
    BY DEF TypeOK, LockShape, TaskShape, RunShape, Joining, Busy, Working, Critical,
           MutualExclusion, Slots
  <2>6. MutualExclusion'
    BY DEF TypeOK, MutualExclusion, LockShape, Critical, TaskShape, Busy, Joining
  <2>7. CounterBalanced'
    BY <2>b DEF CounterBalanced
  <2> QED BY <2>1, <2>2, <2>3, <2>4, <2>5, <2>6, <2>7
<1>20. ASSUME NEW t \in Tasks, SyncLock(t)
      PROVE  IInv'
  <2> USE <1>20 DEF SyncLock
  <2>a. /\ run_pc \in Joining /\ slot[t] \in Slots /\ threads[slot[t]] = t
        /\ threads \in [Slots -> Tasks \union {None}] /\ args \in [Slots -> Nat]
    BY DEF TaskShape, RunShape, Busy, Working, Owning, Joining
  <2>b. Busy' = Busy /\ Raised' = Raised /\ Working' = Working
    BY DEF Busy, Raised, Working, TypeOK
  <2>1. TypeOK'
    <3>1. seen' \in [Tasks -> Sights]
      BY DEF TypeOK, Sights
    <3>2. units' \in [LockTypes -> {0, 1}]
      BY DEF TypeOK
    <3>3. pc' \in [Tasks -> TaskPoints]
      BY DEF TypeOK, TaskPoints
    <3> QED BY <3>1, <3>2, <3>3 DEF TypeOK, Slots
  <2>2. RunShape'
    BY DEF TypeOK, RunShape, TaskShape, Slots, Ready, Joining, Owning, Busy, Working
  <2>3. TaskShape'
    <3>1. \A u \in Tasks : pc'[u] = "created" <=> pc[u] = "created"
      BY DEF TypeOK
    <3>2. Slots' = Slots /\ UNCHANGED <<slot, threads, run_pc, run_i>>
      BY DEF Slots
    <3> HIDE DEF SyncLock
    <3> QED BY <2>b, <3>1, <3>2 DEF TaskShape
  <2>4. BarrierExact'
    BY <2>b DEF BarrierExact
  <2>5. LockShape'
    BY DEF TypeOK, LockShape, TaskShape, RunShape, Joining, Busy, Working, Critical,
           MutualExclusion, Slots
  <2>6. MutualExclusion'
    BY DEF TypeOK, MutualExclusion, LockShape, Critical, TaskShape, Busy, Joining
  <2>7. CounterBalanced'
    BY <2>b DEF CounterBalanced
  <2> QED BY <2>1, <2>2, <2>3, <2>4, <2>5, <2>6, <2>7
<1>21. ASSUME NEW t \in Tasks, Increment(t)
      PROVE  IInv'
  <2> USE <1>21 DEF Increment, UpdateShared, SyncUnlock, NothingSeen
  <2>a. /\ run_pc \in Joining /\ slot[t] \in Slots /\ threads[slot[t]] = t
        /\ threads \in [Slots -> Tasks \union {None}] /\ args \in [Slots -> Nat]
    BY DEF TaskShape, RunShape, Busy, Working, Owning, Joining
  <2>b. Busy' = Busy /\ Raised' = Raised \union {t} /\ t \notin Raised
    BY DEF Busy, Raised, TypeOK
  <2>c. args' \in [Slots -> Nat]
    BY <2>a
  <2>1. TypeOK'
    <3>1. seen[t] \in Sights /\ ctx.lock_type \in LockTypes
      BY DEF TypeOK
    <3>2. shared_counter' \in Int /\ contention_count' \in Nat /\ seen' \in [Tasks -> Sights]
      BY <3>1 DEF TypeOK, Sights
    <3>3. units' \in [LockTypes -> {0, 1}]
      BY <3>1 DEF TypeOK, LockShape, Critical
    <3>4. iter' \in [Tasks -> 0 .. MaxIterations]
      BY DEF TypeOK
    <3>5. pc' \in [Tasks -> TaskPoints]
      BY DEF TypeOK, TaskPoints
    <3> QED BY <2>c, <3>5, <3>2, <3>3, <3>4 DEF TypeOK, Slots
  <2>2. RunShape'
    BY <2>a, <2>c DEF RunShape, TypeOK, Slots, Joining, Ready
  <2>3. TaskShape'
    BY <2>a DEF TaskShape, TypeOK, Busy, Working, Slots
  <2>4. BarrierExact'
    BY <2>b DEF BarrierExact
  <2>5. LockShape'
    <3>1. t \in Critical /\ Critical' = Critical \ {t} /\ ctx' = ctx
      BY DEF Critical, TypeOK
    <3>2. Critical' = {}
      BY <3>1 DEF MutualExclusion
    <3>3. \A u \in Tasks : iter'[u] = iter[u] /\ (u # t => pc'[u] = pc[u])
      BY DEF TypeOK
    <3> QED
      BY <3>1, <3>2, <3>3 DEF LockShape
  <2>6. MutualExclusion'
    BY DEF TypeOK, MutualExclusion, LockShape, Critical, TaskShape, Busy, Joining
  <2>7. CounterBalanced'
    <3>1. seen[t].counter = shared_counter
      BY DEF LockShape, Critical
    <3>2. Cardinality(Raised') = Cardinality(Raised) + 1 /\ Cardinality(Raised) \in Nat
      BY <2>b, TaskCount DEF Raised
    <3> QED BY <3>1, <3>2 DEF CounterBalanced
  <2> QED BY <2>1, <2>2, <2>3, <2>4, <2>5, <2>6, <2>7
<1>22. ASSUME NEW t \in Tasks, Decrement(t)
      PROVE  IInv'
  <2> USE <1>22 DEF Decrement, UpdateShared, SyncUnlock, NothingSeen
  <2>a. /\ run_pc \in Joining /\ slot[t] \in Slots /\ threads[slot[t]] = t
        /\ threads \in [Slots -> Tasks \union {None}] /\ args \in [Slots -> Nat]
    BY DEF TaskShape, RunShape, Busy, Working, Owning, Joining
  <2>b. Busy' = Busy /\ Raised' = Raised \ {t} /\ t \in Raised
    BY DEF Busy, Raised, TypeOK
  <2>c. args' \in [Slots -> Nat]
    BY <2>a
  <2>1. TypeOK'
    <3>1. seen[t] \in Sights /\ ctx.lock_type \in LockTypes
      BY DEF TypeOK
    <3>2. shared_counter' \in Int /\ contention_count' \in Nat /\ seen' \in [Tasks -> Sights]
      BY <3>1 DEF TypeOK, Sights
    <3>3. units' \in [LockTypes -> {0, 1}]
      BY <3>1 DEF TypeOK, LockShape, Critical
    <3>4. iter' \in [Tasks -> 0 .. MaxIterations]
      BY DEF TypeOK, LockShape
    <3>5. pc' \in [Tasks -> TaskPoints]
      BY DEF TypeOK, TaskPoints
    <3> QED BY <2>c, <3>5, <3>2, <3>3, <3>4 DEF TypeOK, Slots
  <2>2. RunShape'
    BY <2>a, <2>c DEF RunShape, TypeOK, Slots, Joining, Ready
  <2>3. TaskShape'
    BY <2>a DEF TaskShape, TypeOK, Busy, Working, Slots
  <2>4. BarrierExact'
    BY <2>b DEF BarrierExact
  <2>5. LockShape'
    <3>1. \A u \in Tasks : u \in Critical' => u = t
      BY DEF MutualExclusion, Critical, TypeOK
    <3>2. t \notin Critical'
      BY DEF Critical, TypeOK
    <3>3. \A u \in Tasks : pc'[u] \in {"lock_inc", "inc", "lock_dec", "dec"} => iter'[u] < ctx.iterations
      BY DEF LockShape, TypeOK
    <3> QED BY <3>1, <3>2, <3>3 DEF LockShape
  <2>6. MutualExclusion'
    BY DEF TypeOK, MutualExclusion, LockShape, Critical, TaskShape, Busy, Joining
  <2>7. CounterBalanced'
    <3>1. seen[t].counter = shared_counter
      BY DEF LockShape, Critical
    <3>2. Cardinality(Raised') = Cardinality(Raised) - 1 /\ Cardinality(Raised) \in Nat
      BY <2>b, TaskCount DEF Raised
    <3> QED BY <3>1, <3>2 DEF CounterBalanced
  <2> QED BY <2>1, <2>2, <2>3, <2>4, <2>5, <2>6, <2>7
<1>23. ASSUME NEW t \in Tasks, ReportDone(t)
      PROVE  IInv'
  <2> USE <1>23 DEF ReportDone
  <2>a. /\ run_pc \in Joining /\ slot[t] \in Slots /\ threads[slot[t]] = t
        /\ threads \in [Slots -> Tasks \union {None}] /\ args \in [Slots -> Nat]
    BY DEF TaskShape, RunShape, Busy, Working, Owning, Joining
  <2>b. Busy' = Busy \ {t} /\ t \in Busy /\ Raised' = Raised
    BY DEF Busy, Raised, TypeOK
  <2>c. threads_done + 1 \in 0 .. ctx.num_threads
    <3>1. Cardinality(Busy) >= 1 /\ Cardinality(Busy) \in Nat
      BY <2>b, TaskCount DEF Busy
    <3> QED
      BY <2>a, <3>1 DEF BarrierExact, TypeOK, Joining
  <2>1. TypeOK'
    <3>1. threads_done + 1 \in 0 .. MaxThreads
      BY <2>c DEF TypeOK
    <3>3. pc' \in [Tasks -> TaskPoints]
      BY DEF TypeOK, TaskPoints
    <3> QED BY <3>1, <3>3 DEF TypeOK, Slots
  <2>2. RunShape'
    BY <2>c DEF TypeOK, RunShape, TaskShape, Slots, Ready, Joining, Owning, Busy, Working
  <2>3. TaskShape'
    BY DEF TypeOK, RunShape, TaskShape, Slots, Ready, Joining, Owning, Busy, Working,
           RunPoints, TaskPoints
  <2>4. BarrierExact'
    <3>1. Cardinality(Busy') = Cardinality(Busy) - 1 /\ Cardinality(Busy) \in Nat
      BY <2>b, TaskCount DEF Busy
    <3> QED BY <3>1 DEF BarrierExact, TypeOK
  <2>5. LockShape'
    BY DEF TypeOK, LockShape, TaskShape, RunShape, Joining, Busy, Working, Critical,
           MutualExclusion, Slots
  <2>6. MutualExclusion'
    BY DEF TypeOK, MutualExclusion, LockShape, Critical, TaskShape, Busy, Joining
  <2>7. CounterBalanced'
    BY <2>b DEF CounterBalanced
  <2> QED BY <2>1, <2>2, <2>3, <2>4, <2>5, <2>6, <2>7
<1>24. ASSUME NEW t \in Tasks, WakeUp(t)
      PROVE  IInv'
  <2> USE <1>24 DEF WakeUp
  <2>b. Busy' = Busy /\ Raised' = Raised /\ t \notin Working
    BY DEF Busy, Raised, Working, TypeOK
  <2>1. TypeOK'
    <3>1. pc' \in [Tasks -> TaskPoints] /\ slot' \in [Tasks -> 0 .. MaxThreads - 1] /\ iter' \in [Tasks -> 0 .. MaxIterations]
      BY DEF TypeOK, TaskPoints
    <3>2. queued' \in BOOLEAN /\ awake' \in BOOLEAN
      BY DEF TypeOK
    <3> QED BY <3>1, <3>2 DEF TypeOK, Slots
  <2>2. RunShape'
    BY DEF TypeOK, RunShape, TaskShape, Slots, Ready, Joining, Owning, Busy, Working
  <2>3. TaskShape'
    BY DEF TypeOK, RunShape, TaskShape, Slots, Ready, Joining, Owning, Busy, Working,
           RunPoints, TaskPoints
  <2>4. BarrierExact'
    BY <2>b DEF BarrierExact
  <2>5. LockShape'
    BY DEF TypeOK, LockShape, TaskShape, RunShape, Joining, Busy, Working, Critical,
           MutualExclusion, Slots
  <2>6. MutualExclusion'
    BY DEF TypeOK, MutualExclusion, LockShape, Critical, TaskShape, Busy, Joining
  <2>7. CounterBalanced'
    BY <2>b DEF CounterBalanced
  <2> QED BY <2>1, <2>2, <2>3, <2>4, <2>5, <2>6, <2>7
<1>25. ASSUME UNCHANGED vars
      PROVE  IInv'
  <2> USE <1>25 DEF vars, ctxVars, memVars, waitVars, runVars, taskVars
  <2>1. TypeOK'
    BY DEF TypeOK, Slots
  <2>2. RunShape'
    BY DEF RunShape, Slots, Ready
  <2>3. TaskShape'
    BY DEF TaskShape, Busy, Working, Slots
  <2>4. BarrierExact' /\ MutualExclusion' /\ CounterBalanced'
    BY DEF BarrierExact, MutualExclusion, CounterBalanced, Busy, Critical, Raised
  <2>5. LockShape'
    BY DEF LockShape, Critical
  <2> QED BY <2>1, <2>2, <2>3, <2>4, <2>5
<1> QED
  BY <1>0, <1>1, <1>2, <1>3, <1>4, <1>5, <1>6, <1>7, <1>8, <1>9, <1>10, <1>11, <1>12, <1>13,
       <1>14, <1>15, <1>16, <1>17, <1>18, <1>19, <1>20, <1>21, <1>22, <1>23, <1>24, <1>25,
       <1>26, <1>27 DEF Next, RunStep, WorkerStep

\* The initial state satisfies it.
LEMMA Initially ==
  ASSUME Init
  PROVE  IInv
<1> USE SyncAssumption DEF Init
<1>1. TypeOK
  <2>1. ctx \in [num_threads : 0 .. MaxThreads, iterations : 0 .. MaxIterations, lock_type : LockTypes]
    BY DEF LockTypes, SPINLOCK
  <2>2. units \in [LockTypes -> {0, 1}] /\ pc \in [Tasks -> TaskPoints] /\ run_pc \in RunPoints
    BY DEF TaskPoints, RunPoints, Preparing
  <2>3. slot \in [Tasks -> 0 .. MaxThreads - 1] /\ iter \in [Tasks -> 0 .. MaxIterations]
    OBVIOUS
  <2>4. seen \in [Tasks -> Sights]
    BY DEF Sights, NothingSeen
  <2>5. /\ shared_counter \in Int /\ contention_count \in Nat /\ total_wait_time \in Nat
        /\ threads_done \in 0 .. MaxThreads /\ run_i \in 0 .. ctx.num_threads
    OBVIOUS
  <2>6. threads = None /\ args = None /\ queued \in BOOLEAN /\ awake \in BOOLEAN /\ run_rc \in {"ok", "error"}
    OBVIOUS
  <2> HIDE DEF Init
  <2> QED
    BY <2>1, <2>2, <2>3, <2>4, <2>5, <2>6 DEF TypeOK
<1>2. RunShape /\ TaskShape /\ BarrierExact
  BY DEF RunShape, TaskShape, BarrierExact, Busy, Working, Joining, Owning, Preparing
<1>3. LockShape /\ MutualExclusion
  BY DEF LockShape, MutualExclusion, Critical
<1>4. Raised = {}
  BY DEF Raised
<1>5. CounterBalanced
  BY <1>4, FS_EmptySet DEF CounterBalanced
<1> QED
  BY <1>1, <1>2, <1>3, <1>5 DEF IInv

LEMMA Invariance == Spec => []IInv
<1> QED
  BY Initially, Induction, PTL DEF Spec

\* The variables of the test keep their types: threads_done never exceeds the
\* number of threads, and no lock is released twice.
THEOREM TypeCorrect == Spec => []TypeOK
<1>1. IInv => TypeOK
  BY DEF IInv
<1> QED
  BY <1>1, Invariance, PTL

\* At most one worker is between sync_lock and sync_unlock.
THEOREM ExclusionCorrect == Spec => []MutualExclusion
<1>1. IInv => MutualExclusion
  BY DEF IInv
<1> QED
  BY <1>1, Invariance, PTL

\* Every thread of a run is not launched, at work or counted: exactly one.
THEOREM BarrierCorrect == Spec => []BarrierExact
<1>1. IInv => BarrierExact
  BY DEF IInv
<1> QED
  BY <1>1, Invariance, PTL

\* shared_counter is the number of workers between their ++ and their --.
THEOREM CounterCorrect == Spec => []CounterBalanced
<1>1. IInv => CounterBalanced
  BY DEF IInv
<1> QED
  BY <1>1, Invariance, PTL

\* The arrays of a run outlive every kthread that can use them.
THEOREM ArgsCorrect == Spec => []ArgsOutliveWorkers
<1>1. IInv => ArgsOutliveWorkers
  <2> SUFFICES ASSUME IInv, NEW t \in Working
               PROVE  /\ args \in [Slots -> Nat] /\ threads \in [Slots -> Tasks \union {None}]
                      /\ slot[t] \in Slots /\ threads[slot[t]] = t
    BY DEF ArgsOutliveWorkers
  <2>1. t \in Tasks /\ (pc[t] = "created" \/ t \in Busy)
    BY DEF IInv, Working, Busy, TypeOK, TaskPoints
  <2>2. run_pc \in Owning /\ slot[t] \in Slots /\ threads[slot[t]] = t
    BY <2>1 DEF IInv, TaskShape, Joining, Owning
  <2> QED
    BY <2>2 DEF IInv, RunShape
<1> QED
  BY <1>1, Invariance, PTL

\* A returned run leaves no kthread behind that is not about to exit.
THEOREM NoneLeftCorrect == Spec => []NoKthreadLeft
<1>1. IInv => NoKthreadLeft
  BY DEF IInv, NoKthreadLeft, TaskShape, Joining, Busy, TypeOK, TaskPoints
<1> QED
  BY <1>1, Invariance, PTL

-----------------------------------------------------------------------------
(***************************************************************************)
(* The statistics.  Every slow wait that is counted and not yet added up   *)
(* is a pair: the entry of args that holds it, and its number there.  No   *)
(* sum is needed: contention_count is what total_wait_time has already,    *)
(* and one for each such pair.                                             *)
(***************************************************************************)
Left == IF run_pc = "collect" THEN run_i .. ctx.num_threads - 1 ELSE Slots
Waits == IF run_pc \in Owning THEN {w \in Left \X Nat : w[2] < args[w[1]]} ELSE {}

\* A worker that has recorded nothing has a zero entry, and the one inside the
\* lock has seen the current contention_count.
EntryShape ==
  /\ run_pc \in {"create", "stop"} => \A i \in Slots : args[i] = 0
  /\ \A t \in Tasks : pc[t] \in {"created", "start"} => args[slot[t]] = 0
  /\ \A t \in Critical : seen[t].contention = contention_count

WaitsCounted == IsFiniteSet(Waits) /\ contention_count = total_wait_time + Cardinality(Waits)

\* A worker at work has an entry of its own.
LEMMA OwnEntry ==
  ASSUME IInv, NEW t \in Working, NEW u \in Working, t # u
  PROVE  /\ run_pc \in Owning /\ slot[t] \in Slots /\ slot[u] # slot[t]
         /\ args \in [Slots -> Nat]
<1>1. t \in Tasks /\ (pc[t] = "created" \/ t \in Busy)
  BY DEF IInv, Working, Busy, TypeOK, TaskPoints
<1>2. run_pc \in Owning /\ slot[t] \in Slots /\ threads[slot[t]] = t /\ threads[slot[u]] = u
  BY <1>1 DEF IInv, TaskShape, Joining, Owning, Working
<1> QED
  BY <1>2 DEF IInv, RunShape

\* No kthread of a run that is not joining has an entry, but one that is created.
LEMMA NoEntry ==
  ASSUME IInv, run_pc \notin Joining
  PROVE  /\ Critical = {} /\ \A t \in Tasks : pc[t] # "start"
         /\ run_pc \notin {"create", "stop"} => \A t \in Tasks : pc[t] # "created"
BY NoneAtWork DEF IInv, TaskShape, Joining, Busy

\* The steps before the first allocation: the parameters, the statistics, the
\* join and the lock are set up, and no kthread notices.
Preparation == CopyParams \/ StartRun \/ InitJoin \/ InitLock

LEMMA PreparationShape ==
  ASSUME Preparation
  PROVE  /\ run_pc \in Preparing /\ run_pc' \in Preparing \union {"alloc"} /\ UNCHANGED <<args, taskVars, awake>>
         /\ run_pc = "idle" \/ (run_pc' # "idle" /\ UNCHANGED <<ctx, run_i, ctxVars>>)
         /\ UNCHANGED ctxVars \/ (contention_count' = 0 /\ total_wait_time' = 0)
BY DEF Preparation, CopyParams, Configure, StartRun, BeginRun, ClearStats, InitJoin, InitLock, Preparing,
       ctxVars, memVars, waitVars, runVars, taskVars

LEMMA EntryInduction ==
  ASSUME IInv, EntryShape, [Next]_vars
  PROVE  EntryShape'
<1> USE DEF ctxVars, memVars, waitVars, runVars, taskVars
<1>1. ASSUME Preparation
      PROVE  EntryShape'
  BY <1>1, NoEntry, PreparationShape DEF EntryShape, Critical, Joining, Preparing
<1>2. ASSUME ResetStats \/ AllocateFails \/ AllStopped \/ CollectWaitTime \/ AllCollected \/ FreeMem
      PROVE  EntryShape'
  <2>1. run_pc \notin Joining /\ run_pc' \notin {"create"} /\ pc' = pc
        /\ (run_pc' = "stop" => FALSE)
    BY <1>2 DEF ResetStats, ClearRun, AllocateFails, AllStopped, CollectWaitTime, AllCollected, FreeMem, Joining
  <2>2. \A t \in Tasks : pc[t] # "start" /\ pc[t] \notin {"inc", "dec"}
    BY <2>1, NoEntry DEF Critical
  <2>3. \A t \in Tasks : pc[t] = "created" => args'[slot'[t]] = 0
    BY <1>2, NoEntry DEF EntryShape, ResetStats, ClearRun, AllocateFails, AllStopped, CollectWaitTime,
       AllCollected, FreeMem, Joining
  <2> QED
    BY <2>1, <2>2, <2>3 DEF EntryShape, Critical
<1>3. ASSUME Allocate
      PROVE  EntryShape'
  BY <1>3, NoEntry DEF Allocate, EntryShape, Critical, Joining, Slots
<1>4. ASSUME NEW t \in Tasks, CreateThread(t)
      PROVE  EntryShape'
  <2>1. /\ run_i \in Slots /\ run_pc' = "create" /\ args' = args /\ ctx' = ctx
        /\ pc' = [pc EXCEPT ![t] = "created"] /\ slot' = [slot EXCEPT ![t] = run_i]
    BY <1>4 DEF CreateThread, IInv, TypeOK, Slots
  <2>2. pc \in [Tasks -> TaskPoints] /\ slot \in [Tasks -> 0 .. MaxThreads - 1]
    BY DEF IInv, TypeOK
  <2>3. \A i \in Slots' : args'[i] = 0
    BY <1>4, <2>1 DEF EntryShape, CreateThread, Slots
  <2>4. \A u \in Tasks : pc'[u] \in {"created", "start"} => args'[slot'[u]] = 0
    BY <2>1, <2>2, <2>3 DEF EntryShape, Slots
  <2>5. Critical' = {}
    BY <1>4, <2>1, <2>2, NoEntry DEF CreateThread, Critical, Joining
  <2> QED
    BY <2>1, <2>3, <2>4, <2>5 DEF EntryShape
<1>5. ASSUME CreateFails \/ AllCreated \/ AllLaunched \/ WaitTest \/ PrepareToWait \/ Retest \/ Awaken
      PROVE  EntryShape'
  <2>1. UNCHANGED <<ctx, args, pc, slot, seen, contention_count>>
    BY <1>5 DEF CreateFails, AllCreated, AllLaunched, WaitTest, PrepareToWait, Retest, Awaken
  <2>2. run_pc' # "create" /\ (run_pc' = "stop" => run_pc = "create")
    BY <1>5 DEF CreateFails, AllCreated, AllLaunched, WaitTest, PrepareToWait, Retest, Awaken
  <2> QED
    BY <2>1, <2>2 DEF EntryShape, Critical, Slots
<1>6. ASSUME StopCreated \/ LaunchThread
      PROVE  EntryShape'
  <2>1. UNCHANGED <<ctx, args, slot, seen, contention_count, run_pc>>
    BY <1>6 DEF StopCreated, LaunchThread
  <2>2. \E u \in Tasks \union {None} :
          /\ u \in Tasks => pc[u] = "created"
          /\ \/ pc' = pc
             \/ pc' = [pc EXCEPT ![u] = "unused"]
             \/ pc' = [pc EXCEPT ![u] = "start"]
    <3>1. run_i \in Slots /\ (threads[run_i] \in Tasks => pc[threads[run_i]] = "created")
          /\ threads[run_i] \in Tasks \union {None}
      <4>1. /\ run_pc \in {"stop", "launch"} /\ run_i \in Slots
            /\ threads \in [Slots -> Tasks \union {None}]
        BY <1>6 DEF StopCreated, LaunchThread, IInv, RunShape, TypeOK, Slots, Owning, Joining
      <4>2. threads[run_i] = None \/ Ready(run_i)
        BY <4>1 DEF IInv, RunShape, TypeOK
      <4> QED
        BY <4>1, <4>2, SyncAssumption DEF Ready
    <3>2. \/ pc' = pc
          \/ pc' = [pc EXCEPT ![threads[run_i]] = "unused"]
          \/ pc' = [pc EXCEPT ![threads[run_i]] = "start"]
      BY <1>6 DEF StopCreated, LaunchThread
    <3> QED
      BY <3>1, <3>2
  <2>3. \A t \in Tasks : /\ pc'[t] \in {"created", "start"} => pc[t] \in {"created", "start"}
                         /\ pc'[t] \in {"inc", "dec"} => pc[t] \in {"inc", "dec"}
    BY <2>2 DEF IInv, TypeOK
  <2> QED
    BY <2>1, <2>3 DEF EntryShape, Critical, Slots
<1>7. ASSUME NEW t \in Tasks, WorkerStep(t)
      PROVE  EntryShape'
  <2> USE <1>7
  <2>1. pc \in [Tasks -> TaskPoints] /\ slot \in [Tasks -> 0 .. MaxThreads - 1] /\ seen \in [Tasks -> Sights]
    BY DEF IInv, TypeOK
  <2>2. /\ pc'[t] \notin {"created", "start"} /\ ctx' = ctx /\ run_pc' = run_pc
        /\ \A u \in Tasks \ {t} : pc'[u] = pc[u] /\ slot'[u] = slot[u] /\ seen'[u] = seen[u]
    BY <2>1 DEF WorkerStep, WorkerStart, SyncLock, Increment, Decrement, UpdateShared, ReportDone, WakeUp
  <2>3. CASE WakeUp(t)
    BY <2>1, <2>2, <2>3 DEF WakeUp, EntryShape, Critical, Slots
  <2>4. CASE ~ WakeUp(t)
    <3>1. t \in Working /\ t \in Busy /\ run_pc \in Joining
      BY <2>4 DEF WorkerStep, WorkerStart, SyncLock, Increment, Decrement, ReportDone, Working, Busy, IInv, TaskShape
    <3>2. slot[t] \in Slots /\ args \in [Slots -> Nat]
      BY <3>1 DEF IInv, TaskShape, RunShape, Owning
    <3>3. \A i \in Slots : args'[i] = args[i] \/ i = slot[t]
      BY <2>4, <3>2 DEF WorkerStep, WorkerStart, SyncLock, Increment, Decrement, UpdateShared, ReportDone
    <3>4. ASSUME NEW u \in Tasks, pc'[u] \in {"created", "start"}
          PROVE  args'[slot'[u]] = 0
      <4>1. u # t /\ pc[u] = pc'[u] /\ slot'[u] = slot[u] /\ u \in Working
        BY <2>2, <3>4 DEF Working
      <4>2. slot[u] # slot[t] /\ slot[u] \in Slots
        BY <3>1, <4>1, OwnEntry
      <4> QED
        BY <3>3, <3>4, <4>1, <4>2 DEF EntryShape
    <3>5. ASSUME NEW u \in Critical'
          PROVE  seen'[u].contention = contention_count'
      <4>1. CASE SyncLock(t)
        BY <2>1, <2>2, <3>5, <4>1 DEF SyncLock, EntryShape, Critical
      <4>2. CASE Increment(t) \/ Decrement(t)
        <5>1. Critical' = Critical \ {t} /\ t \in Critical
          BY <2>1, <4>2 DEF Increment, Decrement, Critical
        <5> QED
          BY <3>5, <5>1 DEF IInv, MutualExclusion
      <4>3. CASE WorkerStart(t) \/ ReportDone(t)
        BY <2>1, <2>2, <3>5, <4>3 DEF WorkerStart, ReportDone, EntryShape, Critical
      <4> QED
        BY <2>4, <4>1, <4>2, <4>3 DEF WorkerStep
    <3>6. run_pc' \notin {"create", "stop"}
      BY <2>2, <3>1 DEF Joining
    <3> QED
      BY <3>4, <3>5, <3>6 DEF EntryShape
  <2> QED
    BY <2>3, <2>4
<1>8. ASSUME UNCHANGED vars
      PROVE  EntryShape'
  BY <1>8 DEF vars, EntryShape, Critical, Slots
<1> QED
  BY <1>1, <1>2, <1>3, <1>4, <1>5, <1>6, <1>7, <1>8 DEF Next, RunStep, Preparation

\* k pairs with the same first part.
LEMMA Column ==
  ASSUME NEW a, NEW k \in Nat
  PROVE  IsFiniteSet({a} \X (0 .. k - 1)) /\ Cardinality({a} \X (0 .. k - 1)) = k
<1>1. IsFiniteSet(0 .. k - 1) /\ Cardinality(0 .. k - 1) = k
  <2> DEFINE last == k - 1
  <2>1. 0 \in Int /\ last \in Int
    OBVIOUS
  <2> HIDE DEF last
  <2>2. IsFiniteSet(0 .. last) /\ Cardinality(0 .. last) = IF 0 > last THEN 0 ELSE last - 0 + 1
    BY <2>1, FS_Interval
  <2> QED
    BY <2>2 DEF last
<1> DEFINE row == 0 .. k - 1
<1>2. IsFiniteSet({a}) /\ Cardinality({a}) = 1
  BY FS_Singleton
<1> HIDE DEF row
<1>3. IsFiniteSet(row) /\ Cardinality(row) = k
  BY <1>1 DEF row
<1>4. IsFiniteSet({a} \X row) /\ Cardinality({a} \X row) = 1 * k
  BY <1>2, <1>3, FS_Product
<1> QED
  BY <1>4 DEF row

\* The entries that are added up next are no longer left, and the total has them.
LEMMA CollectCounts ==
  ASSUME IInv, WaitsCounted, CollectWaitTime
  PROVE  WaitsCounted'
<1> DEFINE added == {run_i} \X (0 .. args[run_i] - 1)
<1>1. /\ run_pc = "collect" /\ run_pc' = "collect" /\ run_i \in Slots /\ run_i' = run_i + 1
      /\ args \in [Slots -> Nat] /\ UNCHANGED <<ctx, args, contention_count>>
      /\ total_wait_time' = total_wait_time + args[run_i]
      /\ ctx.num_threads \in Nat /\ total_wait_time \in Nat /\ args[run_i] \in Nat
  <2>1. /\ run_pc = "collect" /\ run_pc' = "collect" /\ run_i \in Slots /\ run_i' = run_i + 1
        /\ UNCHANGED <<ctx, args, contention_count>>
        /\ total_wait_time' = total_wait_time + args[run_i]
        /\ ctx.num_threads \in Nat /\ total_wait_time \in Nat
    BY DEF CollectWaitTime, IInv, TypeOK, Slots, memVars
  <2>2. args \in [Slots -> Nat]
    BY <2>1 DEF IInv, RunShape, Owning
  <2> QED
    BY <2>1, <2>2
<1>2. Waits' = Waits \ added /\ added \subseteq Waits
  <2>1. Waits = {w \in (run_i .. ctx.num_threads - 1) \X Nat : w[2] < args[w[1]]}
    BY <1>1 DEF Waits, Left, Owning
  <2>2. Waits' = {w \in (run_i + 1 .. ctx.num_threads - 1) \X Nat : w[2] < args[w[1]]}
    BY <1>1 DEF Waits, Left, Owning
  <2>3. \A w \in Waits : w \in Waits' <=> w \notin added
    BY <1>1, <2>1, <2>2 DEF Slots
  <2>4. Waits' \subseteq Waits
    BY <1>1, <2>1, <2>2 DEF Slots
  <2>5. added \subseteq Waits
    BY <1>1, <2>1 DEF Slots
  <2> QED
    BY <2>3, <2>4, <2>5
<1>3. Cardinality(added) = args[run_i] /\ IsFiniteSet(added)
  BY <1>1, Column
<1> HIDE DEF added
<1>4. IsFiniteSet(Waits') /\ Cardinality(Waits') = Cardinality(Waits) - args[run_i]
  <2>1. IsFiniteSet(Waits) /\ Waits \cap added = added
    BY <1>2 DEF WaitsCounted
  <2>2. /\ IsFiniteSet(Waits \ added)
        /\ Cardinality(Waits \ added) = Cardinality(Waits) - Cardinality(Waits \cap added)
    BY <2>1, FS_Difference
  <2> QED
    BY <1>2, <1>3, <2>1, <2>2
<1>5. Cardinality(Waits) \in Nat
  BY FS_CardinalityType DEF WaitsCounted
<1> QED
  BY <1>1, <1>4, <1>5 DEF WaitsCounted

\* A slow wait is one more in the count and one more in the worker's entry.
LEMMA UpdateCounts ==
  ASSUME IInv, EntryShape, WaitsCounted, NEW t \in Tasks, Increment(t) \/ Decrement(t)
  PROVE  WaitsCounted'
<1>1. /\ t \in Critical /\ t \in Working /\ t \in Busy
      /\ UNCHANGED <<ctx, total_wait_time, run_pc, run_i>>
  BY DEF Increment, Decrement, UpdateShared, Critical, Working, Busy, runVars
<1>2. /\ run_pc \in Owning /\ run_pc # "collect" /\ slot[t] \in Slots /\ args \in [Slots -> Nat]
      /\ seen[t].contention = contention_count /\ contention_count \in Nat /\ total_wait_time \in Nat
  BY <1>1 DEF IInv, TaskShape, RunShape, Owning, Joining, EntryShape, TypeOK
<1>3. Waits = {w \in Slots \X Nat : w[2] < args[w[1]]}
      /\ Waits' = {w \in Slots \X Nat : w[2] < args'[w[1]]}
  BY <1>1, <1>2 DEF Waits, Left, Slots
<1>4. CASE ~ seen[t].slow
  BY <1>1, <1>3, <1>4 DEF Increment, Decrement, UpdateShared, WaitsCounted
<1>5. CASE seen[t].slow
  <2>1. contention_count' = contention_count + 1 /\ args' = [args EXCEPT ![slot[t]] = @ + 1]
    BY <1>2, <1>5 DEF Increment, Decrement, UpdateShared
  <2>2. Waits' = Waits \union {<<slot[t], args[slot[t]]>>} /\ <<slot[t], args[slot[t]]>> \notin Waits
    BY <1>2, <1>3, <2>1
  <2>3. IsFiniteSet(Waits') /\ Cardinality(Waits') = Cardinality(Waits) + 1
    BY <2>2, FS_AddElement DEF WaitsCounted
  <2>4. Cardinality(Waits) \in Nat
    BY FS_CardinalityType DEF WaitsCounted
  <2> QED
    BY <1>1, <1>2, <2>1, <2>3, <2>4 DEF WaitsCounted
<1> QED
  BY <1>4, <1>5

\* The other steps leave the waits alone, or begin and end where there are none.
LEMMA OthersCount ==
  ASSUME IInv, EntryShape, WaitsCounted, [Next]_vars, ~ CollectWaitTime,
         \A t \in Tasks : ~ Increment(t) /\ ~ Decrement(t)
  PROVE  WaitsCounted'
<1> USE DEF ctxVars, memVars, waitVars, runVars, taskVars
<1>1. ASSUME Preparation \/ ResetStats
      PROVE  WaitsCounted'
  <2>1. Waits = {} /\ Waits' = {}
    BY <1>1, PreparationShape DEF ResetStats, ClearRun, Waits, Owning, Joining, Preparing
  <2>2. UNCHANGED ctxVars \/ (contention_count' = 0 /\ total_wait_time' = 0)
    BY <1>1, PreparationShape DEF ResetStats, ClearRun, ClearStats
  <2> QED
    BY <2>1, <2>2, FS_EmptySet DEF WaitsCounted
<1>2. ASSUME Allocate \/ AllocateFails \/ AllStopped \/ AllCollected \/ FreeMem
      PROVE  WaitsCounted'
  <2>1. UNCHANGED <<ctx, contention_count, total_wait_time>>
    BY <1>2 DEF Allocate, AllocateFails, AllStopped, AllCollected, FreeMem
  <2>2. Waits = {} /\ Waits' = {}
    <3>1. CASE Allocate
      BY <3>1 DEF Allocate, Waits, Owning, Joining, Left, Slots
    <3>2. CASE AllocateFails \/ FreeMem
      BY <3>2 DEF AllocateFails, FreeMem, Waits, Owning, Joining
    <3>3. CASE AllStopped
      BY <3>3 DEF AllStopped, Waits, Left, Owning, Joining, EntryShape
    <3>4. CASE AllCollected
      BY <3>4 DEF AllCollected, Waits, Left, Owning, Joining, IInv, TypeOK
    <3> QED
      BY <1>2, <3>1, <3>2, <3>3, <3>4
  <2> QED
    BY <2>1, <2>2 DEF WaitsCounted
<1>3. ASSUME UNCHANGED <<ctx, args, contention_count, total_wait_time>>,
             run_pc' = run_pc \/ (run_pc \in Owning \ {"collect"} /\ run_pc' \in Owning),
             run_pc = "collect" => run_pc' = "collect" /\ run_i' = run_i,
             run_pc' = "collect" /\ run_pc # "collect" => run_i' = 0
      PROVE  WaitsCounted'
  <2>1. (run_pc \in Owning <=> run_pc' \in Owning) /\ Left' = Left
    BY <1>3 DEF Left, Slots
  <2>2. Waits' = Waits
    BY <1>3, <2>1 DEF Waits
  <2> QED
    BY <1>3, <2>2 DEF WaitsCounted
<1>4. ASSUME NEW t \in Tasks, CreateThread(t)
      PROVE  WaitsCounted'
  BY <1>3, <1>4 DEF CreateThread
<1>5. ASSUME CreateFails \/ AllCreated \/ StopCreated \/ LaunchThread \/ AllLaunched \/ WaitTest
             \/ PrepareToWait \/ Retest \/ Awaken
      PROVE  WaitsCounted'
  BY <1>3, <1>5 DEF CreateFails, AllCreated, StopCreated, LaunchThread, AllLaunched, WaitTest,
     PrepareToWait, Retest, Awaken, Owning, Joining
<1>6. ASSUME NEW t \in Tasks, WorkerStart(t)
      PROVE  WaitsCounted'
  <2>1. pc[t] = "start" /\ t \in Busy
    BY <1>6 DEF WorkerStart, Busy
  <2>2. run_pc \in Owning /\ args \in [Slots -> Nat]
    BY <2>1 DEF IInv, TaskShape, RunShape, Owning
  <2>3. args' = args
    BY <1>6, <2>1, <2>2 DEF WorkerStart, EntryShape
  <2> QED
    BY <1>3, <1>6, <2>3 DEF WorkerStart
<1>7. ASSUME NEW t \in Tasks, SyncLock(t) \/ ReportDone(t) \/ WakeUp(t)
      PROVE  WaitsCounted'
  <2>1. UNCHANGED <<ctx, args, contention_count, total_wait_time, run_pc, run_i>>
    BY <1>7 DEF SyncLock, ReportDone, WakeUp
  <2> QED
    BY <1>3, <2>1
<1>8. ASSUME UNCHANGED vars
      PROVE  WaitsCounted'
  BY <1>3, <1>8 DEF vars
<1> QED
  BY <1>1, <1>2, <1>4, <1>5, <1>6, <1>7, <1>8 DEF Next, RunStep, WorkerStep, Preparation

StatsInv == EntryShape /\ WaitsCounted

LEMMA StatsInvariance == Spec => []StatsInv
<1>1. Init => StatsInv
  <2> SUFFICES ASSUME Init PROVE StatsInv
    OBVIOUS
  <2>1. EntryShape
    BY DEF Init, EntryShape, Critical
  <2>2. Waits = {}
    BY DEF Init, Waits, Owning, Joining
  <2> QED
    BY <2>1, <2>2, FS_EmptySet DEF StatsInv, WaitsCounted, Init
<1>2. IInv /\ StatsInv /\ [Next]_vars => StatsInv'
  BY EntryInduction, CollectCounts, UpdateCounts, OthersCount DEF StatsInv
<1> QED
  BY <1>1, <1>2, Invariance, PTL DEF Spec

\* When no run is in progress the total wait time has every counted wait, and
\* nothing else.
THEOREM StatsCorrect == Spec => []StatsAgree
<1>1. StatsInv /\ IInv => StatsAgree
  <2> SUFFICES ASSUME StatsInv, IInv, run_pc = "idle"
               PROVE  total_wait_time = contention_count
    BY DEF StatsAgree
  <2>1. Waits = {}
    BY DEF Waits, Owning, Joining
  <2> QED
    BY <2>1, FS_EmptySet DEF StatsInv, WaitsCounted, IInv, TypeOK
<1> QED
  BY <1>1, StatsInvariance, Invariance, PTL

-----------------------------------------------------------------------------
\* The counter never exceeds the number of threads that have not finished.
CounterBounded ==
  /\ shared_counter \in Nat /\ (run_pc \notin Preparing => ctx.num_threads - threads_done \in Nat)
  /\ run_pc \in Joining \union {"collect"} =>
       /\ Cardinality(Busy) \in Nat /\ shared_counter <= Cardinality(Busy)
       /\ Cardinality(Busy) <= ctx.num_threads - threads_done

LEMMA CounterBelowLeft == IInv => CounterBounded
<1> SUFFICES ASSUME IInv PROVE CounterBounded
  OBVIOUS
<1>1. Raised \in SUBSET Busy /\ Raised \in SUBSET Tasks /\ Busy \in SUBSET Tasks
  BY DEF Raised, Busy
<1>2. IsFiniteSet(Busy) /\ Cardinality(Raised) <= Cardinality(Busy)
  BY <1>1, SyncAssumption, FS_Subset
<1>3. Cardinality(Raised) \in Nat /\ Cardinality(Busy) \in Nat
  BY <1>1, <1>2, SyncAssumption, FS_Subset, FS_CardinalityType
<1> QED
  BY <1>2, <1>3 DEF CounterBounded, IInv, TypeOK, RunShape, CounterBalanced, BarrierExact, Joining, Preparing

\* A step of run_test or of a worker is a step of TestRun, or changes nothing
\* that TestRun shows.
LEMMA StepKeepsPromise ==
  ASSUME IInv, IInv', [Next]_vars
  PROVE  [Promise!Next]_(Promise!vars)
<1> USE DEF Promise!vars, Preparing, vars, ctxVars, memVars, waitVars, runVars, taskVars
<1> DEFINE S == UNCHANGED Promise!vars
<1>13. CounterBounded /\ CounterBounded'
  <2>1. IInv' => CounterBounded'
    BY CounterBelowLeft, PTL
  <2> QED
    BY <2>1, CounterBelowLeft
<1>0. ASSUME CopyParams PROVE S
  BY <1>0 DEF CopyParams, Configure
<1>1. ASSUME StartRun PROVE Promise!Begin
  BY <1>1 DEF StartRun, BeginRun, ClearStats, Promise!Begin, IInv, TypeOK
<1>14. ASSUME InitJoin \/ InitLock PROVE S
  BY <1>14 DEF InitJoin, InitLock, IInv, RunShape, TypeOK
<1>2. ASSUME ResetStats PROVE S
  BY <1>2, NoneAtWork DEF ResetStats, ClearRun, ClearStats, IInv, Joining
<1>3. ASSUME Allocate \/ AllCollected \/ AllStopped \/ StopCreated PROVE S
  BY <1>3 DEF Allocate, AllCollected, AllStopped, StopCreated, IInv, RunShape, Joining
<1>4. ASSUME AllocateFails \/ CreateFails PROVE Promise!Fail
  BY <1>4 DEF AllocateFails, CreateFails, Promise!Fail, IInv, RunShape, Joining
<1>5. ASSUME NEW t \in Tasks, CreateThread(t) PROVE S
  BY <1>5 DEF CreateThread
<1>6. ASSUME AllCreated PROVE Promise!Launch
  BY <1>6 DEF AllCreated, Promise!Launch, IInv, RunShape, Joining
<1>7. ASSUME LaunchThread \/ AllLaunched \/ WaitTest \/ PrepareToWait \/ Retest \/ Awaken
             \/ CollectWaitTime
      PROVE  S
  BY <1>7 DEF LaunchThread, AllLaunched, WaitTest, PrepareToWait, Retest, Awaken, CollectWaitTime,
              IInv, RunShape, Joining
<1>8. ASSUME FreeMem PROVE Promise!Return
  BY <1>8 DEF FreeMem, Promise!Return, IInv, RunShape, TypeOK
<1>9. ASSUME NEW t \in Tasks, WorkerStart(t) \/ SyncLock(t) \/ WakeUp(t) PROVE S
  BY <1>9 DEF WorkerStart, SyncLock, WakeUp
<1>10. ASSUME NEW t \in Tasks, Increment(t) \/ Decrement(t) PROVE Promise!Work
  <2>1. /\ run_pc \in Joining /\ run_rc = "ok" /\ seen[t].counter = shared_counter
        /\ UNCHANGED <<ctx, threads_done, run_pc, run_rc>>
    BY <1>10 DEF Increment, Decrement, UpdateShared, IInv, TaskShape, LockShape, Busy, Critical,
                 RunShape
  <2>2. shared_counter' \in {shared_counter + 1, shared_counter - 1}
    BY <1>10, <1>13, <2>1 DEF CounterBounded, Increment, Decrement, UpdateShared
  <2>3. shared_counter' \in 0 .. ctx.num_threads - threads_done
    BY <1>13, <2>1 DEF CounterBounded, IInv, TypeOK
  <2> QED
    BY <2>1, <2>2, <2>3 DEF Promise!Work, Joining
<1>11. ASSUME NEW t \in Tasks, ReportDone(t) PROVE Promise!Finish
  <2>1. /\ run_pc \in Joining /\ run_rc = "ok" /\ threads_done' = threads_done + 1
        /\ UNCHANGED <<ctx, run_pc, run_rc, shared_counter>>
    BY <1>11 DEF ReportDone, IInv, TaskShape, Busy, RunShape
  <2>2. shared_counter' <= ctx.num_threads - (threads_done + 1)
    BY <1>13, <2>1 DEF CounterBounded, IInv, TypeOK
  <2> QED
    BY <1>13, <2>1, <2>2 DEF CounterBounded, Promise!Finish, Joining, IInv, TypeOK
<1>12. ASSUME UNCHANGED vars PROVE S
  BY <1>12
<1> QED
  BY <1>0, <1>1, <1>2, <1>3, <1>4, <1>5, <1>6, <1>7, <1>8, <1>9, <1>10, <1>11, <1>12, <1>14
  DEF Next, RunStep, WorkerStep, Promise!Next

\* run_test implements TestRun: it reports success only after each of its
\* threads has finished and with the counter at 0, and fails only before any ran.
THEOREM PromiseKept == Spec => KeepsPromise
<1>1. Init => Promise!Init
  BY DEF Init, Promise!Init, Preparing
<1>2. IInv /\ IInv' /\ [Next]_vars => [Promise!Next]_(Promise!vars)
  BY StepKeepsPromise
<1> QED
  BY <1>1, <1>2, Invariance, PTL DEF Spec, KeepsPromise, Promise!Spec

-----------------------------------------------------------------------------
(***************************************************************************)
(* A run returns (RunReturns): what the provers can show of it.  Before it *)
(* has returned, run_test or a kthread can take a step (NeverStuck), and   *)
(* each such step leaves fewer to take (EveryStepCounts).  As the          *)
(* scheduler runs what can run, only finitely many steps are left before   *)
(* the return.                                                             *)
(***************************************************************************)

\* run_test can take a step: it is not asleep.
CanRun == run_pc # "idle" /\ (run_pc = "sleep" => awake)

\* A kthread can take a step: it was launched, and waits for no taken lock.
CanWork(t) ==
  /\ pc[t] \notin {"unused", "created"}
  /\ pc[t] \in {"lock_inc", "lock_dec"} => units[ctx.lock_type] > 0

NeverStuck == run_pc # "idle" => CanRun \/ \E t \in Tasks : CanWork(t)

\* A caller that sleeps is on the wait queue, and when every thread was counted
\* one of them has yet to call wake_up.
NoLostWakeUp ==
  run_pc = "sleep" /\ ~awake => queued /\ (Joined => \E t \in Tasks : pc[t] = "wake")

\* A taken lock has a holder.
LockHeld == run_pc \notin Preparing /\ units[ctx.lock_type] = 0 => Critical # {}

WaitShape ==
  /\ run_pc \in {"retest", "sleep"} /\ ~awake => queued
  /\ NoLostWakeUp
  /\ LockHeld

LEMMA WaitInduction ==
  ASSUME IInv, IInv', WaitShape, [Next]_vars
  PROVE  WaitShape'
<1> USE DEF WaitShape, NoLostWakeUp, Joined, LockHeld, Preparing, vars, ctxVars, memVars, waitVars, runVars, taskVars
<1>0. TypeOK /\ pc \in [Tasks -> TaskPoints] /\ units \in [LockTypes -> {0, 1}]
  BY DEF IInv, TypeOK
<1>1. ASSUME Preparation PROVE WaitShape'
  <2>1. run_pc' = "alloc" => InitLock
    BY <1>1 DEF Preparation, CopyParams, Configure, StartRun, BeginRun, InitJoin
  <2>2. InitLock => units'[ctx'.lock_type] = 1
    BY <1>0 DEF InitLock, InitialUnits, TypeOK
  <2> QED
    BY <1>1, <2>1, <2>2, PreparationShape
<1>2. ASSUME ResetStats PROVE WaitShape'
  BY <1>2 DEF ResetStats, ClearRun
<1>3. ASSUME \/ Allocate \/ AllocateFails \/ CreateFails \/ AllCreated \/ AllStopped \/ AllLaunched
             \/ WaitTest \/ PrepareToWait \/ Retest \/ Awaken \/ CollectWaitTime \/ AllCollected \/ FreeMem
      PROVE  WaitShape'
  <2>1. UNCHANGED <<ctx, units, pc>> /\ run_pc \notin Preparing
    BY <1>3 DEF Allocate, AllocateFails, CreateFails, AllCreated, AllStopped, AllLaunched, WaitTest,
                PrepareToWait, Retest, Awaken, CollectWaitTime, AllCollected, FreeMem
  <2>2. LockHeld'
    BY <2>1 DEF Critical
  <2>3. (run_pc' \in {"retest", "sleep"} /\ ~awake' => queued') /\ NoLostWakeUp'
    BY <1>3 DEF Allocate, AllocateFails, CreateFails, AllCreated, AllStopped, AllLaunched, WaitTest,
                PrepareToWait, Retest, Awaken, CollectWaitTime, AllCollected, FreeMem
  <2> QED
    BY <2>2, <2>3
<1>4. ASSUME (\E t \in Tasks : CreateThread(t)) \/ StopCreated \/ LaunchThread PROVE WaitShape'
  <2>1. /\ run_pc' \in {"create", "stop", "launch"} /\ run_pc \notin Preparing /\ UNCHANGED <<ctx, units>>
        /\ Critical' = Critical
    <3>1. CASE \E t \in Tasks : CreateThread(t)
      BY <1>0, <3>1 DEF CreateThread, Critical
    <3>2. CASE StopCreated
      BY <1>0, <3>2 DEF StopCreated, Critical, IInv, RunShape, Ready, Slots, TypeOK
    <3>3. CASE LaunchThread
      BY <1>0, <3>3 DEF LaunchThread, Critical, IInv, RunShape, Ready, Slots, TypeOK
    <3> QED
      BY <1>4, <3>1, <3>2, <3>3
  <2> QED
    BY <2>1
<1>5. ASSUME NEW t \in Tasks, WorkerStart(t) \/ ReportDone(t) PROVE WaitShape'
  <2>1. /\ UNCHANGED <<ctx, units, run_pc, waitVars>> /\ t \notin Critical /\ pc[t] # "wake"
        /\ pc' \in [Tasks -> TaskPoints] /\ pc'[t] \in {"lock_inc", "wake"}
        /\ \A u \in Tasks \ {t} : pc'[u] = pc[u]
        /\ threads_done' = threads_done \/ pc'[t] = "wake"
    BY <1>0, <1>5 DEF WorkerStart, ReportDone, Critical, TaskPoints
  <2>2. Critical' = Critical
    BY <2>1 DEF Critical
  <2> QED
    BY <2>1, <2>2
<1>6. ASSUME NEW t \in Tasks, SyncLock(t) PROVE WaitShape'
  <2>1. /\ UNCHANGED <<ctx, run_pc, threads_done, waitVars>> /\ pc[t] # "wake"
        /\ pc'[t] \in {"inc", "dec"} /\ \A u \in Tasks \ {t} : pc'[u] = pc[u]
    BY <1>0, <1>6 DEF SyncLock
  <2> QED
    BY <2>1 DEF Critical
<1>7. ASSUME NEW t \in Tasks, Increment(t) \/ Decrement(t) PROVE WaitShape'
  <2>1. /\ UNCHANGED <<ctx, run_pc, threads_done, waitVars>> /\ pc[t] # "wake"
        /\ \A u \in Tasks \ {t} : pc'[u] = pc[u]
    BY <1>0, <1>7 DEF Increment, Decrement, UpdateShared
  <2>2. t \in Critical /\ units[ctx.lock_type] = 0 /\ ctx.lock_type \in LockTypes
    BY <1>7 DEF Increment, Decrement, Critical, IInv, LockShape, TypeOK
  <2>3. units'[ctx.lock_type] = 1
    BY <1>0, <1>7, <2>2 DEF Increment, Decrement, UpdateShared, SyncUnlock
  <2> QED
    BY <2>1, <2>3
<1>8. ASSUME NEW t \in Tasks, WakeUp(t) PROVE WaitShape'
  <2>1. /\ UNCHANGED <<ctx, units, run_pc, threads_done>> /\ pc[t] = "wake" /\ pc'[t] = "unused"
        /\ \A u \in Tasks \ {t} : pc'[u] = pc[u]
    BY <1>0, <1>8 DEF WakeUp
  <2>2. Critical' = Critical
    BY <2>1 DEF Critical
  <2>3. IF queued THEN queued' = FALSE /\ awake' = TRUE ELSE UNCHANGED waitVars
    BY <1>8 DEF WakeUp
  <2>4. CASE queued
    BY <2>1, <2>2, <2>3, <2>4
  <2>5. CASE ~queued
    BY <2>1, <2>2, <2>3, <2>5
  <2> QED
    BY <2>4, <2>5
<1>9. ASSUME UNCHANGED vars PROVE WaitShape'
  BY <1>9 DEF Critical
<1> QED
  BY <1>1, <1>2, <1>3, <1>4, <1>5, <1>6, <1>7, <1>8, <1>9 DEF Next, RunStep, WorkerStep, Preparation

LEMMA WaitInvariance == Spec => []WaitShape
<1>1. Init => WaitShape
  BY DEF Init, WaitShape, NoLostWakeUp, LockHeld, Preparing
<1>2. IInv /\ IInv' /\ WaitShape /\ [Next]_vars => WaitShape'
  BY WaitInduction
<1> QED
  BY <1>1, <1>2, Invariance, PTL DEF Spec

\* No wake-up is lost: a caller that sleeps will be woken by a thread that is
\* still at work, or is about to call wake_up (worker.c:34-35, 117).
THEOREM WakeUpKept == Spec => []NoLostWakeUp
<1>1. WaitShape => NoLostWakeUp
  BY DEF WaitShape
<1> QED
  BY <1>1, WaitInvariance, PTL

\* No run gets stuck: as long as it has not returned, run_test is awake, or some
\* kthread can go on; a kthread waits for no lock that nobody holds
\* (worker.c:15-31, 117).
THEOREM NotStuck == Spec => []NeverStuck
<1>1. IInv /\ WaitShape => NeverStuck
  <2> SUFFICES ASSUME IInv, WaitShape, run_pc # "idle", ~ CanRun, \A t \in Tasks : ~ CanWork(t)
               PROVE  FALSE
    BY DEF NeverStuck
  <2>1. run_pc = "sleep" /\ ~awake
    BY DEF CanRun
  <2>2. \A t \in Tasks : pc[t] # "wake" /\ t \notin Critical
    BY DEF CanWork, Critical
  <2>3. ~ Joined /\ Critical = {}
    BY <2>1, <2>2 DEF WaitShape, NoLostWakeUp, Critical
  <2>4. units[ctx.lock_type] > 0
    <3>1. units[ctx.lock_type] \in {0, 1}
      BY DEF IInv, TypeOK
    <3> QED
      BY <2>1, <2>3, <3>1 DEF WaitShape, LockHeld, Preparing
  <2>5. Busy = {}
    BY <2>4 DEF Busy, CanWork
  <2> QED
    BY <2>1, <2>3, <2>5, FS_EmptySet DEF IInv, BarrierExact, Joined, TypeOK
<1> QED
  BY <1>1, Invariance, WaitInvariance, PTL

-----------------------------------------------------------------------------
(***************************************************************************)
(* The steps that are left.  A kthread has StepsOf(t) of its own, those of *)
(* all kthreads are counted as pairs of a kthread and a number, and        *)
(* run_test has at most StepsOfRun.  A call of wake_up counts for four: it *)
(* may send the caller once more through prepare, retest and sleep.        *)
(***************************************************************************)
StepsOf(t) ==
  LET rest == 4 * (ctx.iterations - iter[t])
  IN  CASE pc[t] = "start" -> 4 * ctx.iterations + 6
        [] pc[t] = "lock_inc" -> rest + 5
        [] pc[t] = "inc" -> rest + 4
        [] pc[t] = "lock_dec" -> rest + 3
        [] pc[t] = "dec" -> rest + 2
        [] pc[t] = "report" -> 5
        [] pc[t] = "wake" -> 4
        [] OTHER -> 0

MostSteps == 4 * MaxIterations + 6
Ahead(steps) == {s \in Tasks \X Nat : s[2] < steps[s[1]]}
StepsOfTasks == Cardinality(Ahead([t \in Tasks |-> StepsOf(t)]))

\* Each thread that is not launched yet counts with its steps, and its launch.
EachThread == 4 * ctx.iterations + 7
StepsOfLaunch == (ctx.num_threads - run_i) * EachThread
StepsOfAll == ctx.num_threads * EachThread

StepsOfRun ==
  LET n == ctx.num_threads
      toGo == n - run_i
  IN  CASE run_pc = "init" -> StepsOfAll + 2 * n + 11
        [] run_pc = "init_lock" -> StepsOfAll + 2 * n + 10
        [] run_pc = "alloc" -> StepsOfAll + 2 * n + 9
        [] run_pc = "create" -> StepsOfAll + toGo + n + 8
        [] run_pc = "stop" -> toGo + 2
        [] run_pc = "launch" -> StepsOfLaunch + n + 7
        [] run_pc = "wait" -> n + 6
        [] run_pc = "prepare" -> n + 5
        [] run_pc = "retest" -> IF awake THEN n + 7 ELSE n + 4
        [] run_pc = "sleep" -> IF awake THEN n + 6 ELSE n + 3
        [] run_pc = "collect" -> toGo + 2
        [] run_pc = "free" -> 1
        [] OTHER -> 0

StepsLeft == StepsOfRun + StepsOfTasks

\* When the steps of one kthread change, so does their number.
LEMMA OneMoves ==
  ASSUME NEW v \in [Tasks -> 0 .. MostSteps], NEW w \in [Tasks -> 0 .. MostSteps], NEW t \in Tasks,
         \A u \in Tasks \ {t} : w[u] = v[u]
  PROVE  /\ IsFiniteSet(Ahead(v)) /\ Cardinality(Ahead(v)) \in Nat /\ Cardinality(Ahead(w)) \in Nat
         /\ Cardinality(Ahead(w)) = Cardinality(Ahead(v)) - v[t] + w[t]
<1> USE SyncAssumption
<1> DEFINE others == {s \in Ahead(v) : s[1] # t}
           own(k) == {t} \X (0 .. k - 1)
<1>0. MostSteps \in Nat /\ v[t] \in 0 .. MostSteps /\ w[t] \in 0 .. MostSteps
  BY DEF MostSteps
<1>1. IsFiniteSet(others)
  <2>1. IsFiniteSet(Tasks \X (0 .. MostSteps))
    <3>1. 0 \in Int /\ MostSteps \in Int
      BY <1>0
    <3>2. IsFiniteSet(0 .. MostSteps)
      BY <3>1, FS_Interval
    <3> QED
      BY <3>2, FS_Product
  <2>2. others \subseteq Tasks \X (0 .. MostSteps)
    BY <1>0 DEF Ahead
  <2> HIDE DEF others
  <2> QED
    BY <2>1, <2>2, FS_Subset
<1>2. ASSUME NEW k \in Nat PROVE IsFiniteSet(own(k)) /\ Cardinality(own(k)) = k
  BY Column
<1>3. Ahead(v) = others \union own(v[t]) /\ Ahead(w) = others \union own(w[t])
  BY <1>0 DEF Ahead
<1>4. \A k \in Nat : others \cap own(k) = {}
  OBVIOUS
<1>5. ASSUME NEW k \in Nat
      PROVE  /\ IsFiniteSet(others \union own(k))
             /\ Cardinality(others \union own(k)) = Cardinality(others) + k
  <2>1. IsFiniteSet(own(k)) /\ Cardinality(own(k)) = k
    BY <1>2
  <2>2. others \cap own(k) = {}
    BY <1>4
  <2> HIDE DEF others, own
  <2>3. Cardinality(others) \in Nat /\ Cardinality(others \cap own(k)) = 0
    BY <1>1, <2>2, FS_EmptySet, FS_CardinalityType
  <2>4. /\ IsFiniteSet(others \union own(k))
        /\ Cardinality(others \union own(k))
             = Cardinality(others) + Cardinality(own(k)) - Cardinality(others \cap own(k))
    BY <1>1, <2>1, FS_Union
  <2> QED
    BY <2>1, <2>3, <2>4
<1>6. Cardinality(others) \in Nat
  BY <1>1, FS_CardinalityType
<1> HIDE DEF others, own
<1>7. IsFiniteSet(Ahead(v)) /\ Cardinality(Ahead(v)) = Cardinality(others) + v[t]
  BY <1>0, <1>3, <1>5
<1>8. Cardinality(Ahead(w)) = Cardinality(others) + w[t]
  BY <1>0, <1>3, <1>5
<1> QED
  BY <1>0, <1>6, <1>7, <1>8

StepsBounded ==
  /\ [t \in Tasks |-> StepsOf(t)] \in [Tasks -> 0 .. MostSteps]
  /\ StepsOfTasks \in Nat /\ StepsOfRun \in Nat /\ EachThread \in Nat

LEMMA StepsTyped == IInv => StepsBounded
<1> USE SyncAssumption DEF IInv
<1> SUFFICES ASSUME IInv PROVE StepsBounded
  OBVIOUS
<1>1. ASSUME NEW t \in Tasks PROVE StepsOf(t) \in 0 .. MostSteps
  <2>1. /\ ctx.iterations \in 0 .. MaxIterations /\ iter[t] \in 0 .. MaxIterations
        /\ pc[t] \in {"lock_inc", "inc", "lock_dec", "dec"} => iter[t] < ctx.iterations
    BY DEF TypeOK, LockShape
  <2> QED
    BY <2>1 DEF StepsOf, MostSteps
<1>2. [t \in Tasks |-> StepsOf(t)] \in [Tasks -> 0 .. MostSteps]
  BY <1>1
<1>3. StepsOfTasks \in Nat
  <2>1. ASSUME NEW t \in Tasks PROVE StepsOfTasks \in Nat
    BY <1>2, OneMoves DEF StepsOfTasks
  <2>2. CASE Tasks = {}
    BY <2>2, FS_EmptySet DEF StepsOfTasks, Ahead
  <2> QED
    BY <2>1, <2>2
<1>4. StepsOfRun \in Nat /\ EachThread \in Nat
  <2>1. /\ ctx.num_threads \in Nat /\ run_i \in Nat /\ ctx.num_threads - run_i \in Nat
        /\ EachThread \in Nat
    BY DEF TypeOK, EachThread
  <2>2. StepsOfAll \in Nat /\ StepsOfLaunch \in Nat
    <3>1. \A a, b \in Nat : a * b \in Nat
      OBVIOUS
    <3> QED
      BY <2>1, <3>1 DEF StepsOfAll, StepsOfLaunch
  <2> QED
    BY <2>1, <2>2 DEF StepsOfRun
<1> QED
  BY <1>2, <1>3, <1>4 DEF StepsBounded

\* A step of one kthread that leaves the others alone moves the number by the
\* difference of its own.
LEMMA StepsMove ==
  ASSUME IInv, IInv', NEW t \in Tasks, ctx' = ctx, 
         \A u \in Tasks \ {t} : pc'[u] = pc[u] /\ iter'[u] = iter[u]
  PROVE  StepsOfTasks' = StepsOfTasks - StepsOf(t) + StepsOf(t)'
<1> DEFINE v == [u \in Tasks |-> StepsOf(u)]
           w == [u \in Tasks |-> StepsOf(u)']
<1>1. v \in [Tasks -> 0 .. MostSteps] /\ w \in [Tasks -> 0 .. MostSteps]
  <2>1. IInv' => StepsBounded'
    BY StepsTyped, PTL
  <2> QED
    BY <2>1, StepsTyped DEF StepsBounded, MostSteps
<1>2. \A u \in Tasks \ {t} : w[u] = v[u]
  BY DEF StepsOf
<1>3. StepsOfTasks = Cardinality(Ahead(v)) /\ StepsOfTasks' = Cardinality(Ahead(w))
  BY DEF StepsOfTasks, Ahead
<1>4. v[t] = StepsOf(t) /\ w[t] = StepsOf(t)'
  OBVIOUS
<1> HIDE DEF v, w
<1> QED
  BY <1>1, <1>2, <1>3, <1>4, OneMoves

LEMMA StepsStay ==
  ASSUME UNCHANGED <<ctx, awake, run_pc, run_i, pc, iter>>
  PROVE  StepsLeft' = StepsLeft
<1>1. StepsOfTasks' = StepsOfTasks
  BY DEF StepsOfTasks, StepsOf, Ahead
<1>2. StepsOfRun' = StepsOfRun
  BY DEF StepsOfRun, StepsOfAll, StepsOfLaunch, EachThread
<1> QED
  BY <1>1, <1>2 DEF StepsLeft

LEMMA StepsNumbers ==
  ASSUME IInv, IInv'
  PROVE  /\ StepsOfTasks \in Nat /\ StepsOfRun \in Nat
         /\ StepsOfTasks' \in Nat /\ StepsOfRun' \in Nat
<1>1. IInv' => StepsBounded'
  BY StepsTyped, PTL
<1>2. StepsBounded /\ StepsBounded'
  BY <1>1, StepsTyped
<1> QED
  BY <1>2 DEF StepsBounded

\* Each step of run_test takes one from the steps that are left, or more.
LEMMA RunStepCounts ==
  ASSUME IInv, IInv', RunStep
  PROVE  StepsLeft' < StepsLeft
<1> USE SyncAssumption DEF memVars, waitVars, runVars, taskVars
<1> DEFINE n == ctx.num_threads
<1>0. /\ StepsBounded /\ pc \in [Tasks -> TaskPoints] /\ ctx.iterations \in Nat
      /\ n \in Nat /\ run_i \in Nat /\ n - run_i \in Nat
      /\ StepsOfAll \in Nat /\ StepsOfLaunch \in Nat /\ (run_pc # "idle" => n >= 1)
  <2>1. pc \in [Tasks -> TaskPoints] /\ ctx.iterations \in Nat
    BY DEF IInv, TypeOK
  <2>2. n \in Nat /\ run_i \in Nat /\ n - run_i \in Nat
    BY DEF IInv, TypeOK
  <2>3. StepsOfAll \in Nat /\ StepsOfLaunch \in Nat
    <3>1. \A a, b \in Nat : a * b \in Nat
      OBVIOUS
    <3>2. EachThread \in Nat
      BY StepsTyped DEF StepsBounded
    <3> QED
      BY <2>2, <3>1, <3>2 DEF StepsOfAll, StepsOfLaunch
  <2> QED
    BY <2>1, <2>2, <2>3, StepsTyped DEF IInv, RunShape
<1>1. ASSUME StepsOfTasks' = StepsOfTasks, StepsOfRun' < StepsOfRun
      PROVE  StepsLeft' < StepsLeft
  BY <1>1, StepsNumbers DEF StepsLeft
<1>2. ASSUME UNCHANGED <<ctx, pc, iter>>
      PROVE  StepsOfTasks' = StepsOfTasks /\ StepsOfAll' = StepsOfAll
  BY <1>2 DEF StepsOfTasks, StepsOf, Ahead, StepsOfAll, EachThread
<1>3. ASSUME UNCHANGED <<ctx, iter>>, NEW t \in Tasks, pc' = [pc EXCEPT ![t] = pc'[t]],
             pc[t] \in {"unused", "created"}, pc'[t] \in {"unused", "created"}
      PROVE  StepsOfTasks' = StepsOfTasks /\ StepsOfAll' = StepsOfAll
  <2>1. \A u \in Tasks \ {t} : pc'[u] = pc[u] /\ iter'[u] = iter[u]
    BY <1>0, <1>3
  <2>2. StepsOf(t) = 0 /\ StepsOf(t)' = 0
    BY <1>3 DEF StepsOf
  <2>3. StepsOfTasks' = StepsOfTasks
    <3>1. StepsOfTasks' = StepsOfTasks - StepsOf(t) + StepsOf(t)'
      BY <1>3, <2>1, StepsMove
    <3> QED
      BY <2>2, <3>1, StepsNumbers
  <2> QED
    BY <1>3, <2>3 DEF StepsOfAll, EachThread
<1>4. CASE \/ InitJoin \/ InitLock \/ Allocate \/ AllocateFails \/ CreateFails \/ AllStopped \/ WaitTest \/ PrepareToWait
           \/ Retest \/ Awaken \/ CollectWaitTime \/ AllCollected \/ FreeMem
  <2>1. UNCHANGED <<ctx, pc, iter>>
    BY <1>4 DEF InitJoin, InitLock, Allocate, AllocateFails, CreateFails, AllStopped, WaitTest, PrepareToWait, Retest,
                Awaken, CollectWaitTime, AllCollected, FreeMem
  <2>2. StepsOfTasks' = StepsOfTasks /\ StepsOfAll' = StepsOfAll
    BY <1>2, <2>1
  <2>3. StepsOfRun' < StepsOfRun
    <3>0. CASE InitJoin \/ InitLock
      BY <1>0, <2>2, <3>0 DEF InitJoin, InitLock, StepsOfRun
    <3>1. CASE Allocate \/ AllocateFails
      BY <1>0, <2>2, <3>1 DEF Allocate, AllocateFails, StepsOfRun, IInv, RunShape
    <3>2. CASE CreateFails \/ AllStopped
      BY <1>0, <2>2, <3>2 DEF CreateFails, AllStopped, StepsOfRun
    <3>3. CASE WaitTest \/ PrepareToWait
      BY <1>0, <3>3 DEF WaitTest, PrepareToWait, StepsOfRun
    <3>4. CASE Retest \/ Awaken
      BY <1>0, <3>4 DEF Retest, Awaken, StepsOfRun
    <3>5. CASE CollectWaitTime \/ AllCollected \/ FreeMem
      BY <1>0, <3>5 DEF CollectWaitTime, AllCollected, FreeMem, StepsOfRun
    <3> QED
      BY <1>4, <3>0, <3>1, <3>2, <3>3, <3>4, <3>5
  <2> QED
    BY <1>1, <2>2, <2>3
<1>5. CASE \E t \in Tasks : CreateThread(t)
  <2>1. PICK t \in Tasks : CreateThread(t)
    BY <1>5
  <2>2. StepsOfTasks' = StepsOfTasks /\ StepsOfAll' = StepsOfAll
    <3>1. pc' = [pc EXCEPT ![t] = pc'[t]] /\ pc[t] = "unused" /\ pc'[t] = "created" /\ UNCHANGED <<ctx, iter>>
      BY <2>1 DEF CreateThread, IInv, TypeOK
    <3> QED
      BY <1>3, <3>1
  <2>3. StepsOfRun' < StepsOfRun
    BY <1>0, <2>1, <2>2 DEF CreateThread, StepsOfRun
  <2> QED
    BY <1>1, <2>2, <2>3
<1>6. CASE StopCreated
  <2>1. StepsOfTasks' = StepsOfTasks
    <3>1. CASE threads[run_i] = None
      BY <1>2, <1>6, <3>1 DEF StopCreated
    <3>2. CASE threads[run_i] # None
      <4>0. /\ threads[run_i] \in Tasks /\ pc[threads[run_i]] = "created"
            /\ pc' = [pc EXCEPT ![threads[run_i]] = "unused"] /\ UNCHANGED <<ctx, iter>>
        BY <1>0, <1>6, <3>2 DEF StopCreated, IInv, RunShape, Ready, Slots
      <4>1. PICK t \in Tasks : /\ pc[t] = "created" /\ pc' = [pc EXCEPT ![t] = "unused"]
                               /\ UNCHANGED <<ctx, iter>>
        BY <4>0
      <4>2. pc' = [pc EXCEPT ![t] = pc'[t]] /\ pc'[t] = "unused"
        BY <4>1 DEF IInv, TypeOK
      <4> QED
        BY <1>3, <4>1, <4>2
    <3> QED
      BY <3>1, <3>2
  <2>2. StepsOfRun' < StepsOfRun
    BY <1>0, <1>6 DEF StopCreated, StepsOfRun
  <2> QED
    BY <1>1, <2>1, <2>2
<1>7. CASE AllCreated
  <2>1. UNCHANGED <<ctx, pc, iter>> /\ run_i' = 0
    BY <1>7 DEF AllCreated
  <2>2. StepsOfTasks' = StepsOfTasks /\ StepsOfLaunch' = StepsOfAll
    BY <1>0, <1>2, <2>1 DEF StepsOfLaunch, StepsOfAll, EachThread
  <2>3. StepsOfRun' < StepsOfRun
    BY <1>0, <1>7, <2>1, <2>2 DEF AllCreated, StepsOfRun
  <2> QED
    BY <1>1, <2>2, <2>3
<1>8. CASE LaunchThread
  <2>0. /\ threads[run_i] \in Tasks /\ pc[threads[run_i]] = "created"
        /\ pc' = [pc EXCEPT ![threads[run_i]] = "start"]
        /\ UNCHANGED <<ctx, iter>> /\ run_i' = run_i + 1 /\ run_i < n
    BY <1>0, <1>8 DEF LaunchThread, IInv, RunShape, Ready, Slots
  <2>1. PICK t \in Tasks : /\ pc[t] = "created" /\ pc' = [pc EXCEPT ![t] = "start"]
                           /\ UNCHANGED <<ctx, iter>> /\ run_i' = run_i + 1 /\ run_i < n
    BY <2>0
  <2>2. pc'[t] = "start" /\ \A u \in Tasks \ {t} : pc'[u] = pc[u] /\ iter'[u] = iter[u]
    BY <2>1 DEF IInv, TypeOK
  <2>3. StepsOf(t) = 0 /\ StepsOf(t)' = EachThread - 1
    BY <1>0, <2>1, <2>2 DEF StepsOf, EachThread
  <2>4. StepsOfTasks' = StepsOfTasks - StepsOf(t) + StepsOf(t)'
    BY <2>1, <2>2, StepsMove
  <2>5. StepsOfLaunch' = StepsOfLaunch - EachThread
    <3>1. \A a, b \in Int : (a - 1) * b = a * b - b
      OBVIOUS
    <3>2. n' - run_i' = (n - run_i) - 1 /\ EachThread' = EachThread /\ EachThread \in Int
      BY <1>0, <2>1 DEF EachThread, StepsBounded
    <3> QED
      BY <1>0, <3>1, <3>2 DEF StepsOfLaunch
  <2>6. run_pc = "launch" /\ run_pc' = "launch"
    BY <1>8 DEF LaunchThread
  <2>7. StepsOfRun = StepsOfLaunch + n + 7 /\ StepsOfRun' = StepsOfLaunch' + n + 7
    BY <2>1, <2>6 DEF StepsOfRun
  <2> QED
    <3>1. EachThread \in Nat /\ StepsOfLaunch \in Nat /\ n \in Nat
      BY <1>0 DEF StepsBounded
    <3> QED
      BY <2>3, <2>4, <2>5, <2>7, <3>1, StepsNumbers DEF StepsLeft
<1>9. CASE AllLaunched
  <2>1. UNCHANGED <<ctx, pc, iter>> /\ run_pc = "launch" /\ run_pc' = "wait"
    BY <1>9 DEF AllLaunched
  <2>2. StepsOfTasks' = StepsOfTasks
    BY <1>2, <2>1
  <2>3. StepsOfRun' < StepsOfRun
    BY <1>0, <2>1 DEF StepsOfRun
  <2> QED
    BY <1>1, <2>2, <2>3
<1> QED
  BY <1>4, <1>5, <1>6, <1>7, <1>8, <1>9 DEF RunStep

\* Each step of a kthread does, the wake-up of the caller too.
LEMMA WorkerStepCounts ==
  ASSUME IInv, IInv', NEW t \in Tasks, WorkerStep(t)
  PROVE  StepsLeft' < StepsLeft
<1> USE SyncAssumption DEF ctxVars, memVars, waitVars, runVars, taskVars
<1>0. /\ StepsBounded /\ StepsBounded' /\ ctx.num_threads \in Nat
      /\ ctx.iterations \in Nat /\ iter[t] \in Nat /\ pc \in [Tasks -> TaskPoints]
  <2>1. IInv' => StepsBounded'
    BY StepsTyped, PTL
  <2> QED
    BY <2>1, StepsTyped DEF IInv, TypeOK
<1>1. /\ ctx' = ctx /\ UNCHANGED <<run_pc, run_i>>
      /\ \A u \in Tasks \ {t} : pc'[u] = pc[u] /\ iter'[u] = iter[u]
  BY <1>0 DEF WorkerStep, WorkerStart, SyncLock, Increment, Decrement, UpdateShared, ReportDone, WakeUp,
              IInv, TypeOK
<1>2. StepsOfTasks' = StepsOfTasks - StepsOf(t) + StepsOf(t)'
  BY <1>1, StepsMove
<1>3. StepsOf(t) \in Nat /\ StepsOf(t)' \in Nat
  BY <1>0 DEF StepsBounded, MostSteps
<1>4. ASSUME UNCHANGED awake, StepsOf(t)' < StepsOf(t)
      PROVE  StepsLeft' < StepsLeft
  <2>1. StepsOfRun' = StepsOfRun
    BY <1>1, <1>4 DEF StepsOfRun, StepsOfAll, StepsOfLaunch, EachThread
  <2> QED
    BY <1>0, <1>2, <1>3, <1>4, <2>1 DEF StepsBounded, StepsLeft
<1>5. CASE WorkerStart(t) \/ SyncLock(t)
  <2>1. StepsOf(t)' < StepsOf(t)
    BY <1>0, <1>1, <1>5 DEF WorkerStart, SyncLock, StepsOf, IInv, TypeOK
  <2> QED
    BY <1>4, <1>5, <2>1 DEF WorkerStart, SyncLock
<1>6. CASE Increment(t) \/ Decrement(t)
  <2>1. iter[t] < ctx.iterations
    BY <1>6 DEF Increment, Decrement, IInv, LockShape
  <2>2. StepsOf(t)' < StepsOf(t)
    BY <1>0, <1>1, <1>6, <2>1 DEF Increment, Decrement, StepsOf, IInv, TypeOK
  <2> QED
    BY <1>4, <1>6, <2>2 DEF Increment, Decrement, UpdateShared
<1>7. CASE ReportDone(t)
  <2>1. StepsOf(t)' < StepsOf(t)
    BY <1>0, <1>7 DEF ReportDone, StepsOf
  <2> QED
    BY <1>4, <1>7, <2>1 DEF ReportDone
<1>8. CASE WakeUp(t)
  <2>1. StepsOf(t) = 4 /\ StepsOf(t)' = 0
    BY <1>0, <1>8 DEF WakeUp, StepsOf
  <2>2. StepsOfRun' <= StepsOfRun + 3
    <3>1. StepsOfAll' = StepsOfAll /\ StepsOfLaunch' = StepsOfLaunch
      BY <1>1 DEF StepsOfAll, StepsOfLaunch, EachThread
    <3>2. CASE run_pc \in {"retest", "sleep"}
      BY <1>0, <1>1, <3>2 DEF StepsOfRun
    <3>3. CASE run_pc \notin {"retest", "sleep"}
      <4>1. StepsOfRun' = StepsOfRun
        BY <1>1, <3>1, <3>3 DEF StepsOfRun
      <4> QED
        BY <1>0, <4>1 DEF StepsBounded
    <3> QED
      BY <3>2, <3>3
  <2> QED
    BY <1>2, <2>1, <2>2, StepsNumbers DEF StepsLeft
<1> QED
  BY <1>5, <1>6, <1>7, <1>8 DEF WorkerStep

EveryStepCounts ==
  [][/\ RunStep \/ (\E t \in Tasks : WorkerStep(t)) => StepsLeft' < StepsLeft
     /\ ResetStats => StepsLeft' = StepsLeft]_vars

\* Every step of run_test and of the kthreads brings the return of the run
\* nearer, whatever lock is used and however often the caller is woken
\* (worker.c:9-38, 101-144).
THEOREM RunShrinks == Spec => EveryStepCounts
<1> DEFINE A == /\ RunStep \/ (\E t \in Tasks : WorkerStep(t)) => StepsLeft' < StepsLeft
                /\ ResetStats => StepsLeft' = StepsLeft
<1>1. IInv /\ IInv' /\ [Next]_vars => [A]_vars
  <2>1. ASSUME ResetStats PROVE StepsLeft' = StepsLeft
    BY <2>1, StepsStay DEF ResetStats, ClearRun, waitVars, runVars, taskVars
  <2> QED
    BY <2>1, RunStepCounts, WorkerStepCounts
<1> QED
  BY <1>1, Invariance, PTL DEF Spec, EveryStepCounts

\* The steps of a run, and those of kthreads that earlier runs left at wake_up.
StepsAtMost == MaxThreads * (4 * MaxIterations + 9) + 11 + 4 * Cardinality(Tasks)

StepsWithin == StepsLeft \in 0 .. StepsAtMost

\* So a run takes at most StepsAtMost steps before it returns.
THEOREM RunBounded == Spec => []StepsWithin
<1> USE SyncAssumption
<1>1. IsFiniteSet(Tasks) /\ Cardinality(Tasks) \in Nat
  BY FS_CardinalityType
<1>2. ASSUME IInv, run_pc \in {"idle", "init"} PROVE StepsOfTasks <= 4 * Cardinality(Tasks)
  <2>1. \A t \in Tasks : StepsOf(t) \in {0, 4}
    BY <1>2 DEF IInv, TaskShape, Joining, Busy, TypeOK, TaskPoints, StepsOf
  <2> DEFINE all == Tasks \X (0 .. 3)
  <2>2. Ahead([t \in Tasks |-> StepsOf(t)]) \subseteq all
    BY <2>1 DEF Ahead
  <2>3. IsFiniteSet(0 .. 3) /\ Cardinality(0 .. 3) = 4
    <3> DEFINE last == 3
    <3>1. 0 \in Int /\ last \in Int
      OBVIOUS
    <3> HIDE DEF last
    <3>2. IsFiniteSet(0 .. last) /\ Cardinality(0 .. last) = IF 0 > last THEN 0 ELSE last - 0 + 1
      BY <3>1, FS_Interval
    <3> QED
      BY <3>2 DEF last
  <2>4. IsFiniteSet(all) /\ Cardinality(all) = Cardinality(Tasks) * 4
    BY <1>1, <2>3, FS_Product
  <2> HIDE DEF all
  <2>5. Cardinality(Ahead([t \in Tasks |-> StepsOf(t)])) <= Cardinality(all)
    BY <2>2, <2>4, FS_Subset
  <2> QED
    BY <1>1, <2>4, <2>5 DEF StepsOfTasks
<1>3. StepsAtMost \in Nat
  <2>1. \A a, b \in Nat : a * b \in Nat
    OBVIOUS
  <2>2. MaxThreads * (4 * MaxIterations + 9) \in Nat
    BY <2>1
  <2> QED
    BY <1>1, <2>2 DEF StepsAtMost
<1>4. IInv /\ run_pc \in {"idle", "init"} => StepsLeft <= StepsAtMost
  <2> SUFFICES ASSUME IInv, run_pc \in {"idle", "init"} PROVE StepsLeft <= StepsAtMost
    OBVIOUS
  <2> DEFINE n == ctx.num_threads
  <2>1. n \in 0 .. MaxThreads /\ ctx.iterations \in 0 .. MaxIterations
    BY DEF IInv, TypeOK
  <2>2. n * (4 * ctx.iterations + 7) + 2 * n <= MaxThreads * (4 * MaxIterations + 9)
    <3>1. \A a, b, c, d \in Nat : a <= c /\ b <= d => a * b <= c * d
      <4> SUFFICES ASSUME NEW a \in Nat, NEW b \in Nat, NEW c \in Nat, NEW d \in Nat, a <= c, b <= d
                   PROVE  a * b <= c * d
        OBVIOUS
      <4>1. a * b <= a * d /\ a * d <= c * d
        OBVIOUS
      <4>2. a * b \in Int /\ a * d \in Int /\ c * d \in Int
        OBVIOUS
      <4> QED
        BY <4>1, <4>2
    <3>2. n * (4 * ctx.iterations + 7) + 2 * n = n * (4 * ctx.iterations + 9)
      BY <2>1
    <3>3. n * (4 * ctx.iterations + 9) <= MaxThreads * (4 * MaxIterations + 9)
      BY <2>1, <3>1
    <3> QED
      BY <3>2, <3>3
  <2>3. StepsOfRun \in {0, StepsOfAll + 2 * n + 11} /\ StepsOfAll = n * (4 * ctx.iterations + 7)
    BY DEF StepsOfRun, StepsOfAll, EachThread
  <2>4. StepsOfAll \in Int /\ MaxThreads * (4 * MaxIterations + 9) \in Int /\ StepsOfTasks \in Nat
    BY <2>1, <2>3, StepsTyped DEF StepsBounded
  <2>5. StepsOfTasks <= 4 * Cardinality(Tasks)
    BY <1>2
  <2> QED
    BY <1>1, <2>1, <2>2, <2>3, <2>4, <2>5 DEF StepsLeft, StepsAtMost
<1>5. IInv => StepsLeft \in Nat
  BY StepsTyped DEF StepsBounded, StepsLeft
<1>6. (IInv' => StepsLeft' \in Nat) /\ (IInv' /\ run_pc' \in {"idle", "init"} => StepsLeft' <= StepsAtMost')
  <2>1. (IInv => StepsLeft \in Nat)'
    BY <1>5, PTL
  <2>2. (IInv /\ run_pc \in {"idle", "init"} => StepsLeft <= StepsAtMost)'
    BY <1>4, PTL
  <2> QED
    BY <2>1, <2>2
<1>7. Init /\ IInv => StepsWithin
  <2> SUFFICES ASSUME Init, IInv PROVE StepsWithin
    OBVIOUS
  <2>1. StepsLeft \in Nat /\ StepsLeft <= StepsAtMost
    BY <1>4, <1>5 DEF Init
  <2> QED
    BY <1>3, <2>1 DEF StepsWithin
<1>8. IInv /\ IInv' /\ StepsWithin /\ [Next]_vars => StepsWithin'
  <2> SUFFICES ASSUME IInv, IInv', StepsWithin, [Next]_vars
               PROVE  StepsWithin'
    OBVIOUS
  <2>1. StepsLeft' \in Nat
    BY <1>6
  <2>2. ASSUME CopyParams \/ StartRun
        PROVE  StepsLeft' <= StepsAtMost
    <3>1. run_pc' \in {"idle", "init"}
      BY <2>2 DEF CopyParams, Configure, StartRun, BeginRun, runVars
    <3> QED
      BY <1>6, <3>1 DEF StepsAtMost
  <2>3. ASSUME RunStep \/ \E t \in Tasks : WorkerStep(t)
        PROVE  StepsLeft' <= StepsAtMost
    BY <1>3, <2>1, <2>3, RunStepCounts, WorkerStepCounts DEF StepsWithin
  <2>4. ASSUME ResetStats \/ UNCHANGED vars
        PROVE  StepsLeft' = StepsLeft
    BY <2>4, StepsStay DEF ResetStats, ClearRun, vars, waitVars, runVars, taskVars
  <2> QED
    BY <1>3, <2>1, <2>2, <2>3, <2>4 DEF StepsWithin, Next
<1> QED
  BY <1>7, <1>8, Initially, Invariance, PTL DEF Spec

-----------------------------------------------------------------------------
\* Once a run has cleared the counts of ctx they grow, and its parameters stay.
RunGrows ==
  [][run_pc \notin {"idle", "init"} /\ run_pc' # "idle" =>
       /\ ctx' = ctx
       /\ threads_done' >= threads_done
       /\ contention_count' >= contention_count
       /\ total_wait_time' >= total_wait_time]_vars

\* No update of contention_count or threads_done is lost, and nothing takes back
\* what a worker has counted before the run returns (worker.c:15-36, 46-49, 119-120).
THEOREM GrowsCorrect == Spec => RunGrows
<1> DEFINE A == run_pc \notin {"idle", "init"} /\ run_pc' # "idle" =>
                  /\ ctx' = ctx /\ threads_done' >= threads_done
                  /\ contention_count' >= contention_count /\ total_wait_time' >= total_wait_time
<1>1. IInv /\ StatsInv /\ [Next]_vars => [A]_vars
  <2> SUFFICES ASSUME IInv, StatsInv, Next, run_pc \notin {"idle", "init"}, run_pc' # "idle"
               PROVE  /\ ctx' = ctx /\ threads_done' >= threads_done
                      /\ contention_count' >= contention_count /\ total_wait_time' >= total_wait_time
    OBVIOUS
  <2> USE DEF ctxVars
  <2>1. threads_done \in Nat /\ contention_count \in Nat /\ total_wait_time \in Nat
    BY DEF IInv, TypeOK
  <2>2. CASE RunStep
    <3>1. CASE CollectWaitTime
      <4>1. args[run_i] \in Nat
        <5>1. run_i \in Slots
          BY <3>1 DEF CollectWaitTime, IInv, Slots, TypeOK
        <5>2. args \in [Slots -> Nat]
          BY <3>1 DEF CollectWaitTime, IInv, RunShape, Owning
        <5> QED
          BY <5>1, <5>2
      <4> QED
        BY <2>1, <3>1, <4>1 DEF CollectWaitTime
    <3>2. CASE ~ CollectWaitTime
      <4>1. UNCHANGED <<ctx, threads_done, contention_count, total_wait_time>>
        BY <2>2, <3>2 DEF RunStep, InitJoin, InitLock, Allocate, AllocateFails, CreateThread, CreateFails, AllCreated,
           StopCreated, AllStopped, LaunchThread, AllLaunched, WaitTest, PrepareToWait, Retest, Awaken,
           AllCollected, FreeMem
      <4> QED
        BY <2>1, <4>1
    <3> QED
      BY <3>1, <3>2
  <2>3. ASSUME NEW t \in Tasks, Increment(t) \/ Decrement(t)
        PROVE  /\ ctx' = ctx /\ threads_done' = threads_done /\ total_wait_time' = total_wait_time
               /\ contention_count' \in {contention_count, contention_count + 1}
    <3>1. seen[t].contention = contention_count
      BY <2>3 DEF Increment, Decrement, Critical, StatsInv, EntryShape
    <3> QED
      BY <2>3, <3>1 DEF Increment, Decrement, UpdateShared
  <2>4. ASSUME NEW t \in Tasks, WorkerStart(t) \/ SyncLock(t) \/ ReportDone(t) \/ WakeUp(t)
        PROVE  /\ UNCHANGED <<ctx, contention_count, total_wait_time>>
               /\ threads_done' \in {threads_done, threads_done + 1}
    BY <2>4 DEF WorkerStart, SyncLock, ReportDone, WakeUp
  <2>5. CASE \E t \in Tasks : WorkerStep(t)
    BY <2>1, <2>3, <2>4, <2>5 DEF WorkerStep
  <2> QED
    BY <2>2, <2>5 DEF Next, CopyParams, StartRun, ResetStats
<1> QED
  BY <1>1, Invariance, StatsInvariance, PTL DEF Spec, RunGrows

=============================================================================
