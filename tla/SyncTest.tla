------------------------------ MODULE SyncTest ------------------------------
(***************************************************************************)
(* The worker test of mod_08 (kernel_sync_demo): run_test starts           *)
(* ctx->num_threads kthreads, every one raises and lowers                  *)
(* ctx->shared_counter ctx->iterations times under the chosen lock, and    *)
(* run_test joins them through ctx->threads_done and ctx->wait_queue.      *)
(*                                                                         *)
(* One run is in progress at a time (run_set takes run_mutex, module       *)
(* SyncParams); its successive runs share ctx.  A worker of a run that has *)
(* already returned may still be about to call wake_up, in the middle of   *)
(* the next run.                                                           *)
(***************************************************************************)
EXTENDS Integers, FiniteSets

CONSTANTS
  Tasks,          \* task_structs that kthread_create can hand out
  MaxThreads,     \* MAX_NUM_THREADS
  MaxIterations,  \* MAX_ITERATIONS
  None            \* the NULL pointer

ASSUME SyncAssumption ==
  /\ IsFiniteSet(Tasks)
  /\ MaxThreads \in Nat \ {0}
  /\ MaxIterations \in Nat \ {0}
  /\ None \notin Tasks

SPINLOCK == 0
MUTEX == 1
SEMAPHORE == 2
LockTypes == {SPINLOCK, MUTEX, SEMAPHORE}

VARIABLES
  ctx,               \* the fields of *ctx that run_set copies from the parameters
  shared_counter, contention_count, total_wait_time,   \* fields of *ctx
  threads_done,      \* ctx->threads_done
  threads,           \* ctx->threads, None when NULL
  args,              \* args[i].wait_time_ns of run_test, None when NULL
  units,             \* units[k]: 1 when slock or mlock is free; the count of sem
  queued,            \* the caller of run_test is on ctx->wait_queue
  awake,             \* ... and its task is runnable
  run_pc, run_i, run_rc,   \* run_test: program point, loop index, rc
  pc,                \* pc[t]: program point of kthread t in worker_fn
  slot,              \* slot[t]: args of t is &args[slot[t]]
  iter,              \* iter[t]: its loop index
  seen               \* seen[t]: what t has read in its critical section

ctxVars == <<shared_counter, contention_count, total_wait_time>>
memVars == <<threads, args>>
waitVars == <<queued, awake>>
runVars == <<run_pc, run_i, run_rc>>
taskVars == <<pc, slot, iter, seen>>
vars == <<ctx, ctxVars, threads_done, memVars, units, waitVars, runVars, taskVars>>

Slots == 0 .. ctx.num_threads - 1

NothingSeen == [counter |-> 0, contention |-> 0, slow |-> FALSE]

Init ==
  /\ ctx = [num_threads |-> 0, iterations |-> 0, lock_type |-> SPINLOCK]
  /\ shared_counter = 0 /\ contention_count = 0 /\ total_wait_time = 0
  /\ threads_done = 0
  /\ threads = None /\ args = None
  /\ units = [k \in LockTypes |-> 0]
  /\ queued = FALSE /\ awake = TRUE
  /\ run_pc = "idle" /\ run_i = 0 /\ run_rc = "ok"
  /\ pc = [t \in Tasks |-> "unused"]
  /\ slot = [t \in Tasks |-> 0]
  /\ iter = [t \in Tasks |-> 0]
  /\ seen = [t \in Tasks |-> NothingSeen]

-----------------------------------------------------------------------------
(***************************************************************************)
(* run_test, on the task of its caller.                                    *)
(***************************************************************************)

ClearContentionOnly ==   \* mutant of ClearStats: a forgotten field
  shared_counter' = 0 /\ contention_count' = 0 /\ UNCHANGED total_wait_time

ClearStats == shared_counter' = 0 /\ contention_count' = 0 /\ total_wait_time' = 0

TwoPermits(kind) == IF kind = SEMAPHORE THEN 2 ELSE 1   \* mutant: sema_init(.., 2)

InitialUnits(kind) == 1

\* run_set copies the parameters to ctx, one after the other.
Configure(field, v) ==
  /\ ctx' = [ctx EXCEPT ![field] = v]
  /\ UNCHANGED <<ctxVars, threads_done, memVars, units, waitVars, runVars, taskVars>>

CopyParams ==
  /\ run_pc = "idle"
  /\ \/ \E n \in 1 .. MaxThreads : Configure("num_threads", n)
     \/ \E its \in 1 .. MaxIterations : Configure("iterations", its)
     \/ \E kind \in LockTypes : Configure("lock_type", kind)

\* run_test begins: rc is 0, and the statistics of the last run are cleared.
BeginRun ==
  /\ ClearStats
  /\ run_pc' = "init" /\ run_i' = 0 /\ run_rc' = "ok"
  /\ UNCHANGED <<ctx, threads_done, memVars, units, waitVars, taskVars>>

StartRun == run_pc = "idle" /\ ctx.num_threads > 0 /\ ctx.iterations > 0 /\ BeginRun

InitKeepsDone ==   \* mutant of InitJoin: threads_done is not reset
  /\ run_pc = "init"
  /\ queued' = FALSE
  /\ threads' = None
  /\ run_pc' = "init_lock"
  /\ UNCHANGED <<ctx, ctxVars, threads_done, args, units, awake, run_i, run_rc, taskVars>>

\* The wait queue is empty, no thread is counted.
InitJoin ==
  /\ run_pc = "init"
  /\ queued' = FALSE
  /\ threads' = None
  /\ threads_done' = 0
  /\ run_pc' = "init_lock"
  /\ UNCHANGED <<ctx, ctxVars, args, units, awake, run_i, run_rc, taskVars>>

\* The chosen lock is initialised; its kind is one of the three.
InitLock ==
  /\ run_pc = "init_lock"
  /\ units' = [units EXCEPT ![ctx.lock_type] = InitialUnits(ctx.lock_type)]
  /\ run_pc' = "alloc"
  /\ UNCHANGED <<ctx, ctxVars, threads_done, memVars, waitVars, run_i, run_rc, taskVars>>

Allocate ==
  /\ run_pc = "alloc"
  /\ threads' = [i \in Slots |-> None]
  /\ args' = [i \in Slots |-> 0]
  /\ run_pc' = "create"
  /\ UNCHANGED <<ctx, ctxVars, threads_done, units, waitVars, run_i, run_rc, taskVars>>

\* Either kcalloc fails; a first array that was allocated is freed at free_mem.
AllocateFails ==
  /\ run_pc = "alloc"
  /\ threads' \in {None, [i \in Slots |-> None]}
  /\ run_rc' = "error"
  /\ run_pc' = "free"
  /\ UNCHANGED <<ctx, ctxVars, threads_done, args, units, waitVars, run_i, taskVars>>

CreateThread(t) ==
  /\ run_pc = "create" /\ run_i < ctx.num_threads
  /\ pc[t] = "unused"
  /\ threads' = [threads EXCEPT ![run_i] = t]
  /\ pc' = [pc EXCEPT ![t] = "created"]
  /\ slot' = [slot EXCEPT ![t] = run_i]
  /\ run_i' = run_i + 1
  /\ UNCHANGED <<ctx, ctxVars, threads_done, args, units, waitVars, run_pc, run_rc, iter, seen>>

CreateFailsFrees ==   \* mutant of CreateFails: goto free_mem
  /\ run_pc = "create" /\ run_i < ctx.num_threads
  /\ threads' = [threads EXCEPT ![run_i] = None]
  /\ run_rc' = "error"
  /\ run_pc' = "free" /\ run_i' = 0
  /\ UNCHANGED <<ctx, ctxVars, threads_done, args, units, waitVars, taskVars>>

CreateFails ==
  /\ run_pc = "create" /\ run_i < ctx.num_threads
  /\ threads' = [threads EXCEPT ![run_i] = None]
  /\ run_rc' = "error"
  /\ run_pc' = "stop" /\ run_i' = 0
  /\ UNCHANGED <<ctx, ctxVars, threads_done, args, units, waitVars, taskVars>>

AllCreated ==
  /\ run_pc = "create" /\ run_i = ctx.num_threads
  /\ run_pc' = "launch" /\ run_i' = 0
  /\ UNCHANGED <<ctx, ctxVars, threads_done, memVars, units, waitVars, run_rc, taskVars>>

\* kthread_stop of a kthread that never ran: it exits without entering worker_fn.
StopCreated ==
  /\ run_pc = "stop" /\ run_i < ctx.num_threads
  /\ LET t == threads[run_i] IN
       pc' = IF t = None THEN pc ELSE [pc EXCEPT ![t] = "unused"]
  /\ threads' = [threads EXCEPT ![run_i] = None]
  /\ run_i' = run_i + 1
  /\ UNCHANGED <<ctx, ctxVars, threads_done, args, units, waitVars, run_pc, run_rc, slot, iter, seen>>

AllStopped ==
  /\ run_pc = "stop" /\ run_i = ctx.num_threads
  /\ run_pc' = "free"
  /\ UNCHANGED <<ctx, ctxVars, threads_done, memVars, units, waitVars, run_i, run_rc, taskVars>>

LaunchThread ==
  /\ run_pc = "launch" /\ run_i < ctx.num_threads
  /\ pc' = [pc EXCEPT ![threads[run_i]] = "start"]
  /\ run_i' = run_i + 1
  /\ UNCHANGED <<ctx, ctxVars, threads_done, memVars, units, waitVars, run_pc, run_rc, slot, iter, seen>>

AllLaunched ==
  /\ run_pc = "launch" /\ run_i = ctx.num_threads
  /\ run_pc' = "wait"
  /\ UNCHANGED <<ctx, ctxVars, threads_done, memVars, units, waitVars, run_i, run_rc, taskVars>>

(***************************************************************************)
(* wait_event(ctx->wait_queue, threads_done == num_threads): a first test, *)
(* then a loop that enqueues the caller, tests again and sleeps.           *)
(***************************************************************************)
JoinedButOne == threads_done >= ctx.num_threads - 1   \* mutant of Joined

Joined == threads_done = ctx.num_threads

WaitTest ==
  /\ run_pc = "wait"
  /\ IF Joined THEN run_pc' = "collect" /\ run_i' = 0
               ELSE run_pc' = "prepare" /\ UNCHANGED run_i
  /\ UNCHANGED <<ctx, ctxVars, threads_done, memVars, units, waitVars, run_rc, taskVars>>

PrepareToWait ==
  /\ run_pc = "prepare"
  /\ queued' = TRUE /\ awake' = FALSE
  /\ run_pc' = "retest"
  /\ UNCHANGED <<ctx, ctxVars, threads_done, memVars, units, run_i, run_rc, taskVars>>

SleepUntested ==   \* mutant of Retest: the caller sleeps without a second test
  /\ run_pc = "retest"
  /\ run_pc' = "sleep"
  /\ UNCHANGED <<ctx, ctxVars, threads_done, memVars, units, waitVars, run_i, run_rc, taskVars>>

Retest ==
  /\ run_pc = "retest"
  /\ IF Joined THEN /\ queued' = FALSE /\ awake' = TRUE
                    /\ run_pc' = "collect" /\ run_i' = 0
               ELSE run_pc' = "sleep" /\ UNCHANGED <<waitVars, run_i>>
  /\ UNCHANGED <<ctx, ctxVars, threads_done, memVars, units, run_rc, taskVars>>

Awaken ==
  /\ run_pc = "sleep" /\ awake
  /\ run_pc' = "prepare"
  /\ UNCHANGED <<ctx, ctxVars, threads_done, memVars, units, waitVars, run_i, run_rc, taskVars>>

CollectWaitTime ==
  /\ run_pc = "collect" /\ run_i < ctx.num_threads
  /\ total_wait_time' = total_wait_time + args[run_i]
  /\ run_i' = run_i + 1
  /\ UNCHANGED <<ctx, shared_counter, contention_count, threads_done, memVars, units, waitVars, run_pc, run_rc, taskVars>>

AllCollected ==
  /\ run_pc = "collect" /\ run_i = ctx.num_threads
  /\ run_pc' = "free"
  /\ UNCHANGED <<ctx, ctxVars, threads_done, memVars, units, waitVars, run_i, run_rc, taskVars>>

\* free_mem, and the return of run_rc to run_set.
FreeMem ==
  /\ run_pc = "free"
  /\ args' = None /\ threads' = None
  /\ run_pc' = "idle" /\ run_i' = 0
  /\ UNCHANGED <<ctx, ctxVars, threads_done, units, waitVars, run_rc, taskVars>>

\* reset_set, when no run is in progress.
ClearRun == ClearStats /\ UNCHANGED <<ctx, threads_done, memVars, units, waitVars, runVars, taskVars>>

ResetStats == run_pc = "idle" /\ ClearRun

-----------------------------------------------------------------------------
(***************************************************************************)
(* worker_fn, on kthread t.  A critical section is two steps: SyncLock     *)
(* takes the lock and reads the shared fields, Increment or Decrement      *)
(* writes them back and unlocks; what a broken lock lets another worker    *)
(* write in between is lost.  A wait above WAIT_THRESHOLD_NS counts as one *)
(* unit of wait time; which waits are that slow is left open.              *)
(***************************************************************************)
WorkerStart(t) ==
  /\ pc[t] = "start"
  /\ args' = [args EXCEPT ![slot[t]] = 0]
  /\ iter' = [iter EXCEPT ![t] = 0]
  /\ pc' = [pc EXCEPT ![t] = "lock_inc"]
  /\ UNCHANGED <<ctx, ctxVars, threads_done, threads, units, waitVars, runVars, slot, seen>>

SyncLock(t) ==
  /\ pc[t] \in {"lock_inc", "lock_dec"}
  /\ units[ctx.lock_type] > 0
  /\ units' = [units EXCEPT ![ctx.lock_type] = @ - 1]
  /\ \E slow \in BOOLEAN :
       seen' = [seen EXCEPT ![t] = [counter |-> shared_counter,
                                    contention |-> contention_count,
                                    slow |-> slow]]
  /\ pc' = [pc EXCEPT ![t] = IF @ = "lock_inc" THEN "inc" ELSE "dec"]
  /\ UNCHANGED <<ctx, ctxVars, threads_done, memVars, waitVars, runVars, slot, iter>>

\* up() counts, spin_unlock and mutex_unlock set the lock free.
SyncUnlock ==
  units' = [units EXCEPT ![ctx.lock_type] = IF ctx.lock_type = SEMAPHORE THEN @ + 1 ELSE 1]

UpdateShared(t, delta) ==
  /\ shared_counter' = seen[t].counter + delta
  /\ IF seen[t].slow
     THEN /\ contention_count' = seen[t].contention + 1
          /\ args' = [args EXCEPT ![slot[t]] = @ + 1]
     ELSE UNCHANGED <<contention_count, args>>
  /\ seen' = [seen EXCEPT ![t] = NothingSeen]
  /\ SyncUnlock
  /\ UNCHANGED <<ctx, total_wait_time, threads_done, threads, waitVars, runVars, slot>>

Increment(t) ==
  /\ pc[t] = "inc"
  /\ UpdateShared(t, 1)
  /\ pc' = [pc EXCEPT ![t] = "lock_dec"]
  /\ UNCHANGED iter

CopiedIncrement(t) ==   \* mutant of Decrement: the copied block still says ++
  /\ pc[t] = "dec"
  /\ UpdateShared(t, 1)
  /\ iter' = [iter EXCEPT ![t] = @ + 1]
  /\ pc' = [pc EXCEPT ![t] = IF iter[t] + 1 < ctx.iterations THEN "lock_inc" ELSE "report"]

Decrement(t) ==
  /\ pc[t] = "dec"
  /\ UpdateShared(t, -1)
  /\ iter' = [iter EXCEPT ![t] = @ + 1]
  /\ pc' = [pc EXCEPT ![t] = IF iter[t] + 1 < ctx.iterations THEN "lock_inc" ELSE "report"]

ReportDone(t) ==
  /\ pc[t] = "report"
  /\ threads_done' = threads_done + 1
  /\ pc' = [pc EXCEPT ![t] = "wake"]
  /\ UNCHANGED <<ctx, ctxVars, memVars, units, waitVars, runVars, slot, iter, seen>>

\* wake_up makes a queued caller runnable and dequeues it; then t exits.
WakeUp(t) ==
  /\ pc[t] = "wake"
  /\ IF queued THEN queued' = FALSE /\ awake' = TRUE ELSE UNCHANGED waitVars
  /\ pc' = [pc EXCEPT ![t] = "unused"]
  /\ slot' = [slot EXCEPT ![t] = 0]
  /\ iter' = [iter EXCEPT ![t] = 0]
  /\ UNCHANGED <<ctx, ctxVars, threads_done, memVars, units, runVars, seen>>

-----------------------------------------------------------------------------
RunStep ==
  \/ InitJoin \/ InitLock
  \/ Allocate \/ AllocateFails
  \/ \E t \in Tasks : CreateThread(t)
  \/ CreateFails \/ AllCreated
  \/ StopCreated \/ AllStopped
  \/ LaunchThread \/ AllLaunched
  \/ WaitTest \/ PrepareToWait \/ Retest \/ Awaken
  \/ CollectWaitTime \/ AllCollected \/ FreeMem

WorkerStep(t) ==
  \/ WorkerStart(t) \/ SyncLock(t) \/ Increment(t) \/ Decrement(t)
  \/ ReportDone(t) \/ WakeUp(t)

Next ==
  \/ CopyParams
  \/ StartRun
  \/ ResetStats
  \/ RunStep
  \/ \E t \in Tasks : WorkerStep(t)

Spec == Init /\ [][Next]_vars

\* The scheduler runs every runnable task; every worker needs its lock only
\* finitely often, so a waiter finds it free in the end.
FairSpec ==
  /\ Spec
  /\ WF_vars(RunStep)
  /\ \A t \in Tasks : WF_vars(WorkerStep(t))

-----------------------------------------------------------------------------
Busy == {t \in Tasks : pc[t] \in {"start", "lock_inc", "inc", "lock_dec", "dec", "report"}}
Working == {t \in Tasks : pc[t] # "unused" /\ pc[t] # "wake"}   \* may use its args
Critical == {t \in Tasks : pc[t] \in {"inc", "dec"}}
Raised == {t \in Tasks : pc[t] \in {"lock_dec", "dec"}}   \* between ++ and --

Preparing == {"idle", "init", "init_lock"}   \* ctx is not set up for a run yet
RunPoints == Preparing \union {"alloc", "create", "stop", "launch", "wait", "prepare", "retest",
                                "sleep", "collect", "free"}
TaskPoints == {"unused", "created", "start", "lock_inc", "inc", "lock_dec", "dec", "report", "wake"}
Sights == [counter : Int, contention : Nat, slow : BOOLEAN]

TypeOK ==
  /\ ctx \in [num_threads : 0 .. MaxThreads, iterations : 0 .. MaxIterations, lock_type : LockTypes]
  /\ shared_counter \in Int /\ contention_count \in Nat /\ total_wait_time \in Nat
  /\ threads_done \in 0 .. MaxThreads
  /\ threads = None \/ threads \in [Slots -> Tasks \union {None}]
  /\ args = None \/ args \in [Slots -> Nat]
  /\ units \in [LockTypes -> {0, 1}]
  /\ queued \in BOOLEAN /\ awake \in BOOLEAN
  /\ run_pc \in RunPoints
  /\ run_i \in 0 .. ctx.num_threads
  /\ run_rc \in {"ok", "error"}
  /\ pc \in [Tasks -> TaskPoints]
  /\ slot \in [Tasks -> 0 .. MaxThreads - 1]
  /\ iter \in [Tasks -> 0 .. MaxIterations]
  /\ seen \in [Tasks -> Sights]

\* Whatever lock the run uses, at most one worker is between sync_lock and
\* sync_unlock (worker.c:15-22, 24-31).
MutualExclusion == \A t, u \in Critical : t = u

\* run_test frees args and ctx->threads only when no kthread can use its
\* entry any more, on the stop_created path too (worker.c:117, 128-141); each
\* kthread that can has an entry of its own.
ArgsOutliveWorkers ==
  \A t \in Working : /\ args \in [Slots -> Nat] /\ threads \in [Slots -> Tasks \union {None}]
                     /\ slot[t] \in Slots /\ threads[slot[t]] = t

\* From the first wake_up_process to the end of the wait, every thread of the
\* run is exactly one of: not launched yet, at work, counted in threads_done
\* (worker.c:34, 114-117); a worker of an earlier run is none of them.
BarrierExact ==
  run_pc \in {"launch", "wait", "prepare", "retest", "sleep", "collect"} =>
    threads_done + Cardinality(Busy) + (IF run_pc = "launch" THEN ctx.num_threads - run_i ELSE 0)
      = ctx.num_threads

\* No increment is lost to a race: outside the critical sections shared_counter
\* is the number of workers between their ++ and their -- (worker.c:21, 30), so
\* it is 0 whenever no run is in progress, which result_get reports.
CounterBalanced == shared_counter = Cardinality(Raised)

\* A returned run, even one that failed, leaves statistics that agree: one
\* recorded wait per contention counted (worker.c:16-20, 119-120).
StatsAgree == run_pc = "idle" => total_wait_time = contention_count

\* A returned run leaves no kthread behind but those that are about to exit
\* (worker.c:105-135).
NoKthreadLeft == run_pc = "idle" => \A t \in Tasks : pc[t] \in {"unused", "wake"}

\* A run that was started returns: no wake-up is lost between the test of
\* threads_done and the sleep (worker.c:34-35, 117), and no worker is kept from
\* its lock for ever.
RunReturns == run_pc # "idle" ~> run_pc = "idle"

\* What a run promises its caller (module TestRun).
Promise == INSTANCE TestRun WITH
  phase <- IF run_pc = "idle" THEN "idle"
           ELSE IF run_pc \in Preparing \union {"alloc", "create", "stop"} \/ run_rc = "error" THEN "setup"
           ELSE "running",
  left <- IF run_pc = "idle" THEN 0
          ELSE ctx.num_threads - (IF run_pc \in Preparing THEN 0 ELSE threads_done),
  counter <- shared_counter,
  outcome <- run_rc

\* run_test keeps that promise (worker.c:40-144).
KeepsPromise == Promise!Spec

=============================================================================
