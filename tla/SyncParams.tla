----------------------------- MODULE SyncParams -----------------------------
(***************************************************************************)
(* The parameter callbacks of mod_08 (params.c) around the test of module  *)
(* SyncTest: users write num_threads, iterations, lock_type, run and reset *)
(* and read result and stats through /sys/module/kernel_sync_demo.         *)
(*                                                                         *)
(* The kernel calls every callback of a module under the module's          *)
(* param_lock (Serialised = TRUE).  run_set and reset_set take run_mutex   *)
(* besides; Serialised = FALSE asks what run_mutex is worth alone.         *)
(*                                                                         *)
(* The module is loaded: ctx is allocated until the last user is done.     *)
(***************************************************************************)
EXTENDS SyncTest

CONSTANTS
  Users,        \* the tasks that read and write the parameter files
  Serialised    \* whether the kernel's param_lock is there

ASSUME ParamsAssumption == Serialised \in BOOLEAN /\ None \notin Users

VARIABLES
  num_threads, iterations, lock_type,   \* the module parameters
  run_mutex,      \* its holder, or None
  param_lock,     \* its holder, or None
  upc             \* upc[u]: program point of user u in a callback, or what it returns

settings == <<num_threads, iterations, lock_type>>
allVars == <<vars, settings, run_mutex, param_lock, upc>>

Files == {"num_threads", "iterations", "lock_type", "run", "reset", "result", "stats"}
Returns == {"ok", "EINVAL", "EBUSY", "failed"}

\* Between the trylock of run_mutex and its unlock.
Holding == {"copy_threads", "copy_iterations", "copy_lock", "run_test", "running",
            "clear", "cleared"}

ParamsInit ==
  /\ Init
  /\ num_threads \in 1 .. MaxThreads   \* the defaults, or insmod's arguments
  /\ iterations \in 1 .. MaxIterations
  /\ lock_type \in LockTypes
  /\ run_mutex = None /\ param_lock = None
  /\ upc = [u \in Users |-> "out"]

Goto(u, point) == upc' = [upc EXCEPT ![u] = point]

-----------------------------------------------------------------------------
\* param_attr_store or param_attr_show of the kernel, before and after the callback.
Call(u) ==
  /\ upc[u] = "out"
  /\ Goto(u, "enter")
  /\ UNCHANGED <<vars, settings, run_mutex, param_lock>>

ParamLock(u) ==
  /\ upc[u] = "enter"
  /\ IF Serialised THEN param_lock = None /\ param_lock' = u ELSE UNCHANGED param_lock
  /\ \E file \in Files : Goto(u, file)
  /\ UNCHANGED <<vars, settings, run_mutex>>

ParamUnlock(u) ==
  /\ upc[u] \in Returns
  /\ IF Serialised THEN param_lock' = None ELSE UNCHANGED param_lock
  /\ Goto(u, "out")
  /\ UNCHANGED <<vars, settings, run_mutex>>

-----------------------------------------------------------------------------
\* kstrtouint refuses what is no number (None); the setters refuse what is out
\* of range, and then leave the parameter alone.
Numbers(max) == (0 .. max + 1) \union {None}

InUpperRange(v, min, max) == v <= max   \* mutant of InRange: no lower bound

InRange(v, min, max) == min <= v /\ v <= max

Store(u, param, v, min, max) ==
  IF v = None THEN Goto(u, "EINVAL") /\ UNCHANGED param
  ELSE IF InRange(v, min, max) THEN Goto(u, "ok") /\ param' = v
  ELSE Goto(u, "EINVAL") /\ UNCHANGED param   \* -ERANGE

NumThreadsSet(u) ==
  /\ upc[u] = "num_threads"
  /\ \E v \in Numbers(MaxThreads) : Store(u, num_threads, v, 1, MaxThreads)
  /\ UNCHANGED <<vars, iterations, lock_type, run_mutex, param_lock>>

IterationsSet(u) ==
  /\ upc[u] = "iterations"
  /\ \E v \in Numbers(MaxIterations) : Store(u, iterations, v, 1, MaxIterations)
  /\ UNCHANGED <<vars, num_threads, lock_type, run_mutex, param_lock>>

LockTypeSet(u) ==
  /\ upc[u] = "lock_type"
  /\ \E v \in Numbers(SEMAPHORE) : Store(u, lock_type, v, SPINLOCK, SEMAPHORE)
  /\ UNCHANGED <<vars, num_threads, iterations, run_mutex, param_lock>>

-----------------------------------------------------------------------------
RunWithoutTrylock(u) ==   \* mutant of RunTrylock
  /\ upc[u] = "run"
  /\ run_mutex' = u
  /\ Goto(u, "copy_threads")
  /\ UNCHANGED <<vars, settings, param_lock>>

\* run_set writes 1 and gets run_mutex.
RunTrylock(u) ==
  /\ upc[u] = "run"
  /\ run_mutex = None /\ run_mutex' = u
  /\ Goto(u, "copy_threads")
  /\ UNCHANGED <<vars, settings, param_lock>>

\* It copies the parameters one by one, then calls run_test.
Copy(u, point, field, value, next) ==
  /\ upc[u] = point
  /\ Configure(field, value)
  /\ Goto(u, next)
  /\ UNCHANGED <<settings, run_mutex, param_lock>>

CopyThreads(u) == Copy(u, "copy_threads", "num_threads", num_threads, "copy_iterations")
CopyIterations(u) == Copy(u, "copy_iterations", "iterations", iterations, "copy_lock")
CopyLockType(u) == Copy(u, "copy_lock", "lock_type", lock_type, "run_test")

RunTest(u) ==
  /\ upc[u] = "run_test"
  /\ BeginRun
  /\ Goto(u, "running")
  /\ UNCHANGED <<settings, run_mutex, param_lock>>

RunRefused(u) ==
  /\ upc[u] = "run"
  /\ Goto(u, "EINVAL") \/ (run_mutex # None /\ Goto(u, "EBUSY"))
  /\ UNCHANGED <<vars, settings, run_mutex, param_lock>>

ReturnLocked(u) ==   \* mutant of RunReturn: an error path that keeps run_mutex
  /\ upc[u] = "running" /\ run_pc = "idle"
  /\ run_mutex' = IF run_rc = "ok" THEN None ELSE run_mutex
  /\ Goto(u, IF run_rc = "ok" THEN "ok" ELSE "failed")
  /\ UNCHANGED <<vars, settings, param_lock>>

RunReturn(u) ==
  /\ upc[u] = "running" /\ run_pc = "idle"
  /\ run_mutex' = None
  /\ Goto(u, IF run_rc = "ok" THEN "ok" ELSE "failed")
  /\ UNCHANGED <<vars, settings, param_lock>>

ResetWithoutTrylock(u) ==   \* mutant of ResetTrylock
  /\ upc[u] = "reset"
  /\ Goto(u, "clear")
  /\ UNCHANGED <<vars, settings, run_mutex, param_lock>>

\* reset_set does nothing for 0; else it clears the statistics under run_mutex.
ResetRefused(u) ==
  /\ upc[u] = "reset"
  /\ Goto(u, "ok") \/ Goto(u, "EINVAL") \/ (run_mutex # None /\ Goto(u, "EBUSY"))
  /\ UNCHANGED <<vars, settings, run_mutex, param_lock>>

ResetTrylock(u) ==
  /\ upc[u] = "reset"
  /\ run_mutex = None /\ run_mutex' = u
  /\ Goto(u, "clear")
  /\ UNCHANGED <<vars, settings, param_lock>>

ResetClear(u) ==
  /\ upc[u] = "clear"
  /\ ClearRun
  /\ Goto(u, "cleared")
  /\ UNCHANGED <<settings, run_mutex, param_lock>>

ResetUnlock(u) ==
  /\ upc[u] = "cleared"
  /\ run_mutex' = None
  /\ Goto(u, "ok")
  /\ UNCHANGED <<vars, settings, param_lock>>

-----------------------------------------------------------------------------
\* result_get reads shared_counter; the lock type is always one it can name.
ResultGet(u) ==
  /\ upc[u] = "result"
  /\ Goto(u, IF lock_type \in LockTypes THEN "ok" ELSE "EINVAL")
  /\ UNCHANGED <<vars, settings, run_mutex, param_lock>>

StatsUnguarded(u) ==   \* mutant of StatsGet: contention_count is not tested
  /\ upc[u] = "stats"
  /\ Goto(u, "divide")
  /\ UNCHANGED <<vars, settings, run_mutex, param_lock>>

\* stats_get tests contention_count, reads it again to divide by it, and prints.
StatsGet(u) ==
  /\ upc[u] = "stats"
  /\ Goto(u, IF contention_count # 0 THEN "divide" ELSE "ok")
  /\ UNCHANGED <<vars, settings, run_mutex, param_lock>>

StatsDivide(u) ==
  /\ upc[u] = "divide"
  /\ Goto(u, "ok")
  /\ UNCHANGED <<vars, settings, run_mutex, param_lock>>

-----------------------------------------------------------------------------
Callback(u) ==
  \/ NumThreadsSet(u) \/ IterationsSet(u) \/ LockTypeSet(u)
  \/ RunRefused(u) \/ RunTrylock(u)
  \/ CopyThreads(u) \/ CopyIterations(u) \/ CopyLockType(u)
  \/ RunTest(u) \/ RunReturn(u)
  \/ ResetRefused(u) \/ ResetTrylock(u) \/ ResetClear(u) \/ ResetUnlock(u)
  \/ ResultGet(u) \/ StatsGet(u) \/ StatsDivide(u)
  \/ ParamUnlock(u)

TestStep ==
  /\ RunStep \/ \E t \in Tasks : WorkerStep(t)
  /\ UNCHANGED <<settings, run_mutex, param_lock, upc>>

ParamsNext ==
  \/ \E u \in Users : Call(u) \/ ParamLock(u) \/ Callback(u)
  \/ TestStep

ParamsSpec == ParamsInit /\ [][ParamsNext]_allVars

\* Every runnable task runs, and a mutex is handed to each of its waiters in turn.
FairParamsSpec ==
  /\ ParamsSpec
  /\ \A u \in Users : WF_allVars(Callback(u)) /\ SF_allVars(ParamLock(u))
  /\ WF_allVars(RunStep /\ TestStep)
  /\ \A t \in Tasks : WF_allVars(WorkerStep(t) /\ TestStep)

-----------------------------------------------------------------------------
ParamsTypeOK ==
  /\ num_threads \in 1 .. MaxThreads /\ iterations \in 1 .. MaxIterations /\ lock_type \in LockTypes
  /\ run_mutex \in Users \union {None} /\ param_lock \in Users \union {None}
  /\ upc \in [Users -> {"out", "enter", "divide"} \union Holding \union Files \union Returns]

\* run_mutex is held exactly by the user between its trylock and its unlock, and
\* a test in progress is that of a user inside run_test (params.c:152-166, 270-282).
RunHasOwner ==
  /\ \A u \in Users : upc[u] \in Holding <=> run_mutex = u
  /\ run_pc # "idle" => \E u \in Users : upc[u] = "running"

\* Whatever the users write, and with run_mutex as the only protection, the test
\* runs as SyncTest says: with parameters in range, one run at a time, and no
\* reset in the middle of one (params.c:136-170, 267-283).
RunsAsSpecified == Spec

\* With the kernel's lock nobody can read result while a test is running: the
\* counter it prints is always 0 (params.c:213-219).
ResultIsZero == Serialised => \A u \in Users : upc[u] = "result" => shared_counter = 0

\* ... the divisor of stats_get is still not 0 when it is read again, and the
\* average it computes is one threshold at least (params.c:237-238).
DivisorTested == Serialised => \A u \in Users : upc[u] = "divide" =>
                   contention_count # 0 /\ total_wait_time >= contention_count

\* ... and no caller meets a held run_mutex (params.c:152-156, 270-274).
NeverBusy == Serialised => \A u \in Users : upc[u] # "EBUSY"

\* Every read or write of a parameter file returns.
CallReturns == \A u \in Users : upc[u] = "enter" ~> upc[u] = "out"

=============================================================================
