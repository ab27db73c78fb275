# kernel_mod: models, checks and proofs

TLA+ specifications of the kernel modules in this repository, the TLC
configurations that check them on small instances, and TLAPS proofs of the
properties that matter most. `PROJECT.json` holds the lists: components, runs,
mutants, the map from definitions to lines, findings, hazards and theorems.

Run, in this directory:

    tlasany M.tla                      parse a module
    tlc -workers 2 -config X.cfg M     check a configuration (run list below)
    tlapm M.tla                        check the proofs of a ...Proofs module

## 1. Inventory

The repository is a set of independent modules; none calls another. Each one is
a few hundred lines behind a kernel interface: module parameters
(`/sys/module/M/parameters`), sysfs attributes, or a character device.

| Part | State | Operations | Who calls it, and what is hard |
|---|---|---|---|
| **mod_08** `kernel_sync_demo` | `ctx` (counter, statistics, a spinlock, a mutex, a semaphore, `threads`, `threads_done`, wait queue), three parameters, `run_mutex` | write `num_threads`, `iterations`, `lock_type`, `run`, `reset`; read `result`, `stats`; kthreads run `worker_fn` | kthreads against each other and the caller that joins them; users against each other; failing allocations and `kthread_create`; a worker that outlives its run |
| **mod_07** `kernel_alloc` | pool, bitmap, `allocations` | write `alloc`, `free`; read `stats`; load, removal | index arithmetic of the bitmap search, wrong and repeated frees, a load that failed |
| **mod_05** `kernel_stack` | a list of nodes, `size`, `global_ks`, an unused mutex | attributes `push`, `pop`, `peek`, `size`, `is_empty`, `clear`; load, removal | no lock: callbacks of several tasks, and removal, on one list |
| **mod_06** `kernel_fifo` | a `kfifo` of 32 entries (`ring`, `in`, `out`), `global_queue` | attributes `enqueue`, `dequeue`, `peek`, `size`, `is_empty`, `is_full`, `available`, `clear`; load, removal | a ring made for one reader and one writer, used by any number; indices that wrap; a reset among other calls |
| **course_work** device | one buffer, `data_size`, tallies, a proc file | open, release, read, write, two ioctls; load, removal | unsynchronised buffer, read and written in pieces; unwinding of init; files that are open |
| **mod_03** | `idx`, `ch_val`, `my_arr` | parameters; `check.sh` writes a string one character at a time | two scripts at once; an index that is refused |
| mod_01, mod_02 | one parameter | the kernel's own setters | nothing |
| mod_04, build files | none | none | nothing |

What makes each part correct:

* **mod_08**: workers exclude each other under each lock; the counter is balanced; the
  join is exact; nothing is freed while a kthread can use it; a run returns; runs and
  resets do not meet; what `result` and `stats` read is of no run in progress.
* **mod_07**: extents are disjoint and in the pool; bitmap, lengths and statistics
  agree; the search is first fit; a bad pointer frees nothing; a failed init frees
  what it got and no more, and removal frees each area once.
* **mod_05**: the list is a stack; `size` is its length; nothing is leaked or used
  after it was freed; removal ends.
* **mod_06**: values come out in the order they went in, none twice; the capacity
  holds; full and empty are said of a fifo that is; a callback always has a fifo.
* **course_work**: what was set up is taken down, and no more; what is written stays
  inside the buffer; the buffer holds what was written last; a call that meets no
  change of the buffer tells the truth.
* **mod_03**: the array stays a C string, and is the string that a script sent which
  was alone.

`PROJECT.json` lists the hazards, each at its line.

## 2. Modules

| Module | Models | Remarks |
|---|---|---|
| `TestRun` | abstract: a run of the mod_08 test | succeeds after all threads finished and the counter is 0, or fails before any ran |
| `SyncTest` | `worker.c`, `sync.c` | implements `TestRun` |
| `SyncParams` | `params.c` of mod_08 | EXTENDS `SyncTest`; its behaviours are behaviours of `SyncTest` |
| `MCSyncTest`, `MCSyncParams` | symmetry for TLC | |
| `SyncTestProofs`, `SyncParamsProofs` | proofs | |
| `FirstFit` | abstract: a first-fit allocator of extents | |
| `Allocator` | all of mod_07 | implements `FirstFit` |
| `AllocatorProofs` | proofs | |
| `LifoStack` | abstract: a stack with values on their way in and out | |
| `KernelStack` | all of mod_05 | implements `LifoStack` for one writer |
| `KernelStackProofs` | proofs | |
| `BoundedFifo` | abstract: a bounded queue with values on their way in and out | |
| `KernelFifo` | all of mod_06 | implements `BoundedFifo` for one writer and one reader |
| `KernelFifoProofs` | proofs | |
| `CharDevice` | `device_ops.c` and `main.c` of course_work | |
| `MCCharDevice` | symmetry for TLC | |
| `CharDeviceProofs` | proofs | |
| `MessageParams` | mod_03 and its `check.sh` | |
| `MessageParamsProofs` | proofs | |
| `BoundedInduction` | lemmas: induction up to a bound, recursive functions on an interval | used by `AllocatorProofs` and `KernelStackProofs` |

### SyncTest

`run_pc`, `run_i` and `run_rc` are the program point, loop index and `rc` of
`run_test`; `pc[t]`, `slot[t]`, `iter[t]` and `seen[t]` belong to kthread `t` in
`worker_fn`. `slot[t]` is the entry of `args` that the kthread was given, so
"args outlive workers" is a statement about pointers into a freed array.

* `Configure` is the copy of one parameter by `run_set`; by itself `SyncTest` lets
  its caller configure anything in range (`CopyParams`). `BeginRun` clears the
  statistics, `InitJoin` the wait queue, `threads` and `threads_done`, `InitLock`
  initialises the lock; `Allocate`, `AllocateFails`, `CreateThread`, `CreateFails`,
  `StopCreated`, `LaunchThread`, `CollectWaitTime` and `FreeMem` follow the
  statements of `run_test` in their order.
* `wait_event` is expanded into what the kernel macro does: `WaitTest`, then
  `PrepareToWait`, `Retest` and sleep, until `Awaken`. `WakeUp` is `wake_up`
  with the exit of the kthread, in one step.
* A critical section is two steps. `SyncLock` takes the lock and reads the shared
  fields; `Increment` and `Decrement` write them back and unlock. A lock that
  admits two workers therefore loses updates, as the C code would.
* Whether a wait exceeded the threshold is left open; a slow wait counts as one
  unit in `args[..].wait_time_ns` and one in `contention_count`.
* A task is taken from `Tasks` by `kthread_create` and given back when the
  kthread has exited. A kthread in the state `wake` has been counted and has not
  yet called `wake_up`: its run may have returned, and the next one begun.
* The stores of `BeginRun` and of `ClearRun` are one step each: whoever makes them
  holds `run_mutex`, no worker touches the fields then, and the properties about what
  a reader sees are claimed under `param_lock`, which keeps readers out meanwhile.

Memory is sequentially consistent. The fields that workers share are accessed
under a lock, and `threads_done` by atomic operations that `wake_up` and
`wait_event` order, so this loses no behaviour for the properties stated.

### SyncParams

`upc[u]` is the program point of user `u` in a callback, or what the callback
returns. The kernel calls callbacks of a module under its `param_lock`
(external: `Call`, `ParamLock`, `ParamUnlock`). The constant `Serialised` says
whether that lock is there. It always is in the kernel: `Serialised = TRUE` is
the module as it runs. `FALSE` asks what `run_mutex`, the only lock of the source,
protects alone: everything the code does is then checked against more
interleavings. `RunsAsSpecified` is the specification of `SyncTest` itself,
so that the whole of section 4 about `SyncTest` applies to the module. `run_set` is
`RunTrylock`, a copy of each parameter (`CopyThreads`, `CopyIterations`,
`CopyLockType`; without the kernel's lock another user may write in between, and
the run then has parameters that were never set together), `RunTest` and
`RunReturn`; `reset_set` is `ResetTrylock`, `ResetClear`, `ResetUnlock`.
`NeverBusy` says that the two "Test already running" branches cannot be reached
as long as the kernel's lock is there. Numbers are in range or just out of
it, or not a number; formatting is left out.

### Allocator

Callbacks run one at a time (`param_lock`), so the state of one callback is
enough: `pc` is its loop, `i`, `counter`, `start`, `need`, `block` its locals.
Sizes are words (`Word`), so that `DIV_ROUND_UP` overflows as in C. A pointer is
`None` (NULL or outside the pool) or a block and a byte in it.

`allocator_init` is one action for each allocation (`MemoryPool`, `CreateBitmap`,
`Allocations`), each of which may fail, and one for each `vfree` of its error paths
(`FreePool`, `FreeBitmap`); `allocator_destroy` is `DestroyBitmap`, `DestroyMeta` and
`DestroyPool`. `memory` says of each area whether it was never allocated, is live,
or was freed with its pointer kept. The error codes are positive: the kernel warns
and keeps the module loaded, so a failed init leads to `idle` too. A callback that
then uses an area that is not there (`Fault`), or a removal that frees one again
(`Vfree`), is undefined: the state `fault`, where the model stops. `AreasAccounted`
says that this is the only way there, and that no path of init forgets an area.

The statistics are functions of `allocations`: `Turn` is one turn of the loop that
looks for the longest free run, `LengthsBefore` the loop that adds the lengths up, and
`StatsExact` compares what the loops compute with what is allocated whenever no
callback is in progress.

### KernelStack

A step is one access to the shared list or count: `list_add` is `ReadFirst`,
`LinkBack`, `LinkNext`, `LinkPrev`, `LinkFront`; `list_del(st->elements.next)` reads
its argument anew (`ReadEntry`), then follows `ReadLinks`, `UnlinkBack`,
`UnlinkFront`, `Poison`; `size++` is `SizeRead`, `SizeWrite`. What stays one step: the
two reads of `ReadLinks`, which fetch the neighbours of the entry, and the two stores
of `Poison` to it. With one writer nobody else changes that entry meanwhile, and
`SizeCurrent`, the property of the run with two, does not depend on them. `loc[t]`
holds the locals of task `t`. The nodes are explicit, with `alive` for what `kmalloc`
and `kfree` say, so that leaks and stale pointers can be stated. `phase` is the
module's: callbacks can begin as soon as the attributes appear, before
`sysfs_create_group` returns; `sysfs_remove_group` waits for the callbacks inside
(external: `Drained`); `stack_clear` of the exit function is run by the task `Rmmod`.

Nothing in the source orders two callbacks, and the model has no lock either. The
configuration says who calls what: `Writers` make every call, `Readers` only
those that follow no pointer. With one writer the stack is correct; with two
it is not (section 5).

### KernelFifo

The kfifo macros are expanded into their accesses (external, from how
`fifo_ops.c` uses them). Every test reads `in` and `out` in either order (`ReadIn`,
`ReadOut`). `kfifo_put` is then `PutTest`, `PutStore` (the entry) and `in++` behind
a barrier (`PutPublish`, `PutPublished`); `kfifo_get` is `GetTest`, `GetLoad` and
`out++` (`GetAdvance`, `GetAdvanced`); `kfifo_peek` stops after the load;
`kfifo_reset` writes `out` and then `in`. `fifo_dequeue` and `fifo_peek` test for
emptiness themselves before kfifo does (`EmptyTest`). When that first test passes
and the second fails, the callback succeeds with a cell that was never written:
`Garbage`. An index that was read may be kept in a register or read again, so
`PutStore` and `GetLoad` choose. Indices are words: `in` and `out` run up to `Word`
and wrap, `Slot` masks them, and the ring is full when their difference, cut to a
word, is the capacity.

No lock orders the callbacks, in the code or in the model. kfifo asks for one
writer, one reader, and a reset that meets nobody; `Writers`, `Readers` and
`ClearAlone` say whether users keep to that. `IsFifo` maps the ring between `out`
and `in` to the contents of `BoundedFifo`. A put takes effect when `in` is written,
a get when `out` is; a value refused as full, or a fifo found empty, is decided at
the read of the other side's index.

`phase` is the module's. Init is `FifoInit`, `SetGlobalQueue`, `CreateGroup` (from
here on callbacks may begin) and `Registered`; removal is `Remove`, `Removed` (the
group is gone and its callbacks drained), `ResetGlobalQueue` and `KfifoFree`.
`FifoThere` therefore depends on their order. The ring of a load that fails after
`kfifo_alloc` stays allocated (`KobjectFails`, `InitFails`), as in the code.

### CharDevice

The module half is the ladder of `my_device_init`: `Ladder` lists the five
resources in their order, `rung` is the one at hand. `SetUp` goes up; `SetUpFails`
jumps to where the `goto` of that failure goes (`Label`) in the list of the labels
(`Labels`), and `TakeDown` falls through the rest; `my_device_exit` works through a list
of its own (`ExitLines`). A file can be opened as soon as `cdev_add` has
succeeded. A file of a loaded module pins it (`Pinned`, the `owner` of `my_fops`);
one that was opened during an init which then fails does not, and is `stray`
afterwards: its calls are undefined and not modelled.

The other half is the calls. `copy_from_user`, `memset` and `copy_to_user` move one
byte a step and may end early at a missing page, where `copy_from_user` zeroes the
rest. A message may be longer than the buffer, and `BytesToCopy` cuts it.
`data_size` is read anew, or taken from a register, wherever the source
names it again: in the result of a write, and in the count that a read copies,
which can then go below zero and wrap, so that the read reaches bytes behind the
buffer (`Outside`). A write reads it a last time for its log and result
(`WriteResult`). Nothing orders calls. `undisturbed[u]` says that no other write
or clear has met the call of `u`, and `stored` is what the last write or clear left
that met no other; both are history, read by no action.

### MessageParams

One action for each write of the script: `SetIdx`, then `SetChVal`, whether the
setter accepts (`InRange`, `ChValSet`) or refuses (`ChValRefused`): the script goes on
in both cases. Setters run one at a time under `param_lock`. Characters are in
range or not. `sole` and `before` are history: the script that had the module
for itself, and the array when it began. `LEN_ARR` and `MAX_IDX` are constants of their
own, as in the source; that the last position leaves an entry for the Nul is the
assumption `NulReserved`.

## 3. Runs

| Run | Configuration | Bounds | Shows |
|---|---|---|---|
| `sync_safety` | `MCSyncTest.cfg` | 3 tasks, 2 threads, 2 iterations | the safety properties and `KeepsPromise`, 875 thousand states |
| `sync_live` | `MCSyncTestLive.cfg` | 2 tasks, 2 threads, 1 iteration | `RunReturns` |
| `params_free` | `MCSyncParams.cfg` | 2 users, 1 thread, no `param_lock` | `run_mutex` alone: owner, range, `RunsAsSpecified` |
| `params_locked` | `MCSyncParamsLocked.cfg` | 2 users, 1 thread, `param_lock` | what readers see, `NeverBusy`, `CallReturns` |
| `alloc` | `Allocator.cfg` | 6 blocks of 2 bytes, 4-bit words | all of the allocator |
| `stack` | `KernelStack.cfg` | 1 writer, 1 reader, 3 nodes, 2 values | all of the stack for one writer |
| `stack_race` | `KernelStackRace.cfg` | 2 writers, 2 nodes | violated: `SizeCurrent` |
| `fifo` | `KernelFifo.cfg` | 1 writer, 1 reader, 2 entries, indices below 8, 2 values | all of the fifo as kfifo asks it to be used, 658 thousand states |
| `fifo_race` | `KernelFifoRace.cfg` | 1 writer, 2 readers | violated: `FullMeansFull` |
| `device` | `MCCharDevice.cfg` | 2 users, a buffer of 2 bytes, messages of up to 3, counts up to 2 | types and the bound of the buffer, ladder, contents, truth of undisturbed calls, 3.2 million states |
| `device_race` | `MCCharDeviceRace.cfg` | 2 users | violated: `WrittenMeansWritten` |
| `message` | `MessageParams.cfg` | 2 scripts, 3 entries of which 2 positions, strings of up to 3 codes, 3 codes | `Terminated`, `Spelled`, 2.0 million states |

Why the bounds suffice. `sync_safety`: two threads are enough for every race between
workers and for a `kthread_create` that fails after one that did not; the third task
lets a late worker of the last run live beside two of the next; two iterations let a
worker go round its loop. The proofs of section 4 need no bound. `params_*`: the two
users contend for everything a user can; one thread is enough since the runs of
several are `SyncTest`'s matter. `alloc`: six blocks hold three extents with gaps
between them, and sizes of 4 bits reach past the pool and past the overflow of the
rounding. `stack`: three nodes have a first, a middle and a last one, and a fourth
push finds no memory; two values tell the order. `fifo`: two entries are the smallest
ring that can be neither full nor empty, two values tell the order, and indices below
8 wrap after four times round the ring. `device`: one byte value and `Zero` tell old
contents from new; messages of 3 are longer than the buffer; counts reach below, up to
and past what is left, and the second user makes every disturbance. `message`: strings
one longer than the positions reach the refused index, and one of the three codes is
refused.

Fairness. `FairSpec` of `SyncTest`: the scheduler runs each runnable task (WF of
the caller and of each kthread). A worker waits for a lock that others hold for
finitely many critical sections, so no stronger fairness is needed.
`FairParamsSpec`: the same for users, and SF for taking `param_lock`, a kernel
mutex that is handed over to its waiters. `FairSpec` of `KernelStack`: a callback
that has begun and a removal that has begun are run on; nobody is obliged to call.

`KernelFifo`, `CharDevice` and `MessageParams` claim safety only: no call of
theirs waits for another, so nothing has to be shown to end.

Deadlock is checked in the mod_08 runs and in `device` and `message`.
`Allocator.cfg` and the `KernelStack` and `KernelFifo` configurations switch it
off: `fault` and a failed load are ends.

Mutants. Each property of a passing run is paired in `PROJECT.json` with a change of
one definition that breaks it, the kind of slip the code could have had: a semaphore
that starts at 2, a sleep without the second test, a `goto` to the wrong label,
attributes that appear before the pointer they use is set, an increment copied to
where the decrement belongs. The mutated definitions stand before the ones they
mutate, marked as mutants; no specification uses them.

## 4. Proofs

For all values of the constants, under the named assumptions of the modules
(finite set of tasks, positive bounds, `None` not a task, user or pointer). Every
safety invariant and action property of a passing run is the subject of a theorem.

* **SyncTestProofs**: `TypeCorrect`, `ExclusionCorrect`, `BarrierCorrect`,
  `CounterCorrect`, `ArgsCorrect`, `NoneLeftCorrect`, `StatsCorrect`, `PromiseKept`.
  The properties are not inductive: `CounterBalanced` needs what a worker in its
  critical section has read to be current, `BarrierExact` needs to know which kthreads
  are whose. `IInv` adds `RunShape` (which entries of `threads` are filled at each
  point of `run_test`), `TaskShape` (where a kthread can be meanwhile, and that it
  owns its slot) and `LockShape` (the lock is taken and `seen` is current in a
  critical section). `Induction` has a step for each action. The refinement
  (`StepKeepsPromise`) maps each action to a step of `TestRun` or to a stutter;
  `CounterBelowLeft` is where the counter's bound by the threads still running comes
  from. `StatsCorrect` is about a sum over `args`, counted without summing: `Waits` is
  the set of the waits recorded and not yet collected, and `WaitsCounted`
  (contention_count is the total so far and one for each of `Waits`) is kept by adding
  an element (`UpdateCounts`) and by taking one entry's waits away (`CollectCounts`).
  `GrowsCorrect` is the action property of the statistics. Three theorems are the
  safety core of `RunReturns`. `NotStuck`: while a run is in progress, the caller or a
  kthread of the run has a step it can take. Its difficult case is a caller asleep in
  `wait_event`, and what it needs is `WakeUpKept`: a caller that sleeps although all
  have finished has a kthread left that will call `wake_up`. `CanRun` and `CanWork`
  spell out when a task has a step (TLC agrees that they are what ENABLED says).
  `RunShrinks`: each step of the caller or of a kthread, also of one that an earlier
  run left behind, lowers `StepsLeft`, and a reset leaves it. `RunBounded`:
  `StepsLeft` is at most `StepsAtMost`. The steps ahead of the kthreads are counted as
  a set of pairs (`Ahead`), one column for each kthread (`Column`), so that no sum
  over tasks is needed.
* **SyncParamsProofs**: `ParamsTypeCorrect`, `OwnerCorrect`, `NeverBusyCorrect`,
  `RunsCorrect`, `ResultCorrect`, `DivisorCorrect`, `ModuleCorrect`, `RunsUndisturbed`
  (`NotStuck` and `RunShrinks` hold of the module with its users), `CallsNotStuck`
  (while users are inside callbacks, one of them, or a kthread of the run that one of
  them waits for, has a step). `PInv` ties `upc`, `run_mutex`, `param_lock` and
  `run_pc` together; with it each step of a user is a step of `SyncTest` or a stutter,
  and `ModuleCorrect` carries the theorems over to the module. `DivisorCorrect` rests
  on `NoRunMet`: a callback under param_lock meets no run.
* **AllocatorProofs**: `TypeCorrect`, `DisjointCorrect`, `BitmapCorrect`,
  `FirstFitCorrect`, `AreasCorrect`, `GrantCorrect`, `StatsCorrect`. `IInv` states
  what each loop knows of the blocks it has passed: in the search, that the blocks
  from `start` on are free and that every earlier start met a taken block too soon
  (`ScanShape`); in marking, that the request fits at `start` and nowhere before
  (`MarkShape`). `RoundedUp` is the arithmetic of `DIV_ROUND_UP`: a sum that overflows
  a word rounds to 0 blocks, never to too few. `AreasCorrect` needs what is live at
  each point of init, of its error paths and of the removal, and that of a loaded
  module whose `rc` is `ERR_OK` all three areas are. `StatsCorrect` is about two
  loops: what is known after each turn of them (`TurnKeeps`) is carried to the last
  one by induction up to the number of blocks.
* **KernelStackProofs**: `TypeCorrect`, `ListSoundCorrect`, `SizeTracksCorrect`,
  `NothingLeakedCorrect`, `NoStaleNodeCorrect` and `LifoKept`, for one writer
  (`OneWriter`: without it `stack_race` refutes the like), any number of tasks that
  ask, of nodes and of values. `Listed` is the ring that the pointers make: `OneRing`
  shows that there is one at most (two would differ first somewhere, `Least`), so that
  each step's new list is known by exhibiting it (`ListIs`, `LinksElsewhere`,
  `LinksLonger`, `LinksShorter`). `RingShape` is the invariant: one task at most is at
  work on the list (`Sole`: the writer, or the removal once the callbacks are gone),
  the allocated nodes are those of the list and the one it holds, the back pointers
  hold but for the one it is about to set, `size` is off by what it owes
  (`ListShape`), and what it has read of the list is still so (`WorkShape`).
  `SizeCurrentCorrect` is the property that `stack_race` refutes for two writers.
  `NobodyStopsCorrect`, `EndsSoonCorrect` and `StepsCounted` are the safety core of
  `RemovalEnds`: a callback that has begun always has a next step, each of its own
  steps lowers `StepsLeft`, no step of another task raises it, and it is bounded by a
  number that depends on the number of nodes only (`clear` frees each node once:
  `Place` is how far along the ring it is). Each step of `list_add` and `list_del` has
  a lemma (`WorkerLinkBack` to `WorkerKFree`). In the refinement, `LinkFront` is the
  push, `UnlinkFront` the pop, and the rest stutters.
* **KernelFifoProofs**: `TypeCorrect`, `FifoThereCorrect` hold for any number of
  readers and writers and any clears; `SeenHoldsCorrect` is for users that keep to
  kfifo's rules (`OneEach`). `IndexShape` is the invariant of the two indices: the
  writer's copy of `in` is current and the room it saw can only have grown, the
  reader's copy of `out` is current and the values it saw can only have become more.
  Distances are taken modulo `Word`, of which all that is known is that it is a
  multiple of the capacity, at least twice it: `FifoAssumption`.
  `FullMeansFullCorrect` is, under `OneEach`, the property that `fifo_race` refutes
  for two readers. `FifoKept` says that the ring implements `BoundedFifo`: `RingShape`
  adds what is in the slot under way; `ContentsShape` and the lemmas on slots show
  that a put appends, a get takes the head, and that no store touches a slot in use,
  also where an index wraps. `NoGarbageCorrect` (no callback returns a cell that was
  never written) is obtained from the refinement: `PromiseReal` is an invariant of
  `BoundedFifo`, `RealHolds` carries it over, and `LoadsValue` reads it back in the
  ring. `FifoThereCorrect` goes by `phase`: what is allocated and what is set at each
  step of init and removal, and that callbacks exist between `CreateGroup` and
  `Removed` only.
* **CharDeviceProofs**: `LadderSoundCorrect` from `LadderShape` (what exists is a
  lower part of the ladder, up to the rung, and what is still to be taken down is what
  exists); `HoldsStoredCorrect` and `UndisturbedTrueCorrect` from `StoredShape` (the
  buffer holds what is stored, and nobody is changing it), `Alone` (who can be
  undisturbed together) and `TrueSoFar` (what an undisturbed write or read has copied
  so far is what is in the buffer); `TypeCorrect`, which holds the bound of the buffer
  for messages of any length.
* **MessageParamsProofs**: `TerminatedCorrect`, `SpelledCorrect`, `TypeCorrect`, for
  any length of the array and the strings. `Placed` says where a script on its own
  finds `idx`, whether its last write was accepted or refused.

* **BoundedInduction**: the least element of a set of naturals (`Least`), induction
  up to a bound (`Upwards`), and that a function defined by recursion on an
  interval exists and satisfies its equation (`Recursion`, `Solution`, `Iterates`). The
  library's theorems for this take operators as parameters; these are stated with
  sets and functions, which is why they can be cited.

Only model-checked: the liveness properties `RunReturns`, `CallReturns` and
`RemovalEnds`. Their safety cores are proved as far as said above: for runs and
for calls of the stack, that something can be done and that whatever is done
lowers a bounded count; for calls of mod_08, that somebody can go on. What
remains for TLC is the step from there to termination under fairness, which needs
reasoning about ENABLED, and, for `CallReturns`, that `param_lock` is handed over to
each of its waiters in the end (SF).

## 5. Findings

* `stack_race`: two pushes at once leave two nodes and a `size` of 1. The mutex
  that `struct kernel_stack` declares is never taken; the task text says that
  `size` is the current number of elements.
* `fifo_race`: two reads of `dequeue` at once take the last value of the fifo, and
  both advance `out` past `in`. From then on `kfifo_put` counts a ring with
  2^32 - 1 values: `enqueue` fails with ENOSPC and the log says that the queue is
  full, of a fifo that is empty.
* `device_race`: `my_write` takes what it logs ("written %zu bytes") and returns from
  the shared `data_size`, which it has just stored. When another task writes at
  the same time, a write reports the size of the other's message.

Seen by reading, and not the subject of a run: `last_run_result` never gets the
result of a run; `result` prints the current parameters instead of the run's;
a push while a load is failing is leaked; `allocator_init` returns positive
error codes; `dequeue` and `peek` succeed with an uninitialised value when another
reader was faster; `size` of mod_06 prints the capacity; the ring of mod_06 is
leaked when `init_sysfs` fails; a read of 0 bytes from the device returns EFAULT;
the device logs "loaded" before the proc file can fail; `clear` of mod_05 accepts the
number 1 only (`sysfs.c:182`), where the task text (line 64) says that any value starts
the clearing; a `pop` of mod_05 that another writer meets can free a node that is still
in the list, as `list_del` takes whatever node is first by then.

## 6. Not modelled

* mod_08: loading and removal (`ctx` exists throughout); the instant inside
  `init_waitqueue_head` at which a late `wake_up` of the last run could meet it;
  the layout of what is printed; the clock (`ktime_get`).
* mod_05: parsing of numbers (a write that is not a number changes nothing);
  compiler reordering of the plain accesses of two tasks.
* mod_06: parsing of numbers (a write that is not a number changes nothing); the
  user program `fifo-510203-12dbc7.c`, sequential, with a list of its own.
* course_work: the tallies of `open`, `read` and `write`, which are plain increments
  that can be lost, and the proc file that prints them; `lseek` and positioned
  reads; `test_ioctl.c`; what a file does whose module was freed after a failed init.
* mod_03: load and removal, the getters, and the text of the log.
* mod_01, mod_02, mod_04 and the build files have nothing to check.

## 7. Plan

1. Done: `SyncTest`, `SyncParams`, `Allocator`, `KernelStack`, `KernelFifo`,
   `CharDevice`, `MessageParams`, their runs, and the proofs of section 4, those
   of every safety invariant and the safety cores of the liveness properties.
2. Module life time for mod_08: callbacks before init and after exit.
3. The tallies and the proc file of the device.
