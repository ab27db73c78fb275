----------------------------- MODULE KernelFifo -----------------------------
(***************************************************************************)
(* The fifo of mod_06 (kernel_fifo): a kfifo of Capacity entries, used     *)
(* through the sysfs attributes enqueue, dequeue, peek, size, is_empty,    *)
(* is_full, available and clear, from module load to removal.              *)
(*                                                                         *)
(* The module takes no lock.  kfifo asks its users for one writer and one  *)
(* reader at a time, and for nobody else in the fifo during a reset; the   *)
(* configuration says what they do: Writers and Readers are the tasks that *)
(* call, and ClearAlone that a clear meets nobody.  A step is one access   *)
(* to the shared ring or to one of its two indices.                        *)
(***************************************************************************)
EXTENDS Integers, Sequences

CONSTANTS
  Writers, Readers,   \* the tasks that enqueue; those that dequeue and peek
  Capacity,           \* entries of the ring, a power of two (FIFO_SIZE is 32)
  Word,               \* one more than the largest unsigned int, another one
  Values,             \* what enqueue_store parses
  Garbage,            \* memory that was never written
  Full, Empty, None,  \* -ENOSPC, -ENOENT, no value
  ClearAlone          \* whether users keep to kfifo's rule about resets

ASSUME FifoAssumption ==
  /\ Capacity \in Nat \ {0}
  /\ Word \in Nat /\ \E n \in 2 .. Word : Word = n * Capacity
  /\ Garbage \notin Values
  /\ Values \intersect {Full, Empty, None} = {} /\ None \notin {Full, Empty, Garbage}
  /\ None \notin Int
  /\ ClearAlone \in BOOLEAN

Tasks == Writers \union Readers
Slots == 0 .. Capacity - 1
Index == 0 .. Word - 1

VARIABLES
  phase,          \* how far the module is with its init or its exit
  global_queue,   \* whether the attributes have a fifo to work on
  held,           \* whether the ring is allocated
  ring, in, out,  \* the entries of the kfifo, its two indices
  pc,             \* pc[t]: program point of the callback of t
  loc             \* loc[t]: its operation, result and locals

fifoVars == <<ring, in, out>>
moduleVars == <<phase, global_queue, held>>
vars == <<moduleVars, fifoVars, pc, loc>>

NoCall == [op |-> "none", rc |-> "ok", val |-> None, in |-> None, out |-> None]

Init ==
  /\ phase = "absent" /\ global_queue = FALSE /\ held = FALSE
  /\ ring = [s \in Slots |-> Garbage] /\ in = 0 /\ out = 0
  /\ pc = [t \in Tasks |-> "idle"]
  /\ loc = [t \in Tasks |-> NoCall]

Goto(t, from, to) == pc[t] = from /\ pc' = [pc EXCEPT ![t] = to]
Set(t, field, value) == loc' = [loc EXCEPT ![t][field] = value]
Answer(t, from, rc) == Goto(t, from, "done") /\ Set(t, "rc", rc)

SlotOfSmallMask(i) == i % (Capacity - 1)   \* mutant of Slot

\* The entry an index stands for: kfifo masks the index.
Slot(i) == i % Capacity

\* An index is an unsigned int, and so is the number of entries between two.
Cut(i) == i % Word
Between(i, j) == Cut(i - j)

\* kfifo_len, of the fifo and of the two indices as t has read them.
Length == Between(in, out)
LengthSeen(t) == Between(loc[t].in, loc[t].out)
IndicesRead(t) == loc[t].in # None /\ loc[t].out # None

-----------------------------------------------------------------------------
(***************************************************************************)
(* The module: my_module_init, init_sysfs, exit_sysfs, my_module_exit.     *)
(***************************************************************************)

\* The module goes on with its init or its exit.
Pass(from, to) == phase = from /\ phase' = to

\* kfifo_alloc makes the ring, or not.
FifoInit ==
  /\ Pass("absent", "allocated")
  /\ held' = TRUE
  /\ ring' = [s \in Slots |-> Garbage] /\ in' = 0 /\ out' = 0
  /\ UNCHANGED <<global_queue, pc, loc>>

AllocFails ==
  /\ phase = "absent"
  /\ in' = 0 /\ out' = 0
  /\ UNCHANGED <<moduleVars, ring, pc, loc>>

\* kobject_create_and_add fails: the ring that was allocated stays behind.
KobjectFails ==
  /\ Pass("allocated", "failed")
  /\ UNCHANGED <<global_queue, held, fifoVars, pc, loc>>

SetGlobalQueue ==
  /\ Pass("allocated", "ready")
  /\ global_queue' = TRUE
  /\ UNCHANGED <<held, fifoVars, pc, loc>>

CreateGroupFirst ==   \* mutant of CreateGroup: the attributes appear before global_queue is set
  /\ Pass("allocated", "registering")
  /\ UNCHANGED <<global_queue, held, fifoVars, pc, loc>>

\* sysfs_create_group: the attributes begin to appear.
CreateGroup ==
  /\ Pass("ready", "registering")
  /\ UNCHANGED <<global_queue, held, fifoVars, pc, loc>>

Registered ==
  /\ Pass("registering", "live")
  /\ UNCHANGED <<global_queue, held, fifoVars, pc, loc>>

\* Removing attributes waits for the callbacks in them.
Drained == \A t \in Tasks : pc[t] = "idle"

\* sysfs_create_group takes back what it made and fails.
RegisterFails ==
  /\ Pass("registering", "undoing") /\ Drained
  /\ UNCHANGED <<global_queue, held, fifoVars, pc, loc>>

\* The rest of that path of init_sysfs: the ring stays behind.
InitFails ==
  /\ Pass("undoing", "failed")
  /\ global_queue' = FALSE
  /\ UNCHANGED <<held, fifoVars, pc, loc>>

\* sysfs_remove_group: no new callback from here on, and it returns when none is left.
Remove ==
  /\ Pass("live", "leaving")
  /\ UNCHANGED <<global_queue, held, fifoVars, pc, loc>>

Removed ==
  /\ Pass("leaving", "removed") /\ Drained
  /\ UNCHANGED <<global_queue, held, fifoVars, pc, loc>>

ResetGlobalQueue ==
  /\ Pass("removed", "freeing")
  /\ global_queue' = FALSE
  /\ UNCHANGED <<held, fifoVars, pc, loc>>

\* kfifo_free, the last act of my_module_exit.
KfifoFree ==
  /\ Pass("freeing", "absent")
  /\ held' = FALSE
  /\ in' = 0 /\ out' = 0
  /\ UNCHANGED <<global_queue, ring, pc, loc>>

-----------------------------------------------------------------------------
(***************************************************************************)
(* The attributes (sysfs.c).                                               *)
(***************************************************************************)
Clearing == \E t \in Tasks : loc[t].op = "clear"

\* What users see to themselves, if they do.
MayCall(op) == ClearAlone => ~ Clearing /\ (op = "clear" => Drained)

\* Without a fifo the operations return -EINVAL, and the three questions, which
\* test no pointer, follow a null one: both are "invalid".
Call(t, op, val, at) ==
  /\ phase \in {"registering", "live"} /\ MayCall(op)
  /\ Goto(t, "idle", IF global_queue THEN at ELSE "done")
  /\ loc' = [loc EXCEPT ![t] = [op |-> op, rc |-> IF global_queue THEN "ok" ELSE "invalid",
                                val |-> val, in |-> None, out |-> None]]
  /\ UNCHANGED <<moduleVars, fifoVars>>

EnqueueStore(t, num) == Call(t, "enqueue", num, "test")
DequeueShow(t) == Call(t, "dequeue", None, "test")
PeekShow(t) == Call(t, "peek", None, "test")
\* size_show prints the capacity, whatever the fifo holds.
SizeShow(t) == Call(t, "size", Capacity, "done")
IsEmptyShow(t) == Call(t, "is_empty", None, "test")
IsFullShow(t) == Call(t, "is_full", None, "test")
AvailableShow(t) == Call(t, "available", None, "test")
ClearStore(t) == Call(t, "clear", None, "reset_out")
\* clear_store of a number that is not 1 does nothing and succeeds.
ClearIgnored(t) == Call(t, "ignored", None, "done")

Return(t) ==
  /\ Goto(t, "done", "idle")
  /\ loc' = [loc EXCEPT ![t] = NoCall]
  /\ UNCHANGED <<moduleVars, fifoVars>>

-----------------------------------------------------------------------------
(***************************************************************************)
(* The operations (fifo_ops.c), with the kfifo macros they expand to.      *)
(***************************************************************************)

\* A test of the fifo reads both indices, in an order the compiler chooses.
ReadIn(t) ==
  /\ pc[t] \in {"test", "retest"} /\ loc[t].in = None
  /\ Set(t, "in", in)
  /\ UNCHANGED <<moduleVars, fifoVars, pc>>

ReadOut(t) ==
  /\ pc[t] \in {"test", "retest"} /\ loc[t].out = None
  /\ Set(t, "out", out)
  /\ UNCHANGED <<moduleVars, fifoVars, pc>>

FullOneLate(t) == LengthSeen(t) > Capacity   \* mutant of FullSeen

\* kfifo_is_full, kfifo_is_empty.
FullSeen(t) == LengthSeen(t) >= Capacity
EmptySeen(t) == loc[t].in = loc[t].out

\* kfifo_is_empty, kfifo_is_full, kfifo_avail: what was read is the answer.
Ask(t) ==
  /\ loc[t].op \in {"is_empty", "is_full", "available"} /\ IndicesRead(t)
  /\ Goto(t, "test", "done")
  /\ UNCHANGED <<moduleVars, fifoVars, loc>>

\* kfifo_put: the entry first, then the index.
PutTest(t) ==
  /\ loc[t].op = "enqueue" /\ IndicesRead(t)
  /\ IF FullSeen(t) THEN Answer(t, "test", "full") ELSE Goto(t, "test", "store") /\ UNCHANGED loc
  /\ UNCHANGED <<moduleVars, fifoVars>>

\* The index is still in a register, or read again.
PutStore(t) ==
  /\ Goto(t, "store", "publish")
  /\ \E i \in {loc[t].in, in} : ring' = [ring EXCEPT ![Slot(i)] = loc[t].val]
  /\ UNCHANGED <<moduleVars, in, out, loc>>

\* in++ behind a barrier: a read and a write.
PutPublish(t) ==
  /\ Goto(t, "publish", "published")
  /\ Set(t, "in", in)
  /\ UNCHANGED <<moduleVars, fifoVars>>

PublishedUncut(t) ==   \* mutant of PutPublished: the index is wider than an unsigned int
  /\ Goto(t, "published", "done")
  /\ in' = loc[t].in + 1
  /\ UNCHANGED <<moduleVars, ring, out, loc>>

PutPublished(t) ==
  /\ Goto(t, "published", "done")
  /\ in' = Cut(loc[t].in + 1)
  /\ UNCHANGED <<moduleVars, ring, out, loc>>

\* The test of fifo_dequeue and fifo_peek themselves.
EmptyTest(t) ==
  /\ loc[t].op \in {"dequeue", "peek"} /\ IndicesRead(t)
  /\ IF EmptySeen(t) THEN Answer(t, "test", "empty")
     ELSE /\ Goto(t, "test", "retest")
          /\ loc' = [loc EXCEPT ![t].in = None, ![t].out = None]
  /\ UNCHANGED <<moduleVars, fifoVars>>

\* The test of kfifo_get and kfifo_peek: when it fails, the callback succeeds
\* with a cell that nothing was written to.
GetTest(t) ==
  /\ IndicesRead(t)
  /\ IF EmptySeen(t) THEN Goto(t, "retest", "done") /\ Set(t, "val", Garbage)
     ELSE Goto(t, "retest", "load") /\ UNCHANGED loc
  /\ UNCHANGED <<moduleVars, fifoVars>>

GetLoad(t) ==
  /\ Goto(t, "load", IF loc[t].op = "peek" THEN "done" ELSE "advance")
  /\ \E i \in {loc[t].out, out} : Set(t, "val", ring[Slot(i)])
  /\ UNCHANGED <<moduleVars, fifoVars>>

\* out++ behind a barrier.
GetAdvance(t) ==
  /\ Goto(t, "advance", "advanced")
  /\ Set(t, "out", out)
  /\ UNCHANGED <<moduleVars, fifoVars>>

GetAdvanced(t) ==
  /\ Goto(t, "advanced", "done")
  /\ out' = Cut(loc[t].out + 1)
  /\ UNCHANGED <<moduleVars, ring, in, loc>>

\* kfifo_reset: in = out = 0, which writes out first.
ResetOut(t) ==
  /\ Goto(t, "reset_out", "reset_in")
  /\ out' = 0
  /\ UNCHANGED <<moduleVars, ring, in, loc>>

ResetIn(t) ==
  /\ Goto(t, "reset_in", "done")
  /\ in' = 0
  /\ UNCHANGED <<moduleVars, ring, out, loc>>

-----------------------------------------------------------------------------
Step(t) ==
  \/ ReadIn(t) \/ ReadOut(t) \/ Ask(t)
  \/ PutTest(t) \/ PutStore(t) \/ PutPublish(t) \/ PutPublished(t)
  \/ EmptyTest(t) \/ GetTest(t) \/ GetLoad(t) \/ GetAdvance(t) \/ GetAdvanced(t)
  \/ ResetOut(t) \/ ResetIn(t) \/ Return(t)

Module ==
  \/ FifoInit \/ AllocFails \/ KobjectFails \/ SetGlobalQueue \/ CreateGroup
  \/ Registered \/ RegisterFails \/ InitFails
  \/ Remove \/ Removed \/ ResetGlobalQueue \/ KfifoFree

Next ==
  \/ Module
  \/ \E t \in Writers, num \in Values : EnqueueStore(t, num)
  \/ \E t \in Readers : DequeueShow(t) \/ PeekShow(t)
  \/ \E t \in Tasks : \/ SizeShow(t) \/ IsEmptyShow(t) \/ IsFullShow(t) \/ AvailableShow(t)
                      \/ ClearStore(t) \/ ClearIgnored(t) \/ Step(t)

Spec == Init /\ [][Next]_vars

-----------------------------------------------------------------------------
Phases == {"absent", "allocated", "ready", "registering", "live", "undoing", "failed",
           "leaving", "removed", "freeing"}

TypeOK ==
  /\ phase \in Phases
  /\ global_queue \in BOOLEAN /\ held \in BOOLEAN
  /\ ring \in [Slots -> Values \union {Garbage}] /\ in \in Index /\ out \in Index
  /\ pc \in [Tasks -> {"idle", "test", "retest", "store", "publish", "published", "load",
                       "advance", "advanced", "reset_out", "reset_in", "done"}]
  /\ loc \in [Tasks ->
       [op : {"none", "enqueue", "dequeue", "peek", "size", "is_empty", "is_full", "available",
              "clear", "ignored"},
        rc : {"ok", "full", "empty", "invalid"},
        val : Values \union {Garbage, None, Capacity},
        in : Index \union {None}, out : Index \union {None}]]

\* A callback that is inside the module has the fifo and its ring to work on,
\* from the first attribute that appears to the last that is gone
\* (sysfs.c:313-321, 337-340, main.c:37-44).
FifoThere == \A t \in Tasks : pc[t] # "idle" => held /\ global_queue /\ loc[t].rc # "invalid"

\* t has read the indices and goes by them, or has handed on what they said.
Relying(t) ==
  /\ IndicesRead(t)
  /\ \/ pc[t] \in {"test", "retest", "store", "load"}
     \/ pc[t] = "done" /\ loc[t].op \in {"is_empty", "is_full", "available"}

\* The fifo never holds more than Capacity values, and what one side has read of
\* the indices stays true for it while the other side goes on: the writer finds
\* at least the room it saw, the reader at least the values it saw, and neither
\* sees more than Capacity (fifo_ops.c:44, 56, 61, 66, 79, 86).
SeenHolds ==
  /\ Length <= Capacity \/ \E t \in Tasks : pc[t] = "reset_in"
  /\ \A t \in Tasks :
       Relying(t) => /\ LengthSeen(t) <= Capacity
                     /\ t \in Writers => Length <= LengthSeen(t)
                     /\ t \in Readers => LengthSeen(t) <= Length

Contents ==
  IF held /\ ~ \E t \in Tasks : pc[t] = "reset_in"
  THEN [k \in 1 .. Length |-> ring[Slot(out + k - 1)]] ELSE <<>>

\* The read of the other side's index is where a test that fails is decided.
Refused(t) ==
  /\ loc[t].op = "enqueue"
  /\ \/ pc[t] = "done" /\ loc[t].rc = "full"
     \/ pc[t] = "test" /\ loc[t].out # None /\ Between(in, loc[t].out) >= Capacity
Missed(t) ==
  /\ loc[t].op \in {"dequeue", "peek"}
  /\ \/ pc[t] = "done" /\ loc[t].rc = "empty"
     \/ pc[t] = "test" /\ loc[t].in = out

Wanted(t) ==
  IF /\ loc[t].op = "enqueue" /\ ~ Refused(t)
     /\ pc[t] \in {"test", "store", "publish", "published"}
  THEN loc[t].val ELSE None

Given(t) ==
  IF Refused(t) THEN Full
  ELSE IF Missed(t) THEN Empty
  ELSE IF loc[t].op \in {"dequeue", "peek"} /\ pc[t] = "done" THEN loc[t].val
  ELSE None

Promise == INSTANCE BoundedFifo WITH
  contents <- Contents,
  want <- [t \in Tasks |-> Wanted(t)],
  got <- [t \in Tasks |-> Given(t)]

\* For one writer and one reader the ring is a bounded first-in first-out queue:
\* no value is lost, invented, repeated or out of order, and full and empty are
\* said of a fifo that is (fifo_ops.c:31-155).
IsFifo == Promise!Spec

\* "Error fifo enqueue, queue is full" (sysfs.c:35) is said of a value only when
\* the fifo was seen to hold as many values as it was made for.
FullMeansFull == \A t \in Tasks : loc[t].rc = "full" => LengthSeen(t) = Capacity

=============================================================================
