----------------------------- MODULE CharDevice -----------------------------
(***************************************************************************)
(* The character device of course_work: one buffer and the size of what is *)
(* in it, read, written, cleared and asked for by any number of tasks, and *)
(* the ladder of resources that init climbs and that its error labels and  *)
(* exit climb down.                                                        *)
(*                                                                         *)
(* Nothing orders two calls: a step is one access to the shared buffer or  *)
(* size, and a call that copies moves one byte at a time.  Each task opens *)
(* the device at most once at a time.  The tallies of open, read and write *)
(* and the proc file that prints them are left out.                        *)
(***************************************************************************)
EXTENDS Integers, Sequences

CONSTANTS
  Users,
  Bytes,         \* what users write
  Zero,          \* what memset and the initial buffer hold
  Outside,       \* a byte behind the end of device_buffer
  BUFFER_SIZE,
  MaxMessage,    \* bound: the longest message that is written
  MaxCount       \* bound: the largest count of a read

ASSUME DeviceAssumption ==
  /\ BUFFER_SIZE \in Nat \ {0} /\ MaxMessage \in Nat /\ MaxCount \in Nat
  /\ Outside \notin Bytes \union {Zero}

\* What init sets up, what its labels take down in the order they are written,
\* and what exit takes down.
Ladder == <<"region", "cdev", "class", "device", "proc">>
Labels == <<"device", "class", "cdev", "region">>
ExitLines == <<"proc", "device", "class", "cdev", "region">>
Rungs == {Ladder[k] : k \in DOMAIN Ladder}

VARIABLES
  phase,               \* of the module: absent, init, undo, live, exit
  rung,                \* the entry of its list that init, the labels or exit have reached
  set_up,              \* the resources that exist
  file,                \* file[u]: closed, early (opened during init), open, stray
                       \* (open when the module it came from has gone)
  offset,              \* offset[u]: of the file of u
  device_buffer, data_size,
  pc, loc,             \* pc[u], loc[u]: program point and locals of u's call
  undisturbed,         \* undisturbed[u]: no other call that changes the buffer
                       \* has met the call of u
  stored               \* what the last such call left, or Mixed if others met it

moduleVars == <<phase, rung, set_up>>
dataVars == <<device_buffer, data_size>>
vars == <<moduleVars, file, offset, dataVars, pc, loc, undisturbed, stored>>

Cells == 0 .. BUFFER_SIZE - 1
Mixed == <<Outside>>

\* What a call has: its arguments, how many bytes it goes for and has copied, its
\* result.
CallOf(op, count, bytes, rc) ==
  [op |-> op, count |-> count, bytes |-> bytes, n |-> Len(bytes), done |-> 0, rc |-> rc]
NoCall == CallOf("none", 0, <<>>, 0)

Init ==
  /\ phase = "absent" /\ rung = 0 /\ set_up = {}
  /\ file = [u \in Users |-> "closed"] /\ offset = [u \in Users |-> 0]
  /\ device_buffer = [k \in Cells |-> Zero] /\ data_size = 0
  /\ pc = [u \in Users |-> "idle"] /\ loc = [u \in Users |-> NoCall]
  /\ undisturbed = [u \in Users |-> FALSE] /\ stored = <<>>

-----------------------------------------------------------------------------
(***************************************************************************)
(* The module (main.c).                                                    *)
(***************************************************************************)
BeginInit ==
  /\ phase = "absent" /\ phase' = "init"
  /\ rung' = 1
  /\ UNCHANGED <<set_up, file, offset, dataVars, pc, loc, undisturbed, stored>>

\* A call of the ladder succeeds; after the last one init returns 0.
SetUp ==
  /\ phase = "init"
  /\ set_up' = set_up \union {Ladder[rung]}
  /\ IF rung = Len(Ladder)
     THEN /\ phase' = "live" /\ rung' = 0
          /\ file' = [u \in Users |-> IF file[u] = "early" THEN "open" ELSE file[u]]
     ELSE rung' = rung + 1 /\ UNCHANGED <<phase, file>>
  /\ UNCHANGED <<offset, dataVars, pc, loc, undisturbed, stored>>

ClassUndone(what) ==   \* mutant of Label: the failure of class_create jumps to destroy_class
  CASE what = "proc" -> 1 [] what = "device" -> 2 [] what = "class" -> 2
    [] what = "cdev" -> 4 [] what = "region" -> 5

\* Where in Labels the failure of a call jumps to: destroy_device, destroy_class,
\* delete_cdev, unregister_region, or behind them all to return.
Label(what) ==
  CASE what = "proc" -> 1 [] what = "device" -> 2 [] what = "class" -> 3
    [] what = "cdev" -> 4 [] what = "region" -> 5

SetUpFails ==
  /\ phase = "init" /\ phase' = "undo"
  /\ rung' = Label(Ladder[rung])
  /\ UNCHANGED <<set_up, file, offset, dataVars, pc, loc, undisturbed, stored>>

\* A file of my_fops pins its owner: the kernel refuses to remove the module.
Pinned == \E u \in Users : file[u] = "open"

BeginExit ==
  /\ phase = "live" /\ ~ Pinned
  /\ phase' = "exit" /\ rung' = 1
  /\ UNCHANGED <<set_up, file, offset, dataVars, pc, loc, undisturbed, stored>>

\* A label of my_device_init, which falls through to the next, or a line of
\* my_device_exit.
Lines == IF phase = "undo" THEN Labels ELSE ExitLines

TakeDown ==
  /\ phase \in {"undo", "exit"} /\ rung <= Len(Lines)
  /\ set_up' = set_up \ {Lines[rung]}
  /\ rung' = rung + 1
  /\ UNCHANGED <<phase, file, offset, dataVars, pc, loc, undisturbed, stored>>

\* The module is freed.  The kernel does so after a failed init whoever has the
\* device open; what such a file does from here on is undefined, and not modelled.
Gone ==
  /\ phase \in {"undo", "exit"} /\ rung > Len(Lines)
  /\ phase' = "absent" /\ rung' = 0
  /\ file' = [u \in Users |-> IF file[u] = "closed" THEN "closed" ELSE "stray"]
  /\ pc' = [u \in Users |-> "idle"] /\ loc' = [u \in Users |-> NoCall]
  /\ undisturbed' = [u \in Users |-> FALSE] /\ offset' = [u \in Users |-> 0]
  /\ device_buffer' = [k \in Cells |-> Zero] /\ data_size' = 0 /\ stored' = <<>>
  /\ UNCHANGED set_up

-----------------------------------------------------------------------------
(***************************************************************************)
(* The calls (device_ops.c).                                               *)
(***************************************************************************)
Goto(u, from, to) == pc[u] = from /\ pc' = [pc EXCEPT ![u] = to]
Set(u, field, value) == loc' = [loc EXCEPT ![u][field] = value]
Answer(u, from, rc) == Goto(u, from, "done") /\ Set(u, "rc", rc)
EFAULT == -1

\* The device can be opened from cdev_add to cdev_del.
MyOpen(u) ==
  /\ file[u] = "closed" /\ "cdev" \in set_up /\ phase # "exit"
  /\ file' = [file EXCEPT ![u] = IF phase = "live" THEN "open" ELSE "early"]
  /\ UNCHANGED <<moduleVars, offset, dataVars, pc, loc, undisturbed, stored>>

MyRelease(u) ==
  /\ file[u] \in {"early", "open"} /\ pc[u] = "idle"
  /\ file' = [file EXCEPT ![u] = "closed"] /\ offset' = [offset EXCEPT ![u] = 0]
  /\ UNCHANGED <<moduleVars, dataVars, pc, loc, undisturbed, stored>>

Changes(op) == op \in {"write", "clear"}

Call(u, call, at) ==
  /\ file[u] \in {"early", "open"}
  /\ Goto(u, "idle", at)
  /\ loc' = [loc EXCEPT ![u] = call]
  /\ undisturbed' = [v \in Users |->
       IF v = u THEN \A w \in Users \ {u} : ~ Changes(loc[w].op)
       ELSE undisturbed[v] /\ ~ Changes(call.op)]
  /\ stored' = IF Changes(call.op) THEN Mixed ELSE stored
  /\ UNCHANGED <<moduleVars, file, offset, dataVars>>

WholeCount(count) == count   \* mutant of BytesToCopy

\* min(count, BUFFER_SIZE): the rest of a longer message is not looked at.
BytesToCopy(count) == IF count < BUFFER_SIZE THEN count ELSE BUFFER_SIZE

MyWrite(u, msg) ==
  Call(u, CallOf("write", 0, SubSeq(msg, 1, BytesToCopy(Len(msg))), 0), "copy_in")

\* MY_IOCTL_CLEAR: memset.
MyIoctlClear(u) == Call(u, CallOf("clear", 0, [k \in 1 .. BUFFER_SIZE |-> Zero], 0), "copy_in")

\* MY_IOCTL_GET_SIZE, whose copy_to_user may fail.
MyIoctlGetSize(u) ==
  \E rc \in {data_size, EFAULT} : Call(u, CallOf("get_size", 0, <<>>, rc), "done")

MyRead(u, count) == Call(u, CallOf("read", count, <<>>, 0), "test")

Return(u) ==
  /\ Goto(u, "done", "idle")
  /\ loc' = [loc EXCEPT ![u] = NoCall]
  /\ undisturbed' = [undisturbed EXCEPT ![u] = FALSE]
  /\ UNCHANGED <<moduleVars, file, offset, dataVars, stored>>

CopyIn(u) ==
  /\ pc[u] = "copy_in" /\ loc[u].done < loc[u].n
  /\ device_buffer' = [device_buffer EXCEPT ![loc[u].done] = loc[u].bytes[loc[u].done + 1]]
  /\ Set(u, "done", loc[u].done + 1)
  /\ UNCHANGED <<moduleVars, file, offset, data_size, pc, undisturbed, stored>>

\* A page of the caller is missing: copy_from_user zeroes what it did not copy.
CopyInFaults(u) ==
  /\ loc[u].op = "write" /\ loc[u].done < loc[u].n
  /\ Goto(u, "copy_in", "set_size")
  /\ device_buffer' = [k \in Cells |-> IF k \in loc[u].done .. loc[u].n - 1 THEN Zero
                                       ELSE device_buffer[k]]
  /\ UNCHANGED <<moduleVars, file, offset, data_size, loc, undisturbed, stored>>

CopiedIn(u) ==
  /\ loc[u].done = loc[u].n
  /\ Goto(u, "copy_in", "set_size")
  /\ UNCHANGED <<moduleVars, file, offset, dataVars, loc, undisturbed, stored>>

AskedFor(u) == IF loc[u].op = "write" THEN loc[u].n ELSE 0   \* mutant of NewSize

NewSize(u) == IF loc[u].op = "write" THEN loc[u].done ELSE 0

SetSize(u) ==
  /\ Goto(u, "set_size", IF loc[u].op = "write" THEN "result" ELSE "done")
  /\ data_size' = NewSize(u)
  /\ stored' = IF undisturbed[u] THEN SubSeq(loc[u].bytes, 1, NewSize(u)) ELSE Mixed
  /\ UNCHANGED <<moduleVars, file, offset, device_buffer, loc, undisturbed>>

\* my_write goes by data_size again for its result, which the compiler may have
\* kept or read again; it reads it once more behind the log message.
WriteFails(u) ==
  /\ 0 \in {loc[u].done, data_size} /\ loc[u].n # 0
  /\ Answer(u, "result", EFAULT)
  /\ UNCHANGED <<moduleVars, file, offset, dataVars, undisturbed, stored>>

WriteSucceeds(u) ==
  /\ {loc[u].done, data_size} # {0} \/ loc[u].n = 0
  /\ Goto(u, "result", "report")
  /\ UNCHANGED <<moduleVars, file, offset, dataVars, loc, undisturbed, stored>>

WriteResult(u) ==
  /\ \E rc \in {loc[u].done, data_size} : Answer(u, "report", rc)
  /\ UNCHANGED <<moduleVars, file, offset, dataVars, undisturbed, stored>>

\* At the end of what the device holds.
ReadTest(u) ==
  /\ IF offset[u] >= data_size THEN Answer(u, "test", 0)
     ELSE Goto(u, "test", "left") /\ Set(u, "n", data_size)
  /\ UNCHANGED <<moduleVars, file, offset, dataVars, undisturbed, stored>>

LeftFromStart(u, size) == IF loc[u].count < size THEN loc[u].count ELSE size   \* mutant of Left

\* min(count, bytes_left), where bytes_left is a size_t: a size below the offset
\* leaves more than any count.
Left(u, size) ==
  IF size < offset[u] \/ loc[u].count < size - offset[u] THEN loc[u].count ELSE size - offset[u]

\* data_size, kept or read again.
ReadLeft(u) ==
  /\ Goto(u, "left", "copy_out")
  /\ \E size \in {loc[u].n, data_size} : Set(u, "n", Left(u, size))
  /\ UNCHANGED <<moduleVars, file, offset, dataVars, undisturbed, stored>>

CopyOut(u) ==
  /\ pc[u] = "copy_out" /\ loc[u].done < loc[u].n
  /\ LET k == offset[u] + loc[u].done
     IN  loc' = [loc EXCEPT ![u].done = @ + 1,
           ![u].bytes = Append(@, IF k \in Cells THEN device_buffer[k] ELSE Outside)]
  /\ UNCHANGED <<moduleVars, file, offset, dataVars, pc, undisturbed, stored>>

\* copy_to_user ends, at the end or at a page that is missing.
ReadEnd(u) ==
  /\ Answer(u, "copy_out", IF loc[u].done = 0 THEN EFAULT ELSE loc[u].done)
  /\ offset' = [offset EXCEPT ![u] = @ + loc[u].done]
  /\ UNCHANGED <<moduleVars, file, dataVars, undisturbed, stored>>

-----------------------------------------------------------------------------
Step(u) ==
  \/ CopyIn(u) \/ CopyInFaults(u) \/ CopiedIn(u) \/ SetSize(u)
  \/ WriteFails(u) \/ WriteSucceeds(u) \/ WriteResult(u)
  \/ ReadTest(u) \/ ReadLeft(u) \/ CopyOut(u) \/ ReadEnd(u) \/ Return(u)

Messages == UNION {[1 .. n -> Bytes] : n \in 0 .. MaxMessage}

Next ==
  \/ BeginInit \/ SetUp \/ SetUpFails \/ BeginExit \/ TakeDown \/ Gone
  \/ \E u \in Users :
       \/ MyOpen(u) \/ MyRelease(u)
       \/ \E msg \in Messages : MyWrite(u, msg)
       \/ \E count \in 0 .. MaxCount : MyRead(u, count)
       \/ MyIoctlClear(u) \/ MyIoctlGetSize(u) \/ Step(u)

Spec == Init /\ [][Next]_vars

-----------------------------------------------------------------------------
Calling == {u \in Users : pc[u] # "idle"}

TypeOK ==
  /\ phase \in {"absent", "init", "undo", "live", "exit"}
  /\ rung \in 0 .. Len(ExitLines) + 1 /\ set_up \subseteq Rungs
  /\ file \in [Users -> {"closed", "early", "open", "stray"}]
  /\ offset \in [Users -> Nat]
  /\ device_buffer \in [Cells -> Bytes \union {Zero}] /\ data_size \in 0 .. BUFFER_SIZE
  /\ pc \in [Users -> {"idle", "copy_in", "set_size", "result", "report", "test", "left",
                       "copy_out", "done"}]
  /\ undisturbed \in [Users -> BOOLEAN]
  /\ stored = Mixed \/ stored \in UNION {[1 .. n -> Bytes] : n \in 0 .. BUFFER_SIZE}

\* A resource exists only with those it is built on, the labels and exit take
\* down only what was set up, and a module that is not there has left nothing
\* (main.c:19-96).
LadderSound ==
  /\ \A k \in 2 .. Len(Ladder) : Ladder[k] \in set_up => Ladder[k - 1] \in set_up
  /\ phase \in {"undo", "exit"} /\ rung <= Len(Lines) => Lines[rung] \in set_up
  /\ phase = "absent" => set_up = {}

\* Between calls the device holds what the last write or clear left that met no
\* other: the bytes it copied, and as many (device_ops.c:27-29, 88-89).
HoldsStored ==
  stored # Mixed /\ (\A u \in Users : ~ Changes(loc[u].op)) =>
    /\ data_size = Len(stored)
    /\ \A k \in 1 .. Len(stored) : device_buffer[k - 1] = stored[k]

\* A call that met no write and no clear tells the truth: a read hands out what
\* the buffer holds between the old and the new offset and no byte more, a write
\* reports what it has stored, and the size is that of what the device holds
\* (device_ops.c:31-36, 47-64, 96).
UndisturbedTrue ==
  \A u \in Users : pc[u] = "done" /\ undisturbed[u] =>
    LET rc == loc[u].rc
    IN  /\ loc[u].op = "read" /\ rc > 0 =>
             /\ offset[u] <= data_size
             /\ loc[u].bytes = [k \in 1 .. rc |-> device_buffer[offset[u] - rc + k - 1]]
        /\ loc[u].op = "read" /\ rc = 0 => offset[u] >= data_size
        /\ loc[u].op = "write" => rc = IF loc[u].done = 0 /\ loc[u].n > 0 THEN EFAULT ELSE loc[u].done
        /\ loc[u].op = "get_size" => rc \in {data_size, EFAULT}

\* A write says "written %zu bytes" of the bytes it has written (device_ops.c:34),
\* whoever else writes.
WrittenMeansWritten ==
  \A u \in Users :
    pc[u] = "done" /\ loc[u].op = "write" /\ loc[u].rc # EFAULT => loc[u].rc = loc[u].done

=============================================================================
