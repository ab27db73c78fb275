-------------------------- MODULE CharDeviceProofs --------------------------
(***************************************************************************)
(* Proofs about CharDevice, for every set of users, buffer size and bound  *)
(* on the counts.                                                          *)
(*                                                                         *)
(* The first half is the module: which resources exist is a function of    *)
(* what init, the labels or exit have reached (LadderShape), and           *)
(* which files can be open of the phase (FileShape).  The second half is   *)
(* the buffer: what a call that met no other has put there or taken from   *)
(* there so far.                                                           *)
(***************************************************************************)
EXTENDS CharDevice, SequenceTheorems, TLAPS

\* The resources up to rung k.
UpTo(k) == {Ladder[j] : j \in 1 .. k}

\* The rung up to which the resources exist: the labels and exit count down.
Top ==
  CASE phase = "absent" -> 0
    [] phase = "init" -> rung - 1
    [] phase = "live" -> 5
    [] phase = "undo" -> 5 - rung
    [] phase = "exit" -> 6 - rung

LadderShape ==
  /\ phase \in {"absent", "init", "undo", "live", "exit"}
  /\ rung \in 0 .. 6
  /\ phase \in {"init", "undo"} => rung \in 1 .. 5
  /\ phase = "exit" => rung \in 1 .. 6
  /\ set_up = UpTo(Top)

FileShape ==
  /\ file \in [Users -> {"closed", "early", "open", "stray"}]
  /\ \A u \in Users : /\ file[u] = "open" => phase = "live"
                      /\ file[u] = "early" => phase \in {"init", "undo"}

-----------------------------------------------------------------------------
LEMMA LadderFacts ==
  /\ Len(Ladder) = 5 /\ DOMAIN Ladder = 1 .. 5
  /\ \A j, k \in 1 .. 5 : Ladder[j] = Ladder[k] => j = k
  /\ UpTo(0) = {}
  /\ \A k \in 1 .. 5 : /\ UpTo(k - 1) \union {Ladder[k]} = UpTo(k)
                       /\ UpTo(k) \ {Ladder[k]} = UpTo(k - 1)
                       /\ \A j \in 0 .. 5 : Ladder[k] \in UpTo(j) <=> k <= j
<1>1. Len(Ladder) = 5 /\ DOMAIN Ladder = 1 .. 5
  BY DEF Ladder
<1>2. \A j, k \in 1 .. 5 : Ladder[j] = Ladder[k] => j = k
  <2>1. /\ Ladder[1] = "region" /\ Ladder[2] = "cdev" /\ Ladder[3] = "class"
        /\ Ladder[4] = "device" /\ Ladder[5] = "proc"
    BY DEF Ladder
  <2>2. \A j \in 1 .. 5 : j = 1 \/ j = 2 \/ j = 3 \/ j = 4 \/ j = 5
    OBVIOUS
  <2> QED
    BY <2>1, <2>2
<1>3. UpTo(0) = {}
  BY DEF UpTo
<1>4. ASSUME NEW k \in 1 .. 5
      PROVE  /\ UpTo(k - 1) \union {Ladder[k]} = UpTo(k)
             /\ UpTo(k) \ {Ladder[k]} = UpTo(k - 1)
             /\ \A j \in 0 .. 5 : Ladder[k] \in UpTo(j) <=> k <= j
  <2>1. \A j \in 0 .. 5 : Ladder[k] \in UpTo(j) <=> k <= j
    BY <1>2 DEF UpTo
  <2>2. \A j \in 1 .. k : j = k \/ j \in 1 .. k - 1
    OBVIOUS
  <2>3. UpTo(k - 1) \union {Ladder[k]} = UpTo(k)
    BY <2>2 DEF UpTo
  <2>4. Ladder[k] \notin UpTo(k - 1)
    BY <2>1
  <2> QED
    BY <2>1, <2>3, <2>4
<1> QED
  BY <1>1, <1>2, <1>3, <1>4

\* The labels and exit go down the ladder, the labels from the last rung but one.
LEMMA LineFacts ==
  /\ Len(Labels) = 4 /\ \A k \in 1 .. 4 : Labels[k] = Ladder[5 - k]
  /\ Len(ExitLines) = 5 /\ \A k \in 1 .. 5 : ExitLines[k] = Ladder[6 - k]
  /\ \A k \in 1 .. 5 : Label(Ladder[k]) = 6 - k
<1>1. /\ Ladder[1] = "region" /\ Ladder[2] = "cdev" /\ Ladder[3] = "class"
      /\ Ladder[4] = "device" /\ Ladder[5] = "proc"
  BY DEF Ladder
<1>2. /\ Labels[1] = "device" /\ Labels[2] = "class" /\ Labels[3] = "cdev"
      /\ Labels[4] = "region" /\ Len(Labels) = 4
  BY DEF Labels
<1>3. /\ ExitLines[1] = "proc" /\ ExitLines[2] = "device" /\ ExitLines[3] = "class"
      /\ ExitLines[4] = "cdev" /\ ExitLines[5] = "region" /\ Len(ExitLines) = 5
  BY DEF ExitLines
<1>4. \A k \in 1 .. 5 : k = 1 \/ k = 2 \/ k = 3 \/ k = 4 \/ k = 5
  OBVIOUS
<1>5. \A k \in 1 .. 4 : Labels[k] = Ladder[5 - k]
  <2>1. \A k \in 1 .. 4 : k = 1 \/ k = 2 \/ k = 3 \/ k = 4
    OBVIOUS
  <2> QED
    BY <1>1, <1>2, <2>1
<1>6. \A k \in 1 .. 5 : ExitLines[k] = Ladder[6 - k]
  BY <1>1, <1>3, <1>4
<1>7. \A k \in 1 .. 5 : Label(Ladder[k]) = 6 - k
  BY <1>1, <1>4 DEF Label
<1> QED
  BY <1>2, <1>3, <1>5, <1>6, <1>7

\* What the next label or line takes down is the top of the ladder.
LEMMA DownFacts ==
  ASSUME LadderShape, phase \in {"undo", "exit"}
  PROVE  /\ rung \in 1 .. Len(Lines) + 1
         /\ rung <= Len(Lines) => Top \in 1 .. 5 /\ Lines[rung] = Ladder[Top]
         /\ rung > Len(Lines) => Top = 0
<1>1. CASE phase = "undo"
  <2>1. Lines = Labels /\ Top = 5 - rung /\ rung \in 1 .. 5
    BY <1>1 DEF Lines, Top, LadderShape
  <2>2. rung <= 4 => Labels[rung] = Ladder[5 - rung]
    BY <2>1, LineFacts
  <2> HIDE DEF Top
  <2> QED
    BY <2>1, <2>2, LineFacts
<1>2. CASE phase = "exit"
  <2>1. Lines = ExitLines /\ Top = 6 - rung /\ rung \in 1 .. 6
    BY <1>2 DEF Lines, Top, LadderShape
  <2>2. rung <= 5 => ExitLines[rung] = Ladder[6 - rung]
    BY <2>1, LineFacts
  <2> HIDE DEF Top
  <2> QED
    BY <2>1, <2>2, LineFacts
<1> QED
  BY <1>1, <1>2

LEMMA LadderInit == Init => LadderShape /\ FileShape
BY LadderFacts DEF Init, LadderShape, FileShape, Top

LEMMA LadderNext == LadderShape /\ [Next]_vars => LadderShape'
<1> SUFFICES ASSUME LadderShape, [Next]_vars PROVE LadderShape'
  OBVIOUS
<1> USE DEF LadderShape, Top
<1>1. CASE BeginInit
  BY <1>1, LadderFacts DEF BeginInit
<1>2. CASE SetUp
  <2>1. rung \in 1 .. 5 /\ set_up = UpTo(rung - 1) /\ set_up' = UpTo(rung)
    BY <1>2, LadderFacts DEF SetUp
  <2>2. CASE rung = 5
    BY <1>2, <2>1, <2>2, LadderFacts DEF SetUp
  <2>3. CASE rung # 5
    <3>1. phase' = "init" /\ rung' = rung + 1 /\ rung' - 1 = rung
      BY <1>2, <2>1, <2>3, LadderFacts DEF SetUp
    <3> QED
      BY <2>1, <2>3, <3>1
  <2> QED
    BY <2>2, <2>3
<1>3. CASE SetUpFails
  <2>1. rung \in 1 .. 5 /\ rung' = 6 - rung
    BY <1>3, LineFacts DEF SetUpFails
  <2> QED
    BY <1>3, <2>1 DEF SetUpFails
<1>4. CASE BeginExit
  BY <1>4, LadderFacts DEF BeginExit
<1>5. CASE TakeDown
  <2>1. Top \in 1 .. 5 /\ Lines[rung] = Ladder[Top] /\ rung \in 1 .. 5
    <3> HIDE DEF LadderShape, Top
    <3>1. phase \in {"undo", "exit"} /\ rung <= Len(Lines)
      BY <1>5 DEF TakeDown
    <3>2. Len(Lines) = 4 \/ Len(Lines) = 5
      BY LineFacts DEF Lines
    <3> QED
      BY <3>1, <3>2, DownFacts
  <2>2. set_up' = UpTo(Top - 1)
    BY <1>5, <2>1, LadderFacts DEF TakeDown
  <2>3. phase' = phase /\ rung' = rung + 1 /\ (phase = "undo" => rung <= 4)
    BY <1>5, LineFacts DEF TakeDown, Lines
  <2>4. Top' = Top - 1
    BY <1>5, <2>1, <2>3 DEF TakeDown
  <2>5. phase \in {"undo", "exit"}
    BY <1>5 DEF TakeDown
  <2> HIDE DEF Top
  <2> QED
    BY <2>1, <2>2, <2>3, <2>4, <2>5
<1>6. CASE Gone
  <2>1. set_up = UpTo(0)
    <3>1. phase \in {"undo", "exit"} /\ rung > Len(Lines)
      BY <1>6 DEF Gone
    <3>2. Top = 0
      BY <3>1, DownFacts
    <3> QED
      BY <3>2
  <2> QED
    BY <1>6, <2>1 DEF Gone
<1>7. ASSUME UNCHANGED moduleVars PROVE LadderShape'
  BY <1>7 DEF moduleVars
<1>8. ASSUME NEW u \in Users, MyOpen(u) \/ MyRelease(u) \/ Step(u) PROVE UNCHANGED moduleVars
  BY <1>8 DEF MyOpen, MyRelease, Step, CopyIn, CopyInFaults, CopiedIn, SetSize, WriteFails,
     WriteSucceeds, WriteResult, ReadTest, ReadLeft, CopyOut, ReadEnd, Return
<1>9. ASSUME NEW u \in Users, NEW call, NEW at, Call(u, call, at) PROVE UNCHANGED moduleVars
  BY <1>9 DEF Call
<1> QED
  BY <1>1, <1>2, <1>3, <1>4, <1>5, <1>6, <1>7, <1>8, <1>9
     DEF Next, vars, MyWrite, MyRead, MyIoctlClear, MyIoctlGetSize, moduleVars

LEMMA FileNext == LadderShape /\ FileShape /\ [Next]_vars => FileShape'
<1> SUFFICES ASSUME LadderShape, FileShape, [Next]_vars PROVE FileShape'
  OBVIOUS
<1> USE DEF FileShape
<1>1. CASE BeginInit \/ SetUp \/ SetUpFails \/ BeginExit \/ TakeDown \/ Gone
  BY <1>1 DEF BeginInit, SetUp, SetUpFails, BeginExit, TakeDown, Gone, Pinned
<1>2. ASSUME NEW u \in Users, MyOpen(u) PROVE FileShape'
  <2>1. phase \in {"init", "undo", "live"}
    BY <1>2, LadderFacts DEF MyOpen, LadderShape, Top
  <2> QED
    BY <1>2, <2>1 DEF MyOpen, moduleVars
<1>3. ASSUME NEW u \in Users, MyRelease(u) PROVE FileShape'
  BY <1>3 DEF MyRelease, moduleVars
<1>4. ASSUME UNCHANGED <<phase, file>> PROVE FileShape'
  BY <1>4
<1>5. ASSUME NEW u \in Users, Step(u) PROVE UNCHANGED <<phase, file>>
  BY <1>5 DEF Step, CopyIn, CopyInFaults, CopiedIn, SetSize, WriteFails, WriteSucceeds, WriteResult,
     ReadTest, ReadLeft, CopyOut, ReadEnd, Return, moduleVars
<1>6. ASSUME NEW u \in Users, NEW call, NEW at, Call(u, call, at) PROVE UNCHANGED <<phase, file>>
  BY <1>6 DEF Call, moduleVars
<1> QED
  BY <1>1, <1>2, <1>3, <1>4, <1>5, <1>6
     DEF Next, vars, moduleVars, MyWrite, MyRead, MyIoctlClear, MyIoctlGetSize

LEMMA ModuleHolds == Spec => [](LadderShape /\ FileShape)
<1> QED
  BY LadderInit, LadderNext, FileNext, PTL DEF Spec

\* However far init gets, the labels take down what it set up and nothing else.
THEOREM LadderSoundCorrect == Spec => []LadderSound
<1>1. LadderShape => LadderSound
  <2> SUFFICES ASSUME LadderShape PROVE LadderSound
    OBVIOUS
  <2>1. Top \in 0 .. 5
    BY DEF LadderShape, Top
  <2>2. \A k \in 2 .. 5 : Ladder[k] \in set_up => Ladder[k - 1] \in set_up
    BY <2>1, LadderFacts DEF LadderShape
  <2>3. phase \in {"undo", "exit"} /\ rung <= Len(Lines) => Lines[rung] \in set_up
    <3> SUFFICES ASSUME phase \in {"undo", "exit"}, rung <= Len(Lines)
                 PROVE  Lines[rung] \in set_up
      OBVIOUS
    <3>1. Top \in 1 .. 5 /\ Lines[rung] = Ladder[Top]
      BY DownFacts
    <3> QED
      BY <3>1, LadderFacts DEF LadderShape
  <2>4. phase = "absent" => set_up = {}
    BY LadderFacts DEF LadderShape, Top
  <2> QED
    BY <2>2, <2>3, <2>4, LadderFacts DEF LadderSound
<1> QED
  BY <1>1, ModuleHolds, PTL

-----------------------------------------------------------------------------
(***************************************************************************)
(* The calls: what each holds at each of its program points.               *)
(***************************************************************************)
Memory == Bytes \union {Zero, Outside}

CallRecord ==
  [op : {"none", "write", "clear", "get_size", "read"}, count : Nat, bytes : Seq(Memory),
   n : Nat, done : Nat, rc : Int]

DataTypes ==
  /\ device_buffer \in [Cells -> Bytes \union {Zero}] /\ data_size \in 0 .. BUFFER_SIZE
  /\ offset \in [Users -> Nat]
  /\ pc \in [Users -> {"idle", "copy_in", "set_size", "result", "report", "test", "left",
                       "copy_out", "done"}]
  /\ loc \in [Users -> CallRecord]
  /\ undisturbed \in [Users -> BOOLEAN]

CallShape(u) ==
  /\ pc[u] = "idle" => loc[u] = NoCall /\ ~ undisturbed[u]
  /\ pc[u] \in {"copy_in", "set_size"} => Changes(loc[u].op)
  /\ pc[u] \in {"result", "report"} => loc[u].op = "write"
  /\ pc[u] \in {"test", "left", "copy_out"} => loc[u].op = "read"
  /\ Changes(loc[u].op) =>
       /\ loc[u].bytes \in Seq(Bytes \union {Zero}) /\ Len(loc[u].bytes) = loc[u].n
       /\ loc[u].n <= BUFFER_SIZE /\ loc[u].done <= loc[u].n
  /\ loc[u].op = "write" => loc[u].bytes \in Seq(Bytes)
  /\ loc[u].op = "read" =>
       /\ Len(loc[u].bytes) = loc[u].done
       /\ pc[u] \in {"test", "left"} => loc[u].done = 0

CInv == DataTypes /\ \A u \in Users : CallShape(u)

LEMMA CallInit == Init => CInv
<1> SUFFICES ASSUME Init PROVE CInv
  OBVIOUS
<1>1. NoCall \in CallRecord /\ Len(<<>>) = 0
  BY EmptySeq DEF NoCall, CallOf, CallRecord
<1> QED
  BY <1>1, DeviceAssumption DEF Init, CInv, DataTypes, CallShape, NoCall, CallOf, Changes

LEMMA CallModule ==
  ASSUME CInv, BeginInit \/ SetUp \/ SetUpFails \/ BeginExit \/ TakeDown \/ Gone \/ UNCHANGED vars
  PROVE  CInv'
<1>1. CASE UNCHANGED <<offset, dataVars, pc, loc, undisturbed>>
  BY <1>1 DEF CInv, DataTypes, CallShape, dataVars
<1>2. CASE Gone
  <2>1. NoCall \in CallRecord /\ Len(<<>>) = 0
    BY EmptySeq DEF NoCall, CallOf, CallRecord
  <2> QED
    BY <1>2, <2>1, DeviceAssumption DEF Gone, CInv, DataTypes, CallShape, NoCall, CallOf, Changes
<1> QED
  BY <1>1, <1>2 DEF BeginInit, SetUp, SetUpFails, BeginExit, TakeDown, vars, dataVars

LEMMA CallFile ==
  ASSUME CInv, NEW u \in Users, MyOpen(u) \/ MyRelease(u)
  PROVE  CInv'
<1>1. UNCHANGED <<device_buffer, data_size, pc, loc, undisturbed>>
  BY DEF MyOpen, MyRelease, dataVars
<1>2. offset' \in [Users -> Nat]
  BY DEF MyOpen, MyRelease, CInv, DataTypes
<1>3. DataTypes'
  BY <1>1, <1>2 DEF CInv, DataTypes
<1>4. \A v \in Users : CallShape(v)'
  BY <1>1 DEF CInv, CallShape
<1> QED
  BY <1>3, <1>4 DEF CInv

\* The calls, as the record each begins with and the program point it begins at.
Begins(call, at) ==
  /\ call \in CallRecord /\ call.done = 0
  /\ \/ /\ call.op = "write" /\ at = "copy_in" /\ call.bytes \in Seq(Bytes)
        /\ call.n = Len(call.bytes) /\ call.n <= BUFFER_SIZE
     \/ /\ call.op = "clear" /\ at = "copy_in" /\ call.bytes \in Seq({Zero})
        /\ call.n = Len(call.bytes) /\ call.n <= BUFFER_SIZE
     \/ call.op = "get_size" /\ at = "done" /\ call.rc \in {data_size, EFAULT}
     \/ call.op = "read" /\ at = "test" /\ call.bytes = <<>>

LEMMA CallBegins ==
  ASSUME CInv, NEW u \in Users,
         \/ \E msg \in Messages : MyWrite(u, msg)
         \/ \E count \in 0 .. MaxCount : MyRead(u, count)
         \/ MyIoctlClear(u) \/ MyIoctlGetSize(u)
  PROVE  \E call, at : Begins(call, at) /\ Call(u, call, at)
<1>1. ASSUME NEW msg \in Messages, MyWrite(u, msg)
      PROVE  \E call, at : Begins(call, at) /\ Call(u, call, at)
  <2>1. PICK n \in 0 .. MaxMessage : msg \in [1 .. n -> Bytes]
    BY DEF Messages
  <2>2. msg \in Seq(Bytes) /\ Len(msg) = n /\ n \in Nat
    BY <2>1, DeviceAssumption, SeqDef, LenProperties
  <2> DEFINE b == BytesToCopy(Len(msg))
             part == SubSeq(msg, 1, b)
             call == CallOf("write", 0, part, 0)
  <2>3. b \in Nat /\ b <= BUFFER_SIZE /\ b <= Len(msg)
    BY <2>2, DeviceAssumption DEF BytesToCopy
  <2>4. part \in Seq(Bytes) /\ Len(part) = b /\ part \in Seq(Memory)
    <3>1. part \in Seq(Bytes) /\ Len(part) = b
      BY <2>2, <2>3, SubSeqProperties
    <3>2. \A k \in 1 .. Len(part) : part[k] \in Memory
      BY <3>1 DEF Memory
    <3> HIDE DEF part
    <3>3. part \in Seq(Memory)
      BY <3>1, <3>2, ElementOfSeq, LenProperties, SeqDef
    <3> QED
      BY <3>1, <3>3
  <2>5. Begins(call, "copy_in")
    <3> HIDE DEF b, part
    <3> QED
      BY <2>3, <2>4, DeviceAssumption DEF Begins, CallRecord, CallOf
  <2> QED
    BY <1>1, <2>5 DEF MyWrite
<1>2. ASSUME NEW count \in 0 .. MaxCount, MyRead(u, count)
      PROVE  \E call, at : Begins(call, at) /\ Call(u, call, at)
  <2> DEFINE call == CallOf("read", count, <<>>, 0)
  <2>1. Begins(call, "test")
    BY <1>2, DeviceAssumption, EmptySeq DEF Begins, CallRecord, CallOf
  <2> QED
    BY <1>2, <2>1 DEF MyRead
<1>3. CASE MyIoctlClear(u)
  <2> DEFINE zeros == [k \in 1 .. BUFFER_SIZE |-> Zero]
             call == CallOf("clear", 0, zeros, 0)
  <2>1. zeros \in [1 .. BUFFER_SIZE -> {Zero}] /\ BUFFER_SIZE \in Nat
    BY DeviceAssumption
  <2>2. zeros \in Seq({Zero}) /\ zeros \in Seq(Memory) /\ Len(zeros) = BUFFER_SIZE
    BY <2>1, SeqDef, LenProperties DEF Memory
  <2> HIDE DEF zeros
  <2>3. Begins(call, "copy_in")
    BY <2>1, <2>2 DEF Begins, CallRecord, CallOf
  <2> QED
    BY <1>3, <2>3 DEF MyIoctlClear, zeros
<1>4. CASE MyIoctlGetSize(u)
  <2>1. PICK rc \in {data_size, EFAULT} :
          Call(u, CallOf("get_size", 0, <<>>, rc), "done")
    BY <1>4 DEF MyIoctlGetSize
  <2> DEFINE call == CallOf("get_size", 0, <<>>, rc)
  <2>2. Begins(call, "done")
    BY <2>1, EmptySeq DEF Begins, CallRecord, CallOf, CInv, DataTypes, EFAULT
  <2> QED
    BY <2>1, <2>2
<1> QED
  BY <1>1, <1>2, <1>3, <1>4

LEMMA CallStart ==
  ASSUME CInv, NEW u \in Users, NEW call, NEW at, Begins(call, at), Call(u, call, at)
  PROVE  /\ CInv'
         /\ \A v \in Users \ {u} : pc'[v] = pc[v] /\ loc'[v] = loc[v]
         /\ loc'[u] = call /\ pc'[u] = at /\ UNCHANGED <<dataVars, offset>>
<1> USE DEF CInv, DataTypes
<1>1. /\ pc[u] = "idle" /\ loc'[u] = call /\ pc'[u] = at /\ UNCHANGED <<dataVars, offset>>
      /\ \A v \in Users \ {u} : pc'[v] = pc[v] /\ loc'[v] = loc[v]
  BY DEF Call, Goto
<1>2. DataTypes'
  <2>1. at \in {"copy_in", "done", "test"} /\ call \in CallRecord
    BY DEF Begins
  <2>2. undisturbed' \in [Users -> BOOLEAN]
    BY DEF Call
  <2> QED
    BY <2>1, <2>2 DEF Call, Goto, dataVars
<1>3. CallShape(u)'
  <2>1. Changes(call.op) => call.bytes \in Seq(Bytes \union {Zero})
    BY SeqMonotonic DEF Begins, Changes
  <2>2. BUFFER_SIZE \in Nat /\ Len(<<>>) = 0 /\ call.n \in Nat
    BY DeviceAssumption, EmptySeq DEF Begins, CallRecord
  <2> QED
    BY <1>1, <2>1, <2>2 DEF Begins, CallShape, Changes
<1>4. ASSUME NEW v \in Users \ {u} PROVE CallShape(v)'
  <2>1. undisturbed'[v] => undisturbed[v]
    BY DEF Call
  <2> QED
    BY <1>1, <2>1 DEF CallShape
<1> QED
  BY <1>1, <1>2, <1>3, <1>4

\* A step of u leaves the other calls alone.
LEMMA StepOthers ==
  ASSUME CInv, NEW u \in Users, Step(u), NEW v \in Users \ {u}
  PROVE  /\ pc'[v] = pc[v] /\ loc'[v] = loc[v] /\ offset'[v] = offset[v]
         /\ undisturbed'[v] = undisturbed[v]
BY DEF CInv, DataTypes, Step, CopyIn, CopyInFaults, CopiedIn, SetSize, WriteFails, WriteSucceeds,
   WriteResult, ReadTest, ReadLeft, CopyOut, ReadEnd, Return, Goto, Answer, Set

\* An assignment to one local leaves the others.
LEMMA SetLocal ==
  ASSUME DataTypes, NEW u \in Users
  PROVE  /\ \A x \in Nat : Set(u, "n", x) =>
              /\ loc' \in [Users -> CallRecord] /\ loc'[u].n = x
              /\ loc'[u].op = loc[u].op /\ loc'[u].count = loc[u].count
              /\ loc'[u].bytes = loc[u].bytes /\ loc'[u].done = loc[u].done /\ loc'[u].rc = loc[u].rc
         /\ \A x \in Nat : Set(u, "done", x) =>
              /\ loc' \in [Users -> CallRecord] /\ loc'[u].done = x
              /\ loc'[u].op = loc[u].op /\ loc'[u].count = loc[u].count
              /\ loc'[u].bytes = loc[u].bytes /\ loc'[u].n = loc[u].n /\ loc'[u].rc = loc[u].rc
         /\ \A x \in Int : Set(u, "rc", x) =>
              /\ loc' \in [Users -> CallRecord] /\ loc'[u].rc = x
              /\ loc'[u].op = loc[u].op /\ loc'[u].count = loc[u].count
              /\ loc'[u].bytes = loc[u].bytes /\ loc'[u].n = loc[u].n /\ loc'[u].done = loc[u].done
<1>1. loc[u] \in CallRecord /\ u \in DOMAIN loc /\ loc \in [Users -> CallRecord]
  BY DEF DataTypes
<1>2. ASSUME NEW x \in Nat, Set(u, "n", x)
      PROVE  /\ loc' \in [Users -> CallRecord] /\ loc'[u].n = x
             /\ loc'[u].op = loc[u].op
             /\ loc'[u].count = loc[u].count
             /\ loc'[u].bytes = loc[u].bytes
             /\ loc'[u].done = loc[u].done
             /\ loc'[u].rc = loc[u].rc
  <2>1. loc' = [loc EXCEPT ![u].n = x]
    BY <1>2 DEF Set
  <2>2. loc'[u] = [loc[u] EXCEPT !.n = x]
    BY <1>1, <2>1
  <2>3. loc'[u] \in CallRecord
    BY <1>1, <2>2 DEF CallRecord
  <2>4. loc' = [loc EXCEPT ![u] = loc'[u]]
    BY <1>1, <2>1, <2>2
  <2>5. loc' \in [Users -> CallRecord]
    BY <1>1, <2>3, <2>4
  <2> QED
    BY <1>1, <2>2, <2>5 DEF CallRecord
<1>3. ASSUME NEW x \in Nat, Set(u, "done", x)
      PROVE  /\ loc' \in [Users -> CallRecord] /\ loc'[u].done = x
             /\ loc'[u].op = loc[u].op
             /\ loc'[u].count = loc[u].count
             /\ loc'[u].bytes = loc[u].bytes
             /\ loc'[u].n = loc[u].n
             /\ loc'[u].rc = loc[u].rc
  <2>1. loc' = [loc EXCEPT ![u].done = x]
    BY <1>3 DEF Set
  <2>2. loc'[u] = [loc[u] EXCEPT !.done = x]
    BY <1>1, <2>1
  <2>3. loc'[u] \in CallRecord
    BY <1>1, <2>2 DEF CallRecord
  <2>4. loc' = [loc EXCEPT ![u] = loc'[u]]
    BY <1>1, <2>1, <2>2
  <2>5. loc' \in [Users -> CallRecord]
    BY <1>1, <2>3, <2>4
  <2> QED
    BY <1>1, <2>2, <2>5 DEF CallRecord
<1>4. ASSUME NEW x \in Int, Set(u, "rc", x)
      PROVE  /\ loc' \in [Users -> CallRecord] /\ loc'[u].rc = x
             /\ loc'[u].op = loc[u].op
             /\ loc'[u].count = loc[u].count
             /\ loc'[u].bytes = loc[u].bytes
             /\ loc'[u].n = loc[u].n
             /\ loc'[u].done = loc[u].done
  <2>1. loc' = [loc EXCEPT ![u].rc = x]
    BY <1>4 DEF Set
  <2>2. loc'[u] = [loc[u] EXCEPT !.rc = x]
    BY <1>1, <2>1
  <2>3. loc'[u] \in CallRecord
    BY <1>1, <2>2 DEF CallRecord
  <2>4. loc' = [loc EXCEPT ![u] = loc'[u]]
    BY <1>1, <2>1, <2>2
  <2>5. loc' \in [Users -> CallRecord]
    BY <1>1, <2>3, <2>4
  <2> QED
    BY <1>1, <2>2, <2>5 DEF CallRecord
<1> QED
  BY <1>2, <1>3, <1>4

LEMMA CallCopiesIn ==
  ASSUME CInv, NEW u \in Users,
         CopyIn(u) \/ CopyInFaults(u) \/ CopiedIn(u) \/ SetSize(u)
  PROVE  DataTypes' /\ CallShape(u)'
<1> USE DEF CInv, DataTypes
<1>1. /\ loc[u] \in CallRecord /\ Changes(loc[u].op) /\ CallShape(u) /\ BUFFER_SIZE \in Nat
      /\ loc[u].n \in Nat /\ loc[u].done \in Nat /\ loc[u].n <= BUFFER_SIZE /\ loc[u].done <= loc[u].n
  BY DeviceAssumption DEF CopyIn, CopyInFaults, CopiedIn, SetSize, Goto, CallShape, CallRecord
<1>2. CASE CopyIn(u)
  <2>1. loc[u].done + 1 \in 1 .. Len(loc[u].bytes) /\ loc[u].bytes \in Seq(Bytes \union {Zero})
    BY <1>1, <1>2 DEF CopyIn, CallShape
  <2>2. loc[u].bytes[loc[u].done + 1] \in Bytes \union {Zero} /\ loc[u].done \in Cells
    BY <1>1, <1>2, <2>1, ElementOfSeq DEF CopyIn, Cells
  <2>3. Set(u, "done", loc[u].done + 1) /\ loc[u].done + 1 \in Nat /\ loc[u].done + 1 <= loc[u].n
    BY <1>1, <1>2 DEF CopyIn
  <2>4. /\ loc' \in [Users -> CallRecord] /\ loc'[u].done = loc[u].done + 1
        /\ loc'[u].op = loc[u].op /\ loc'[u].bytes = loc[u].bytes /\ loc'[u].n = loc[u].n
    BY <2>3, SetLocal
  <2>5. DataTypes'
    BY <1>2, <2>2, <2>4 DEF CopyIn
  <2>6. CallShape(u)'
    BY <1>1, <1>2, <2>3, <2>4 DEF CopyIn, CallShape, Changes
  <2> QED
    BY <2>5, <2>6
<1>3. CASE CopyInFaults(u)
  <2>1. UNCHANGED <<offset, data_size, loc, undisturbed>> /\ pc'[u] = "set_size"
    BY <1>3 DEF CopyInFaults, Goto
  <2>2. device_buffer' \in [Cells -> Bytes \union {Zero}]
    BY <1>3 DEF CopyInFaults
  <2>3. DataTypes'
    BY <1>3, <2>1, <2>2 DEF CopyInFaults, Goto
  <2> QED
    BY <1>1, <2>1, <2>3 DEF CallShape, Changes
<1>5. CASE CopiedIn(u)
  <2>1. UNCHANGED <<offset, data_size, device_buffer, loc, undisturbed>> /\ pc'[u] = "set_size"
    BY <1>5 DEF CopiedIn, Goto, dataVars
  <2>2. DataTypes'
    BY <1>5, <2>1 DEF CopiedIn, Goto
  <2> QED
    BY <1>1, <2>1, <2>2 DEF CallShape, Changes
<1>4. CASE SetSize(u)
  <2>1. NewSize(u) \in 0 .. BUFFER_SIZE
    BY <1>1 DEF NewSize
  <2> QED
    BY <1>1, <1>4, <2>1 DEF SetSize, Goto, CallShape, Changes
<1> QED
  BY <1>2, <1>3, <1>4, <1>5

LEMMA CallAnswers ==
  ASSUME CInv, NEW u \in Users,
         WriteFails(u) \/ WriteSucceeds(u) \/ WriteResult(u) \/ Return(u)
  PROVE  DataTypes' /\ CallShape(u)'
<1> USE DEF CInv, DataTypes, dataVars
<1>1. loc[u] \in CallRecord /\ CallShape(u) /\ loc[u].done \in Int /\ data_size \in Int /\ BUFFER_SIZE \in Nat
  BY DeviceAssumption DEF CallRecord
<1>a. ASSUME NEW from, NEW rc \in Int, Answer(u, from, rc), from \in {"result", "report"},
             UNCHANGED <<device_buffer, data_size, offset, undisturbed>>
      PROVE  DataTypes' /\ CallShape(u)'
  <2>1. /\ loc' \in [Users -> CallRecord] /\ loc'[u].op = loc[u].op /\ loc'[u].bytes = loc[u].bytes
        /\ loc'[u].n = loc[u].n /\ loc'[u].done = loc[u].done
    BY <1>a, SetLocal DEF Answer
  <2> QED
    BY <1>1, <1>a, <2>1 DEF Answer, Goto, CallShape, Changes
<1>2. CASE WriteFails(u)
  BY <1>a, <1>2 DEF WriteFails, EFAULT
<1>3. CASE WriteSucceeds(u)
  BY <1>1, <1>3 DEF WriteSucceeds, Goto, CallShape
<1>4. CASE WriteResult(u)
  BY <1>1, <1>a, <1>4 DEF WriteResult
<1>5. CASE Return(u)
  <2>1. NoCall \in CallRecord
    BY EmptySeq DEF NoCall, CallOf, CallRecord
  <2> QED
    BY <1>5, <2>1 DEF Return, Goto, CallShape, NoCall, CallOf, Changes
<1> QED
  BY <1>2, <1>3, <1>4, <1>5

LEMMA CallReads ==
  ASSUME CInv, NEW u \in Users,
         ReadTest(u) \/ ReadLeft(u) \/ CopyOut(u) \/ ReadEnd(u)
  PROVE  DataTypes' /\ CallShape(u)'
<1> USE DEF CInv, DataTypes, dataVars
<1>1. /\ loc[u] \in CallRecord /\ CallShape(u) /\ loc[u].op = "read"
      /\ loc[u].done \in Nat /\ loc[u].n \in Nat /\ loc[u].count \in Nat /\ offset[u] \in Nat
      /\ data_size \in Nat /\ BUFFER_SIZE \in Nat
  BY DeviceAssumption DEF CallRecord, CallShape, ReadTest, ReadLeft, CopyOut, ReadEnd, Answer, Goto
<1>a. ASSUME NEW from, NEW rc \in Int, Answer(u, from, rc), from \in {"test", "copy_out"},
             offset' \in [Users -> Nat], UNCHANGED <<device_buffer, data_size, undisturbed>>
      PROVE  DataTypes' /\ CallShape(u)'
  <2>1. /\ loc' \in [Users -> CallRecord] /\ loc'[u].op = loc[u].op /\ loc'[u].bytes = loc[u].bytes
        /\ loc'[u].done = loc[u].done
    BY <1>a, SetLocal DEF Answer
  <2> QED
    BY <1>1, <1>a, <2>1 DEF Answer, Goto, CallShape, Changes
<1>2. CASE ReadTest(u)
  <2>1. CASE offset[u] >= data_size
    BY <1>a, <1>2, <2>1 DEF ReadTest
  <2>2. CASE ~ offset[u] >= data_size
    <3>1. /\ loc' \in [Users -> CallRecord] /\ loc'[u].op = loc[u].op /\ loc'[u].bytes = loc[u].bytes
          /\ loc'[u].done = loc[u].done
      BY <1>1, <1>2, <2>2, SetLocal DEF ReadTest
    <3> QED
      BY <1>1, <1>2, <2>2, <3>1 DEF ReadTest, Goto, CallShape, Changes
  <2> QED
    BY <2>1, <2>2
<1>3. CASE ReadLeft(u)
  <2>1. PICK size \in Nat : Set(u, "n", Left(u, size))
    BY <1>1, <1>3 DEF ReadLeft
  <2>2. Left(u, size) \in Nat
    BY <1>1 DEF Left
  <2>3. /\ loc' \in [Users -> CallRecord] /\ loc'[u].op = loc[u].op /\ loc'[u].bytes = loc[u].bytes
        /\ loc'[u].done = loc[u].done
    BY <2>1, <2>2, SetLocal
  <2> QED
    BY <1>1, <1>3, <2>3 DEF ReadLeft, Goto, CallShape, Changes
<1>4. CASE CopyOut(u)
  <2>1. PICK b \in Memory :
          loc' = [loc EXCEPT ![u].done = loc[u].done + 1, ![u].bytes = Append(loc[u].bytes, b)]
    BY <1>1, <1>4 DEF CopyOut, Memory
  <2>2. /\ Append(loc[u].bytes, b) \in Seq(Memory)
        /\ Len(Append(loc[u].bytes, b)) = loc[u].done + 1
    <3>1. loc[u].bytes \in Seq(Memory) /\ loc[u].op = "read"
      BY <1>1, <1>4 DEF CallRecord, CallShape, CopyOut
    <3>2. Len(loc[u].bytes) = loc[u].done
      BY <1>1, <3>1 DEF CallShape
    <3> QED
      BY <3>1, <3>2, AppendProperties
  <2>3. /\ loc'[u].done = loc[u].done + 1 /\ loc'[u].bytes = Append(loc[u].bytes, b)
        /\ loc'[u].op = loc[u].op /\ loc' = [loc EXCEPT ![u] = loc'[u]] /\ loc'[u] \in CallRecord
    BY <1>1, <2>1, <2>2 DEF CallRecord
  <2>4. loc' \in [Users -> CallRecord]
    BY <2>3
  <2> QED
    BY <1>1, <1>4, <2>2, <2>3, <2>4 DEF CopyOut, CallShape, Changes
<1>5. CASE ReadEnd(u)
  <2>1. offset' \in [Users -> Nat]
    BY <1>1, <1>5 DEF ReadEnd
  <2> QED
    BY <1>1, <1>a, <1>5, <2>1 DEF ReadEnd, EFAULT
<1> QED
  BY <1>2, <1>3, <1>4, <1>5

LEMMA CallNext == CInv /\ [Next]_vars => CInv'
<1> SUFFICES ASSUME CInv, [Next]_vars PROVE CInv'
  OBVIOUS
<1>1. ASSUME NEW u \in Users, Step(u) PROVE CInv'
  <2>1. DataTypes' /\ CallShape(u)'
    BY <1>1, CallCopiesIn, CallAnswers, CallReads DEF Step
  <2>2. ASSUME NEW v \in Users \ {u} PROVE CallShape(v)'
    BY <1>1, StepOthers DEF CInv, CallShape
  <2> QED
    BY <2>1, <2>2 DEF CInv
<1>2. ASSUME NEW u \in Users,
             \/ \E msg \in Messages : MyWrite(u, msg)
             \/ \E count \in 0 .. MaxCount : MyRead(u, count)
             \/ MyIoctlClear(u) \/ MyIoctlGetSize(u)
      PROVE  CInv'
  BY <1>2, CallBegins, CallStart
<1> QED
  BY <1>1, <1>2, CallModule, CallFile DEF Next

-----------------------------------------------------------------------------
(***************************************************************************)
(* The buffer: what a call that met no write and no clear has done to it   *)
(* and seen of it so far, and what the last write or clear has left.       *)
(***************************************************************************)
Alone == \A u \in Users : undisturbed[u] => \A v \in Users \ {u} : ~ Changes(loc[v].op)

Copying(u) == pc[u] \in {"copy_in", "set_size"}

StoredShape ==
  stored # Mixed =>
    /\ stored \in Seq(Bytes) /\ data_size = Len(stored)
    /\ \A k \in 1 .. Len(stored) : device_buffer[k - 1] = stored[k]
    /\ \A u \in Users : ~ Copying(u)

WriteShape(u) ==
  Changes(loc[u].op) =>
    /\ Copying(u) => \A k \in 1 .. loc[u].done : device_buffer[k - 1] = loc[u].bytes[k]
    /\ ~ Copying(u) => data_size = NewSize(u)
    /\ pc[u] = "report" => loc[u].done # 0 \/ loc[u].n = 0
    /\ pc[u] = "done" /\ loc[u].op = "write" =>
         loc[u].rc = IF loc[u].done = 0 /\ loc[u].n > 0 THEN EFAULT ELSE loc[u].done

ReadShape(u) ==
  loc[u].op = "read" =>
    /\ pc[u] = "left" => loc[u].n = data_size /\ offset[u] < data_size
    /\ pc[u] = "copy_out" =>
         /\ offset[u] + loc[u].n <= data_size /\ loc[u].done <= loc[u].n
         /\ \A k \in 1 .. loc[u].done : loc[u].bytes[k] = device_buffer[offset[u] + k - 1]
    /\ pc[u] = "done" /\ loc[u].rc > 0 =>
         /\ loc[u].rc = loc[u].done /\ offset[u] <= data_size
         /\ \A k \in 1 .. loc[u].rc :
              loc[u].bytes[k] = device_buffer[offset[u] - loc[u].rc + k - 1]
    /\ pc[u] = "done" /\ loc[u].rc = 0 => offset[u] >= data_size

SizeShape(u) == loc[u].op = "get_size" => loc[u].rc \in {data_size, EFAULT}

TrueSoFar(u) == undisturbed[u] => WriteShape(u) /\ ReadShape(u) /\ SizeShape(u)

DInv == Alone /\ StoredShape /\ \A u \in Users : TrueSoFar(u)

LEMMA BufferInit == Init => DInv
<1>1. <<>> \in Seq(Bytes) /\ Len(<<>>) = 0
  BY EmptySeq
<1> QED
  BY <1>1 DEF Init, DInv, Alone, StoredShape, TrueSoFar, Copying

LEMMA BufferModule ==
  ASSUME CInv, DInv, BeginInit \/ SetUp \/ SetUpFails \/ BeginExit \/ TakeDown \/ Gone \/ UNCHANGED vars
  PROVE  DInv'
<1>1. CASE UNCHANGED <<offset, dataVars, pc, loc, undisturbed, stored>>
  BY <1>1 DEF DInv, Alone, StoredShape, TrueSoFar, WriteShape, ReadShape, SizeShape, Copying, NewSize,
              dataVars
<1>2. CASE Gone
  <2>1. <<>> \in Seq(Bytes) /\ Len(<<>>) = 0
    BY EmptySeq
  <2> QED
    BY <1>2, <2>1 DEF Gone, DInv, Alone, StoredShape, TrueSoFar, Copying
<1> QED
  BY <1>1, <1>2 DEF BeginInit, SetUp, SetUpFails, BeginExit, TakeDown, vars, dataVars

LEMMA BufferFile ==
  ASSUME CInv, DInv, NEW u \in Users, MyOpen(u) \/ MyRelease(u)
  PROVE  DInv'
<1>1. UNCHANGED <<dataVars, pc, loc, undisturbed, stored>>
  BY DEF MyOpen, MyRelease
<1>2. \A v \in Users : undisturbed[v] => offset'[v] = offset[v]
  BY DEF MyOpen, MyRelease, CInv, DataTypes, CallShape
<1> QED
  BY <1>1, <1>2 DEF DInv, Alone, StoredShape, TrueSoFar, WriteShape, ReadShape, SizeShape, Copying,
     NewSize, dataVars

LEMMA BufferStart ==
  ASSUME CInv, DInv, NEW u \in Users, NEW call, NEW at, Begins(call, at), Call(u, call, at)
  PROVE  DInv'
<1>1. /\ \A v \in Users \ {u} : pc'[v] = pc[v] /\ loc'[v] = loc[v]
      /\ loc'[u] = call /\ pc'[u] = at /\ UNCHANGED <<dataVars, offset>>
  BY CallStart
<1>2. /\ undisturbed'[u] => \A w \in Users \ {u} : ~ Changes(loc[w].op)
      /\ \A v \in Users \ {u} : undisturbed'[v] => undisturbed[v] /\ ~ Changes(call.op)
      /\ stored' = IF Changes(call.op) THEN Mixed ELSE stored
  BY DEF Call
<1>3. Alone'
  BY <1>1, <1>2 DEF DInv, Alone
<1>4. StoredShape'
  BY <1>1, <1>2 DEF DInv, StoredShape, Copying, dataVars, Begins, Changes, Mixed
<1>5. TrueSoFar(u)'
  BY <1>1 DEF Begins, TrueSoFar, WriteShape, ReadShape, SizeShape, Copying, Changes, dataVars
<1>6. ASSUME NEW v \in Users \ {u} PROVE TrueSoFar(v)'
  BY <1>1, <1>2 DEF DInv, TrueSoFar, WriteShape, ReadShape, SizeShape, Copying, NewSize, dataVars
<1> QED
  BY <1>3, <1>4, <1>5, <1>6 DEF DInv

LEMMA BufferOthers ==
  ASSUME CInv, DInv, NEW u \in Users, Step(u)
  PROVE  Alone' /\ \A v \in Users \ {u} : TrueSoFar(v)'
<1>1. ASSUME NEW v \in Users \ {u}
      PROVE  /\ pc'[v] = pc[v] /\ loc'[v] = loc[v] /\ offset'[v] = offset[v]
             /\ undisturbed'[v] = undisturbed[v]
  BY StepOthers
<1>2. Changes(loc[u].op) \/ UNCHANGED dataVars
  BY DEF Step, CopyIn, CopyInFaults, CopiedIn, SetSize, WriteFails, WriteSucceeds, WriteResult,
     ReadTest, ReadLeft, CopyOut, ReadEnd, Return, dataVars, CInv, CallShape, Goto
<1>3. undisturbed'[u] => undisturbed[u]
  BY DEF Step, CopyIn, CopyInFaults, CopiedIn, SetSize, WriteFails, WriteSucceeds, WriteResult,
     ReadTest, ReadLeft, CopyOut, ReadEnd, Return, CInv, DataTypes
<1>4. Changes(loc'[u].op) => Changes(loc[u].op)
  <2> USE DEF CInv, DataTypes, CallRecord
  <2>1. CASE CopyInFaults(u) \/ CopiedIn(u) \/ SetSize(u) \/ WriteSucceeds(u)
    BY <2>1 DEF CopyInFaults, CopiedIn, SetSize, WriteSucceeds
  <2>2. CASE CopyIn(u)
    BY <2>2 DEF CopyIn, Set
  <2>3. CASE WriteFails(u) \/ WriteResult(u)
    BY <2>3 DEF WriteFails, WriteResult, Answer, Set
  <2>4. CASE ReadTest(u)
    BY <2>4 DEF ReadTest, Answer, Set
  <2>5. CASE ReadLeft(u)
    BY <2>5 DEF ReadLeft, Set
  <2>6. CASE CopyOut(u)
    BY <2>6 DEF CopyOut
  <2>7. CASE ReadEnd(u)
    BY <2>7 DEF ReadEnd, Answer, Set
  <2>8. CASE Return(u)
    BY <2>8 DEF Return, NoCall, CallOf, Changes
  <2> QED
    BY <2>1, <2>2, <2>3, <2>4, <2>5, <2>6, <2>7, <2>8 DEF Step
<1> QED
  BY <1>1, <1>2, <1>3, <1>4 DEF DInv, Alone, TrueSoFar, WriteShape, ReadShape, SizeShape, Copying,
     NewSize, dataVars

LEMMA BufferCopiesIn ==
  ASSUME CInv, DInv, NEW u \in Users,
         CopyIn(u) \/ CopyInFaults(u) \/ CopiedIn(u) \/ SetSize(u)
  PROVE  StoredShape' /\ TrueSoFar(u)'
<1> USE DEF CInv, DataTypes
<1>1. /\ Changes(loc[u].op) /\ Copying(u) /\ CallShape(u) /\ BUFFER_SIZE \in Nat
      /\ loc[u] \in CallRecord /\ loc[u].n \in Nat /\ loc[u].done \in Nat
      /\ loc[u].done <= loc[u].n /\ loc[u].n <= BUFFER_SIZE
      /\ loc[u].op \notin {"read", "get_size"}
  BY DeviceAssumption DEF CopyIn, CopyInFaults, CopiedIn, SetSize, Goto, CallShape, CallRecord, Copying,
     Changes
<1>2. stored = Mixed
  BY <1>1 DEF DInv, StoredShape
<1>3. undisturbed[u] => \A k \in 1 .. loc[u].done : device_buffer[k - 1] = loc[u].bytes[k]
  BY <1>1 DEF DInv, TrueSoFar, WriteShape
<1>4. CASE CopyIn(u)
  <2>1. Set(u, "done", loc[u].done + 1) /\ loc[u].done + 1 \in Nat
    BY <1>1, <1>4 DEF CopyIn
  <2>2. /\ loc'[u].done = loc[u].done + 1 /\ loc'[u].op = loc[u].op
        /\ loc'[u].bytes = loc[u].bytes /\ pc' = pc /\ stored' = stored /\ undisturbed' = undisturbed
    BY <1>4, <2>1, SetLocal DEF CopyIn
  <2>3. \A k \in 1 .. loc[u].done + 1 :
          k - 1 \in Cells /\ (k = loc[u].done + 1 \/ (k \in 1 .. loc[u].done /\ k - 1 # loc[u].done))
    BY <1>1, <1>4 DEF Cells, CopyIn
  <2>4. undisturbed[u] => \A k \in 1 .. loc[u].done + 1 : device_buffer'[k - 1] = loc[u].bytes[k]
    BY <1>1, <1>3, <1>4, <2>3 DEF CopyIn
  <2> QED
    BY <1>1, <1>2, <2>2, <2>4 DEF StoredShape, TrueSoFar, WriteShape, ReadShape, SizeShape, Copying
<1>5. CASE CopyInFaults(u) \/ CopiedIn(u)
  <2>1. loc' = loc /\ pc'[u] = "set_size" /\ stored' = stored /\ undisturbed' = undisturbed
    BY <1>5 DEF CopyInFaults, CopiedIn, Goto
  <2>2. \A k \in 1 .. loc[u].done : k - 1 \in Cells /\ k - 1 \notin loc[u].done .. loc[u].n - 1
    BY <1>1 DEF Cells
  <2>3. \A k \in 1 .. loc[u].done : device_buffer'[k - 1] = device_buffer[k - 1]
    BY <1>5, <2>2 DEF CopyInFaults, CopiedIn, dataVars
  <2> QED
    BY <1>1, <1>2, <1>3, <2>1, <2>3 DEF StoredShape, TrueSoFar, WriteShape, ReadShape, SizeShape, Copying
<1>6. CASE SetSize(u)
  <2>1. /\ loc' = loc /\ pc'[u] \in {"result", "done"} /\ undisturbed' = undisturbed
        /\ device_buffer' = device_buffer /\ data_size' = NewSize(u)
        /\ loc[u].op = "write" => pc'[u] = "result"
        /\ \A v \in Users \ {u} : pc'[v] = pc[v]
    BY <1>6 DEF SetSize, Goto
  <2>2. TrueSoFar(u)'
    BY <1>1, <2>1 DEF TrueSoFar, WriteShape, ReadShape, SizeShape, Copying, NewSize
  <2>3. CASE ~ undisturbed[u]
    BY <1>6, <2>2, <2>3 DEF SetSize, StoredShape
  <2>4. CASE undisturbed[u]
    <3>1. stored' = SubSeq(loc[u].bytes, 1, NewSize(u))
      BY <1>6, <2>4 DEF SetSize
    <3>2. NewSize(u) \in 0 .. loc[u].done /\ NewSize(u) \in Int
      BY <1>1 DEF NewSize
    <3>3. \A k \in 1 .. NewSize(u) : loc[u].bytes[k] \in Bytes
      BY <1>1, <3>2, ElementOfSeq DEF NewSize, CallShape
    <3>4. /\ stored' \in Seq(Bytes) /\ Len(stored') = NewSize(u)
          /\ \A k \in 1 .. NewSize(u) : stored'[k] = loc[u].bytes[k]
      BY <3>1, <3>2, <3>3, SubSeqProperties
    <3>5. \A v \in Users : ~ Copying(v)'
      BY <2>1, <2>4 DEF DInv, Alone, Copying, CallShape
    <3>6. ASSUME NEW k \in 1 .. NewSize(u)
          PROVE  device_buffer'[k - 1] = stored'[k]
      <4>1. k \in 1 .. loc[u].done
        BY <1>1, <3>2
      <4>2. device_buffer[k - 1] = loc[u].bytes[k]
        BY <1>1, <1>3, <2>4, <4>1
      <4> QED
        BY <2>1, <3>4, <4>2
    <3> QED
      BY <2>1, <2>2, <3>4, <3>5, <3>6 DEF StoredShape
  <2> QED
    BY <2>2, <2>3, <2>4
<1> QED
  BY <1>4, <1>5, <1>6

LEMMA StoredKept ==
  ASSUME CInv, StoredShape, NEW u \in Users, Step(u), UNCHANGED <<dataVars, stored>>,
         pc'[u] \notin {"copy_in", "set_size"}
  PROVE  StoredShape'
BY StepOthers DEF StoredShape, Copying, dataVars

LEMMA BufferAnswers ==
  ASSUME CInv, DInv, NEW u \in Users,
         WriteFails(u) \/ WriteSucceeds(u) \/ WriteResult(u) \/ Return(u)
  PROVE  StoredShape' /\ TrueSoFar(u)'
<1> USE DEF CInv, DataTypes
<1>1. Step(u)
  BY DEF Step
<1>2. UNCHANGED <<dataVars, stored>> /\ pc'[u] \in {"report", "done", "idle"}
  BY DEF WriteFails, WriteSucceeds, WriteResult, Return, Answer, Goto
<1>3. StoredShape'
  BY <1>1, <1>2, StoredKept DEF DInv
<1>4. loc[u] \in CallRecord /\ CallShape(u) /\ loc[u].done \in Nat /\ loc[u].n \in Nat /\ data_size \in Int
  BY DEF CallRecord
<1>5. CASE Return(u)
  BY <1>3, <1>5 DEF Return, TrueSoFar
<1>6. CASE WriteSucceeds(u) \/ WriteFails(u) \/ WriteResult(u)
  <2>1. /\ loc[u].op = "write" /\ pc[u] \in {"result", "report"} /\ undisturbed' = undisturbed
        /\ data_size' = data_size
    BY <1>4, <1>6 DEF WriteSucceeds, WriteFails, WriteResult, Answer, Goto, CallShape, dataVars
  <2>2. undisturbed[u] => data_size = loc[u].done /\ (pc[u] = "report" => loc[u].done # 0 \/ loc[u].n = 0)
    BY <2>1 DEF DInv, TrueSoFar, WriteShape, Copying, Changes, NewSize
  <2>3. CASE WriteSucceeds(u)
    <3>1. loc' = loc /\ pc'[u] = "report" /\ (undisturbed[u] => loc[u].done # 0 \/ loc[u].n = 0)
      BY <2>2, <2>3 DEF WriteSucceeds, Goto
    <3> QED
      BY <1>3, <2>1, <2>2, <3>1 DEF TrueSoFar, WriteShape, ReadShape, SizeShape, Copying, Changes, NewSize
  <2>4. CASE WriteFails(u) \/ WriteResult(u)
    <3>1. PICK rc \in Int :
            /\ Set(u, "rc", rc) /\ pc'[u] = "done"
            /\ undisturbed[u] => rc = IF loc[u].done = 0 /\ loc[u].n > 0 THEN EFAULT ELSE loc[u].done
      <4>1. CASE WriteFails(u)
        BY <1>4, <2>2, <4>1 DEF WriteFails, Answer, Goto, EFAULT
      <4>2. CASE WriteResult(u)
        BY <1>4, <2>2, <4>2 DEF WriteResult, Answer, Goto
      <4> QED
        BY <2>4, <4>1, <4>2
    <3>2. loc'[u].op = "write" /\ loc'[u].done = loc[u].done /\ loc'[u].n = loc[u].n /\ loc'[u].rc = rc
      BY <2>1, <3>1, SetLocal
    <3> QED
      BY <1>3, <2>1, <2>2, <3>1, <3>2
         DEF TrueSoFar, WriteShape, ReadShape, SizeShape, Copying, Changes, NewSize
  <2> QED
    BY <1>6, <2>3, <2>4
<1> QED
  BY <1>5, <1>6

LEMMA BufferReads ==
  ASSUME CInv, DInv, NEW u \in Users,
         ReadTest(u) \/ ReadLeft(u) \/ CopyOut(u) \/ ReadEnd(u)
  PROVE  StoredShape' /\ TrueSoFar(u)'
<1> USE DEF CInv, DataTypes
<1>1. Step(u)
  BY DEF Step
<1>2. /\ UNCHANGED <<device_buffer, data_size, stored, undisturbed>>
      /\ pc'[u] \in {"left", "copy_out", "done"} /\ loc[u].op = "read"
  BY DEF ReadTest, ReadLeft, CopyOut, ReadEnd, Answer, Goto, dataVars, CallShape
<1>3. StoredShape'
  BY <1>1, <1>2, StoredKept DEF DInv, dataVars
<1>4. /\ loc[u] \in CallRecord /\ CallShape(u) /\ loc[u].done \in Nat /\ loc[u].n \in Nat
      /\ loc[u].count \in Nat /\ data_size \in Nat /\ offset[u] \in Nat
      /\ data_size <= BUFFER_SIZE /\ BUFFER_SIZE \in Nat
  BY DeviceAssumption DEF CallRecord
<1>5. undisturbed[u] => ReadShape(u)
  BY DEF DInv, TrueSoFar
<1>a. loc'[u].op = "read"
  <2>1. CASE CopyOut(u)
    BY <1>2, <2>1 DEF CopyOut, CallRecord
  <2>2. CASE \E x \in Int : Set(u, "rc", x)
    BY <1>2, <2>2, SetLocal
  <2>3. CASE \E x \in Nat : Set(u, "n", x)
    BY <1>2, <2>3, SetLocal
  <2> QED
    BY <1>4, <2>1, <2>2, <2>3 DEF ReadTest, ReadLeft, ReadEnd, Answer, Left, EFAULT
<1> SUFFICES ASSUME undisturbed[u] PROVE ReadShape(u)'
  BY <1>2, <1>3, <1>a DEF TrueSoFar, WriteShape, SizeShape, Changes
<1>6. CASE ReadTest(u)
  <2>1. CASE offset[u] >= data_size
    <3>1. Set(u, "rc", 0) /\ pc'[u] = "done" /\ offset' = offset
      BY <1>6, <2>1 DEF ReadTest, Answer, Goto
    <3>2. loc'[u].rc = 0
      BY <3>1, SetLocal
    <3> QED
      BY <1>2, <2>1, <3>1, <3>2 DEF ReadShape
  <2>2. CASE ~ offset[u] >= data_size
    <3>1. Set(u, "n", data_size) /\ pc'[u] = "left" /\ offset' = offset
      BY <1>6, <2>2 DEF ReadTest, Goto
    <3>2. loc'[u].n = data_size
      BY <1>4, <3>1, SetLocal
    <3> QED
      BY <1>2, <1>4, <2>2, <3>1, <3>2 DEF ReadShape
  <2> QED
    BY <2>1, <2>2
<1>7. CASE ReadLeft(u)
  <2>1. loc[u].n = data_size /\ offset[u] < data_size /\ loc[u].done = 0
    BY <1>2, <1>4, <1>5, <1>7 DEF ReadLeft, Goto, ReadShape, CallShape
  <2>2. /\ Set(u, "n", Left(u, data_size)) /\ pc'[u] = "copy_out" /\ offset' = offset
        /\ Left(u, data_size) \in Nat /\ offset[u] + Left(u, data_size) <= data_size
    BY <1>4, <1>7, <2>1 DEF ReadLeft, Goto, Left
  <2>3. loc'[u].n = Left(u, data_size) /\ loc'[u].done = 0
    BY <2>1, <2>2, SetLocal
  <2> QED
    BY <1>2, <1>4, <2>1, <2>2, <2>3 DEF ReadShape
<1>8. CASE CopyOut(u)
  <2>1. /\ pc[u] = "copy_out" /\ pc' = pc /\ offset' = offset /\ loc[u].done < loc[u].n
        /\ offset[u] + loc[u].n <= data_size
        /\ \A k \in 1 .. loc[u].done : loc[u].bytes[k] = device_buffer[offset[u] + k - 1]
    BY <1>2, <1>5, <1>8 DEF CopyOut, ReadShape
  <2>2. offset[u] + loc[u].done \in Cells
    BY <1>4, <2>1 DEF Cells
  <2> DEFINE b == device_buffer[offset[u] + loc[u].done]
  <2>3. loc' = [loc EXCEPT ![u].done = loc[u].done + 1, ![u].bytes = Append(loc[u].bytes, b)]
    BY <1>8, <2>2 DEF CopyOut
  <2>4. b \in Memory
    BY <2>2 DEF Memory
  <2> HIDE DEF b
  <2>5. /\ loc'[u].done = loc[u].done + 1 /\ loc'[u].n = loc[u].n
        /\ loc'[u].bytes = Append(loc[u].bytes, b)
    BY <1>4, <2>3 DEF CallRecord
  <2>6. /\ \A k \in 1 .. loc[u].done : loc'[u].bytes[k] = loc[u].bytes[k]
        /\ loc'[u].bytes[loc[u].done + 1] = b
    BY <1>2, <1>4, <2>4, <2>5, AppendProperties DEF CallRecord, CallShape
  <2>7. ASSUME NEW k \in 1 .. loc'[u].done
        PROVE  loc'[u].bytes[k] = device_buffer[offset[u] + k - 1]
    <3>1. CASE k \in 1 .. loc[u].done
      BY <2>1, <2>6, <3>1
    <3>2. CASE k = loc[u].done + 1
      <4>1. offset[u] + k - 1 = offset[u] + loc[u].done
        BY <1>4, <3>2
      <4> QED
        BY <2>6, <3>2, <4>1 DEF b
    <3>3. k = loc[u].done + 1 \/ k \in 1 .. loc[u].done
      BY <1>4, <2>5
    <3> QED
      BY <3>1, <3>2, <3>3
  <2>8. loc'[u].done <= loc'[u].n
    BY <1>4, <2>1, <2>5
  <2> QED
    BY <1>2, <2>1, <2>5, <2>7, <2>8 DEF ReadShape
<1>9. CASE ReadEnd(u)
  <2>1. /\ pc[u] = "copy_out" /\ pc'[u] = "done" /\ offset'[u] = offset[u] + loc[u].done
        /\ offset[u] + loc[u].n <= data_size /\ loc[u].done <= loc[u].n
        /\ \A k \in 1 .. loc[u].done : loc[u].bytes[k] = device_buffer[offset[u] + k - 1]
    BY <1>2, <1>5, <1>9 DEF ReadEnd, Answer, Goto, ReadShape
  <2> DEFINE rc == IF loc[u].done = 0 THEN EFAULT ELSE loc[u].done
  <2>2. rc \in Int /\ Set(u, "rc", rc) /\ (rc > 0 => rc = loc[u].done) /\ rc # 0
    BY <1>4, <1>9 DEF ReadEnd, Answer, EFAULT
  <2> HIDE DEF rc
  <2>3. loc'[u].rc = rc /\ loc'[u].done = loc[u].done /\ loc'[u].bytes = loc[u].bytes
    BY <2>2, SetLocal
  <2>4. ASSUME rc > 0, NEW k \in 1 .. rc
        PROVE  loc'[u].bytes[k] = device_buffer[offset'[u] - rc + k - 1]
    <3>1. offset'[u] - rc + k - 1 = offset[u] + k - 1 /\ k \in 1 .. loc[u].done
      BY <1>4, <2>1, <2>2, <2>4
    <3> QED
      BY <2>1, <2>3, <3>1
  <2>5. offset'[u] <= data_size
    BY <1>4, <2>1
  <2> QED
    BY <1>2, <2>1, <2>2, <2>3, <2>4, <2>5 DEF ReadShape
<1> QED
  BY <1>6, <1>7, <1>8, <1>9

LEMMA BufferNext == CInv /\ DInv /\ [Next]_vars => DInv'
<1> SUFFICES ASSUME CInv, DInv, [Next]_vars PROVE DInv'
  OBVIOUS
<1>1. ASSUME NEW u \in Users, Step(u) PROVE DInv'
  <2>1. StoredShape' /\ TrueSoFar(u)'
    BY <1>1, BufferCopiesIn, BufferAnswers, BufferReads DEF Step
  <2> QED
    BY <1>1, <2>1, BufferOthers DEF DInv
<1>2. ASSUME NEW u \in Users,
             \/ \E msg \in Messages : MyWrite(u, msg)
             \/ \E count \in 0 .. MaxCount : MyRead(u, count)
             \/ MyIoctlClear(u) \/ MyIoctlGetSize(u)
      PROVE  DInv'
  BY <1>2, CallBegins, BufferStart
<1> QED
  BY <1>1, <1>2, BufferModule, BufferFile DEF Next

LEMMA BufferHolds == Spec => [](CInv /\ DInv)
<1> QED
  BY CallInit, CallNext, BufferInit, BufferNext, PTL DEF Spec

\* What the last write or clear that met no other has left is what the device
\* holds, size and bytes, until the next.
THEOREM HoldsStoredCorrect == Spec => []HoldsStored
<1>1. CInv /\ DInv => HoldsStored
  BY DEF DInv, StoredShape, HoldsStored
<1> QED
  BY <1>1, BufferHolds, PTL

\* A call that met no write and no clear reports what it has done, and what it
\* read is what the device held.
THEOREM UndisturbedTrueCorrect == Spec => []UndisturbedTrue
<1>1. CInv /\ DInv => UndisturbedTrue
  <2> SUFFICES ASSUME CInv, DInv, NEW u \in Users, pc[u] = "done", undisturbed[u]
               PROVE  /\ loc[u].op = "read" /\ loc[u].rc > 0 =>
                           /\ offset[u] <= data_size
                           /\ loc[u].bytes = [k \in 1 .. loc[u].rc |-> device_buffer[offset[u] - loc[u].rc + k - 1]]
                      /\ loc[u].op = "read" /\ loc[u].rc = 0 => offset[u] >= data_size
                      /\ loc[u].op = "write" =>
                           loc[u].rc = IF loc[u].done = 0 /\ loc[u].n > 0 THEN EFAULT ELSE loc[u].done
                      /\ loc[u].op = "get_size" => loc[u].rc \in {data_size, EFAULT}
    BY DEF UndisturbedTrue
  <2>1. WriteShape(u) /\ ReadShape(u) /\ SizeShape(u) /\ CallShape(u) /\ loc[u] \in CallRecord
    BY DEF DInv, TrueSoFar, CInv, DataTypes
  <2>2. ASSUME loc[u].op = "read", loc[u].rc > 0
        PROVE  loc[u].bytes = [k \in 1 .. loc[u].rc |-> device_buffer[offset[u] - loc[u].rc + k - 1]]
    <3>1. loc[u].bytes \in Seq(Memory) /\ Len(loc[u].bytes) = loc[u].rc
      BY <2>1, <2>2 DEF ReadShape, CallShape, CallRecord
    <3>2. loc[u].bytes \in [1 .. loc[u].rc -> Memory]
      BY <3>1, LenProperties
    <3>3. \A k \in 1 .. loc[u].rc :
            loc[u].bytes[k] = device_buffer[offset[u] - loc[u].rc + k - 1]
      BY <2>1, <2>2 DEF ReadShape
    <3> QED
      BY <3>2, <3>3
  <2> QED
    BY <2>1, <2>2 DEF ReadShape, WriteShape, SizeShape, Changes
<1> QED
  BY <1>1, BufferHolds, PTL

\* The types: no count leaves the buffer, no rung the ladder.
THEOREM TypeCorrect == Spec => []TypeOK
<1>1. LadderShape /\ FileShape /\ CInv /\ DInv => TypeOK
  <2> SUFFICES ASSUME LadderShape, FileShape, CInv, DInv PROVE TypeOK
    OBVIOUS
  <2>1. rung \in 0 .. Len(ExitLines) + 1 /\ set_up \subseteq Rungs
    <3>1. Top \in 0 .. 5
      BY DEF LadderShape, Top
    <3> QED
      BY <3>1, LadderFacts, LineFacts DEF LadderShape, UpTo, Rungs
  <2> DEFINE Held == UNION {[1 .. n -> Bytes] : n \in 0 .. BUFFER_SIZE}
  <2>2. stored = Mixed \/ stored \in Held
    <3> SUFFICES ASSUME stored # Mixed PROVE stored \in Held
      OBVIOUS
    <3>1. stored \in Seq(Bytes) /\ Len(stored) \in 0 .. BUFFER_SIZE
      BY DEF DInv, StoredShape, CInv, DataTypes
    <3>2. stored \in [1 .. Len(stored) -> Bytes]
      BY <3>1, LenProperties
    <3> QED
      BY <3>1, <3>2
  <2> QED
    BY <2>1, <2>2 DEF TypeOK, LadderShape, FileShape, CInv, DataTypes
<1> QED
  BY <1>1, ModuleHolds, BufferHolds, PTL

=============================================================================
