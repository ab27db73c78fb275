-------------------------- MODULE KernelFifoProofs --------------------------
(***************************************************************************)
(* Proofs about KernelFifo, for every capacity, width of the indices and   *)
(* set of values.                                                          *)
(*                                                                         *)
(* For any use of the attributes: the types, and that a callback has the   *)
(* fifo to work on.  For one writer and one reader that keep to kfifo's    *)
(* rules (OneEach): what each side has seen of the indices holds, and the  *)
(* ring implements BoundedFifo.                                            *)
(*                                                                         *)
(* The invariant says what a callback holds at each of its program points  *)
(* (CallShape), which callbacks a phase of the module admits               *)
(* (ModuleShape), how the indices a side has read relate to the indices as *)
(* they are (IndexShape), and which entry the side is about to publish or  *)
(* has just read (RingShape).                                              *)
(***************************************************************************)
EXTENDS KernelFifo, SequenceTheorems, TLAPS

Asks == {"is_empty", "is_full", "available"}

PointShape(t) ==
  /\ pc[t] = "idle" => loc[t] = NoCall
  /\ pc[t] # "done" => loc[t].rc = "ok"
  /\ pc[t] = "test" => loc[t].op \in {"enqueue", "dequeue", "peek"} \union Asks
  /\ pc[t] \in {"store", "publish", "published"} => loc[t].op = "enqueue" /\ loc[t].in # None
  /\ pc[t] \in {"retest", "load"} => loc[t].op \in {"dequeue", "peek"}
  /\ pc[t] \in {"advance", "advanced"} => loc[t].op = "dequeue"
  /\ pc[t] \in {"load", "advance", "advanced"} => loc[t].out # None
  /\ pc[t] \in {"reset_out", "reset_in"} => loc[t].op = "clear"
  /\ loc[t].op = "enqueue" => t \in Writers /\ loc[t].val \in Values
  /\ loc[t].op \in {"dequeue", "peek"} => t \in Readers
  /\ loc[t].op = "clear" => pc[t] \in {"reset_out", "reset_in", "done"}

CallShape == \A t \in Tasks : PointShape(t)

ModuleShape ==
  /\ phase \in {"registering", "live", "leaving"} => held /\ global_queue
  /\ phase \in {"allocated", "ready"} => held
  /\ phase = "ready" => global_queue
  /\ phase \in {"absent", "allocated", "ready", "undoing", "failed", "removed", "freeing"} => Drained
  /\ phase = "absent" => ~ held
  /\ \A t \in Tasks : loc[t].rc # "invalid"

BInv == TypeOK /\ CallShape /\ ModuleShape

\* What kfifo asks of its users: one writer, one reader, and resets alone.
OneEach ==
  /\ ClearAlone /\ Writers \intersect Readers = {}
  /\ \A t, u \in Writers : t = u
  /\ \A t, u \in Readers : t = u

AloneShape ==
  \A t, u \in Tasks : loc[t].op = "clear" /\ u # t => pc[u] = "idle"

\* t goes by the indices it reads, or has handed on what they said.
Going(t) ==
  \/ pc[t] \in {"test", "retest", "store", "publish", "published", "load", "advance", "advanced"}
  \/ pc[t] = "done" /\ loc[t].op \in Asks

WriterSees(t) ==
  Going(t) =>
    /\ loc[t].in # None => loc[t].in = in
    /\ loc[t].out # None =>
         Length <= Between(in, loc[t].out) /\ Between(in, loc[t].out) <= Capacity
    /\ pc[t] \in {"store", "publish", "published"} =>
         loc[t].out # None /\ Between(in, loc[t].out) < Capacity

ReaderSees(t) ==
  Going(t) =>
    /\ loc[t].out # None => loc[t].out = out
    /\ loc[t].in # None => Between(loc[t].in, out) <= Length
    /\ pc[t] \in {"retest", "load", "advance", "advanced"} =>
         in # out /\ loc[t].in # out

Resetting == \E t \in Tasks : pc[t] = "reset_in"

IndexShape ==
  /\ Length <= Capacity \/ Resetting
  /\ Resetting => out = 0
  /\ \A t \in Writers : WriterSees(t)
  /\ \A t \in Readers : ReaderSees(t)

-----------------------------------------------------------------------------
LEMMA WordFacts ==
  /\ Word \in Nat /\ Capacity \in Nat \ {0} /\ Word >= 2 * Capacity
  /\ 0 \in Index /\ None \notin Index
<1>1. PICK n \in 2 .. Word : Word = n * Capacity
  BY FifoAssumption
<1>2. Word \in Nat /\ Capacity \in Nat \ {0}
  BY FifoAssumption
<1>3. n * Capacity >= 2 * Capacity
  <2>1. (n - 2) * Capacity >= 0
    BY <1>1, <1>2, SMTT(30)
  <2>2. (n - 2) * Capacity = n * Capacity - 2 * Capacity
    BY <1>1, <1>2, SMTT(30)
  <2> QED
    BY <1>1, <1>2, <2>1, <2>2
<1> QED
  BY <1>1, <1>2, <1>3, FifoAssumption DEF Index

\* A remainder is smaller than the divisor.
LEMMA Remainder ==
  ASSUME NEW W \in Nat \ {0}, NEW a \in Int
  PROVE  a % W \in 0 .. W - 1
BY SMTT(30)

LEMMA IndexCut ==
  ASSUME NEW a \in Int
  PROVE  Cut(a) \in Index /\ Slot(a) \in Slots
BY WordFacts, Remainder DEF Cut, Index, Slot, Slots

-----------------------------------------------------------------------------
LEMMA InitBase == Init => BInv
<1> SUFFICES ASSUME Init PROVE BInv
  OBVIOUS
<1>1. TypeOK
  BY WordFacts, FifoAssumption DEF Init, TypeOK, Phases, NoCall
<1>2. CallShape /\ ModuleShape
  BY FifoAssumption DEF Init, CallShape, PointShape, ModuleShape, NoCall, Drained
<1> QED
  BY <1>1, <1>2 DEF BInv

LEMMA ModuleBase == BInv /\ Module => BInv'
<1> SUFFICES ASSUME BInv, Module PROVE BInv'
  OBVIOUS
<1> USE DEF BInv, moduleVars, fifoVars
<1>1. TypeOK'
  <2>1. in' \in Index /\ out' \in Index /\ ring' \in [Slots -> Values \union {Garbage}]
    BY WordFacts DEF Module, FifoInit, AllocFails, KobjectFails, SetGlobalQueue,
       CreateGroup, Registered, RegisterFails, InitFails, Remove, Removed, ResetGlobalQueue, KfifoFree, Pass, Phases, TypeOK
  <2>2. /\ phase' \in Phases
        /\ global_queue' \in BOOLEAN /\ held' \in BOOLEAN /\ pc' = pc /\ loc' = loc
    BY DEF Module, FifoInit, AllocFails, KobjectFails, SetGlobalQueue,
       CreateGroup, Registered, RegisterFails, InitFails, Remove, Removed, ResetGlobalQueue, KfifoFree, Pass, Phases, TypeOK
  <2> QED
    BY <2>1, <2>2 DEF TypeOK
<1>2. CallShape'
  BY DEF Module, FifoInit, AllocFails, KobjectFails, SetGlobalQueue,
       CreateGroup, Registered, RegisterFails, InitFails, Remove, Removed, ResetGlobalQueue, KfifoFree, Pass, CallShape, PointShape
<1>3. ModuleShape'
  BY DEF Module, FifoInit, AllocFails, KobjectFails, SetGlobalQueue,
       CreateGroup, Registered, RegisterFails, InitFails, Remove, Removed, ResetGlobalQueue, KfifoFree, Pass,
         ModuleShape, Drained
<1> QED
  BY <1>1, <1>2, <1>3

\* A callback begins: only with the attributes there, so with a fifo.
LEMMA CallBase ==
  ASSUME BInv, NEW t \in Tasks, NEW op, NEW val, NEW at, Call(t, op, val, at),
         \/ /\ op = "enqueue" /\ t \in Writers /\ val \in Values /\ at = "test"
         \/ /\ op \in {"dequeue", "peek"} /\ t \in Readers /\ val = None /\ at = "test"
         \/ /\ op \in Asks /\ val = None /\ at = "test"
         \/ /\ op \in {"size", "ignored"} /\ val \in {Capacity, None} /\ at = "done"
         \/ /\ op = "clear" /\ val = None /\ at = "reset_out"
  PROVE  BInv'
<1> USE DEF BInv
<1>1. global_queue /\ pc[t] = "idle" /\ loc[t] = NoCall
  BY DEF Call, Goto, ModuleShape, CallShape, PointShape
<1> DEFINE L == [op |-> op, rc |-> "ok", val |-> val, in |-> None, out |-> None]
<1>2. /\ pc' = [pc EXCEPT ![t] = at]
      /\ loc' = [loc EXCEPT ![t] = L]
  <2>1. pc' = [pc EXCEPT ![t] = at]
    BY <1>1 DEF Call, Goto
  <2>2. loc' = [loc EXCEPT ![t] = L]
    BY <1>1 DEF Call
  <2> QED
    BY <2>1, <2>2
<1>3. TypeOK'
  <2>1. pc' \in [Tasks -> {"idle", "test", "retest", "store", "publish", "published", "load",
                           "advance", "advanced", "reset_out", "reset_in", "done"}]
    BY <1>2 DEF TypeOK
  <2>2. val \in Values \union {Garbage, None, Capacity}
    OBVIOUS
  <2>3. L \in [op : {"none", "enqueue", "dequeue", "peek", "size", "is_empty", "is_full",
                     "available", "clear", "ignored"},
               rc : {"ok", "full", "empty", "invalid"},
               val : Values \union {Garbage, None, Capacity},
               in : Index \union {None}, out : Index \union {None}]
    BY <2>2 DEF Asks
  <2> QED
    BY <1>2, <2>1, <2>3 DEF Call, TypeOK, moduleVars, fifoVars
<1>4. CallShape'
  BY <1>2, FifoAssumption DEF CallShape, PointShape, TypeOK, NoCall, Asks
<1>5. ModuleShape'
  BY <1>2 DEF Call, ModuleShape, TypeOK, NoCall, moduleVars, Drained
<1> QED
  BY <1>3, <1>4, <1>5

-----------------------------------------------------------------------------
(***************************************************************************)
(* A step of a callback keeps the types, leaves the other callbacks alone, *)
(* and leaves its own with what the next program point needs.              *)
(***************************************************************************)
LEMMA StepTypes ==
  ASSUME BInv, NEW t \in Tasks, Step(t)
  PROVE  /\ TypeOK' /\ UNCHANGED moduleVars
         /\ \A u \in Tasks \ {t} : pc'[u] = pc[u] /\ loc'[u] = loc[u]
<1> USE DEF BInv, moduleVars, fifoVars
<1>a. CASE ReadIn(t)
  BY <1>a DEF ReadIn, Set, TypeOK
<1>b. CASE ReadOut(t)
  BY <1>b DEF ReadOut, Set, TypeOK
<1>c. CASE Ask(t)
  BY <1>c DEF Ask, Goto, TypeOK
<1>d. CASE PutTest(t)
  BY <1>d DEF PutTest, Goto, Answer, Set, TypeOK
<1>e. CASE PutStore(t)
  <2>1. loc[t].val \in Values /\ loc[t].in \in Index
    BY <1>e DEF PutStore, Goto, CallShape, PointShape, TypeOK
  <2>2. \A i \in Index : Slot(i) \in Slots
    BY IndexCut DEF Index
  <2>3. ring' \in [Slots -> Values \union {Garbage}]
    BY <1>e, <2>1, <2>2 DEF PutStore, TypeOK
  <2> QED
    BY <1>e, <2>3 DEF PutStore, Goto, TypeOK
<1>f. CASE PutPublish(t)
  BY <1>f DEF PutPublish, Goto, Set, TypeOK
<1>g. CASE PutPublished(t)
  <2>1. loc[t].in \in Index
    BY <1>g DEF PutPublished, Goto, CallShape, PointShape, TypeOK
  <2>2. Cut(loc[t].in + 1) \in Index
    BY <2>1, IndexCut DEF Index
  <2> QED
    BY <1>g, <2>2 DEF PutPublished, Goto, TypeOK
<1>h. CASE EmptyTest(t)
  <2>1. pc' = [pc EXCEPT ![t] = "done"] \/ pc' = [pc EXCEPT ![t] = "retest"]
    BY <1>h DEF EmptyTest, Goto, Answer
  <2>2. \/ loc' = [loc EXCEPT ![t].rc = "empty"]
        \/ loc' = [loc EXCEPT ![t].in = None, ![t].out = None]
    BY <1>h DEF EmptyTest, Answer, Set
  <2>3. UNCHANGED <<moduleVars, fifoVars>>
    BY <1>h DEF EmptyTest
  <2>4. pc' \in [Tasks -> {"idle", "test", "retest", "store", "publish", "published", "load",
                           "advance", "advanced", "reset_out", "reset_in", "done"}]
    BY <2>1 DEF TypeOK
  <2>5. loc' \in [Tasks ->
          [op : {"none", "enqueue", "dequeue", "peek", "size", "is_empty", "is_full", "available",
                 "clear", "ignored"},
           rc : {"ok", "full", "empty", "invalid"},
           val : Values \union {Garbage, None, Capacity},
           in : Index \union {None}, out : Index \union {None}]]
    BY <2>2 DEF TypeOK
  <2>6. /\ phase' \in Phases /\ global_queue' \in BOOLEAN /\ held' \in BOOLEAN
        /\ ring' \in [Slots -> Values \union {Garbage}] /\ in' \in Index /\ out' \in Index
    BY <2>3 DEF TypeOK
  <2>7. \A u \in Tasks \ {t} : pc'[u] = pc[u] /\ loc'[u] = loc[u]
    BY <2>1, <2>2 DEF TypeOK
  <2>8. TypeOK'
    BY <2>4, <2>5, <2>6, Zenon DEF TypeOK
  <2> QED
    BY <2>3, <2>7, <2>8
<1>i. CASE GetTest(t)
  BY <1>i DEF GetTest, Goto, Set, TypeOK
<1>j. CASE GetLoad(t)
  <2>1. loc[t].out \in Index
    BY <1>j DEF GetLoad, Goto, CallShape, PointShape, TypeOK
  <2>2. \A i \in Index : ring[Slot(i)] \in Values \union {Garbage}
    BY IndexCut DEF Index, TypeOK
  <2>3. PICK v \in Values \union {Garbage} : Set(t, "val", v)
    BY <1>j, <2>1, <2>2 DEF GetLoad, TypeOK
  <2> QED
    BY <1>j, <2>3 DEF GetLoad, Goto, Set, TypeOK
<1>k. CASE GetAdvance(t)
  BY <1>k DEF GetAdvance, Goto, Set, TypeOK
<1>l. CASE GetAdvanced(t)
  <2>1. loc[t].out \in Index
    BY <1>l DEF GetAdvanced, Goto, CallShape, PointShape, TypeOK
  <2>2. Cut(loc[t].out + 1) \in Index
    BY <2>1, IndexCut DEF Index
  <2> QED
    BY <1>l, <2>2 DEF GetAdvanced, Goto, TypeOK
<1>m. CASE ResetOut(t)
  BY <1>m, WordFacts DEF ResetOut, Goto, TypeOK
<1>n. CASE ResetIn(t)
  BY <1>n, WordFacts DEF ResetIn, Goto, TypeOK
<1>o. CASE Return(t)
  BY <1>o DEF Return, Goto, TypeOK, NoCall
<1> QED
  BY <1>a, <1>b, <1>c, <1>d, <1>e, <1>f, <1>g, <1>h, <1>i, <1>j, <1>k, <1>l, <1>m, <1>n, <1>o DEF Step

LEMMA StepShape ==
  ASSUME BInv, NEW t \in Tasks, Step(t)
  PROVE  CallShape' /\ ModuleShape'
<1> USE DEF BInv
<1>1. TypeOK' /\ UNCHANGED moduleVars /\ \A u \in Tasks \ {t} : pc'[u] = pc[u] /\ loc'[u] = loc[u]
  BY StepTypes
<1>2. /\ pc[t] # "idle"
      /\ loc'[t].rc # "invalid"
  BY DEF Step, ReadIn, ReadOut, Ask, PutTest, PutStore, PutPublish, PutPublished, EmptyTest, GetTest,
         GetLoad, GetAdvance, GetAdvanced, ResetOut, ResetIn, Return, Goto, Answer, Set, TypeOK,
         CallShape, PointShape, ModuleShape, NoCall, IndicesRead
<1>3. ModuleShape'
  BY <1>1, <1>2 DEF ModuleShape, Drained, moduleVars
<1>4. CallShape'
  <2> SUFFICES PointShape(t)'
    BY <1>1 DEF CallShape, PointShape
  <2>1. PointShape(t)
    BY DEF CallShape, PointShape
  <2> USE WordFacts DEF TypeOK, PointShape, Asks
  <2>a. CASE ReadIn(t)
    BY <2>1, <2>a DEF ReadIn, Set
  <2>b. CASE ReadOut(t)
    BY <2>1, <2>b DEF ReadOut, Set
  <2>c. CASE Ask(t)
    BY <2>1, <2>c DEF Ask, Goto
  <2>d. CASE PutTest(t)
    BY <2>1, <2>d DEF PutTest, Goto, Answer, Set, IndicesRead
  <2>e. CASE PutStore(t)
    BY <2>1, <2>e DEF PutStore, Goto
  <2>f. CASE PutPublish(t)
    BY <2>1, <2>f DEF PutPublish, Goto, Set
  <2>g. CASE PutPublished(t)
    BY <2>1, <2>g DEF PutPublished, Goto
  <2>h. CASE EmptyTest(t)
    BY <2>1, <2>h DEF EmptyTest, Goto, Answer, Set
  <2>i. CASE GetTest(t)
    BY <2>1, <2>i DEF GetTest, Goto, Set, IndicesRead
  <2>j. CASE GetLoad(t)
    BY <2>1, <2>j DEF GetLoad, Goto, Set
  <2>k. CASE GetAdvance(t)
    BY <2>1, <2>k DEF GetAdvance, Goto, Set
  <2>l. CASE GetAdvanced(t)
    BY <2>1, <2>l DEF GetAdvanced, Goto
  <2>m. CASE ResetOut(t)
    BY <2>1, <2>m DEF ResetOut, Goto
  <2>n. CASE ResetIn(t)
    BY <2>1, <2>n DEF ResetIn, Goto
  <2>o. CASE Return(t)
    BY <2>1, <2>o DEF Return, Goto, NoCall
  <2> QED
    BY <2>a, <2>b, <2>c, <2>d, <2>e, <2>f, <2>g, <2>h, <2>i, <2>j, <2>k, <2>l, <2>m, <2>n, <2>o DEF Step
<1> QED
  BY <1>3, <1>4

LEMMA NextBase == BInv /\ [Next]_vars => BInv'
<1> SUFFICES ASSUME BInv, [Next]_vars PROVE BInv'
  OBVIOUS
<1>1. CASE Module
  BY <1>1, ModuleBase
<1>2. CASE \E t \in Writers, num \in Values : EnqueueStore(t, num)
  <2>1. PICK t \in Writers, num \in Values : Call(t, "enqueue", num, "test")
    BY <1>2 DEF EnqueueStore
  <2> QED
    BY <2>1, CallBase DEF Tasks
<1>3. CASE \E t \in Readers : DequeueShow(t) \/ PeekShow(t)
  <2>1. PICK t \in Readers, op \in {"dequeue", "peek"} : Call(t, op, None, "test")
    BY <1>3 DEF DequeueShow, PeekShow
  <2> QED
    BY <2>1, CallBase DEF Tasks
<1>4. ASSUME NEW t \in Tasks,
             SizeShow(t) \/ IsEmptyShow(t) \/ IsFullShow(t) \/ AvailableShow(t)
               \/ ClearStore(t) \/ ClearIgnored(t)
      PROVE  BInv'
  <2>1. CASE SizeShow(t)
    BY <2>1, CallBase DEF SizeShow
  <2>2. CASE IsEmptyShow(t) \/ IsFullShow(t) \/ AvailableShow(t)
    BY <2>2, CallBase DEF IsEmptyShow, IsFullShow, AvailableShow, Asks
  <2>3. CASE ClearStore(t)
    BY <2>3, CallBase DEF ClearStore
  <2>4. CASE ClearIgnored(t)
    BY <2>4, CallBase DEF ClearIgnored
  <2> QED
    BY <1>4, <2>1, <2>2, <2>3, <2>4
<1>5. ASSUME NEW t \in Tasks, Step(t) PROVE BInv'
  BY <1>5, StepTypes, StepShape DEF BInv
<1>6. CASE UNCHANGED vars
  BY <1>6 DEF vars, moduleVars, fifoVars, BInv, TypeOK, CallShape, PointShape, ModuleShape, Drained
<1> QED
  BY <1>1, <1>2, <1>3, <1>4, <1>5, <1>6 DEF Next

LEMMA BaseHolds == Spec => []BInv
<1> QED
  BY InitBase, NextBase, PTL DEF Spec

\* The indices stay indices, the entries entries, and each callback at a program
\* point of its own operation with a result of the code's.
THEOREM TypeCorrect == Spec => []TypeOK
<1>1. BInv => TypeOK
  BY DEF BInv
<1> QED
  BY <1>1, BaseHolds, PTL

\* No callback runs without the fifo: the attributes appear after the pointer is
\* set and the ring allocated, and are gone before either goes.
THEOREM FifoThereCorrect == Spec => []FifoThere
<1>1. BInv => FifoThere
  BY DEF BInv, ModuleShape, TypeOK, Phases, Drained, FifoThere
<1> QED
  BY <1>1, BaseHolds, PTL

-----------------------------------------------------------------------------
(***************************************************************************)
(* Arithmetic of the indices: they wrap at Word, and the entries between   *)
(* two of them are counted around the wrap.                                *)
(***************************************************************************)
LEMMA CutCases ==
  ASSUME NEW a \in Int
  PROVE  /\ a \in 0 .. Word - 1 => Cut(a) = a
         /\ -Word <= a /\ a < 0 => Cut(a) = a + Word
         /\ Word <= a /\ a < 2 * Word => Cut(a) = a - Word
BY WordFacts, SMTT(30) DEF Cut

LEMMA CutStep ==
  ASSUME NEW a \in Index
  PROVE  /\ Cut(a + 1) \in Index
         /\ Cut(a + 1) = IF a + 1 = Word THEN 0 ELSE a + 1
<1>1. a + 1 \in Int /\ Word \in Int
  BY WordFacts DEF Index
<1>2. CASE a + 1 = Word
  BY WordFacts, <1>1, <1>2, CutCases DEF Index
<1>3. CASE a + 1 < Word
  BY WordFacts, <1>1, <1>3, CutCases DEF Index
<1> QED
  BY WordFacts, <1>1, <1>2, <1>3 DEF Index

LEMMA BetweenFacts ==
  ASSUME NEW a \in Index, NEW b \in Index
  PROVE  /\ Between(a, b) \in Index
         /\ a = b <=> Between(a, b) = 0
         /\ Between(a, b) = IF a >= b THEN a - b ELSE a - b + Word
<1>1. a - b \in Int /\ Word \in Nat \ {0}
  BY WordFacts DEF Index
<1>2. Between(a, b) = IF a >= b THEN a - b ELSE a - b + Word
  <2>1. CASE a >= b
    BY WordFacts, <1>1, <2>1, CutCases DEF Index, Between
  <2>2. CASE a < b
    BY WordFacts, <1>1, <2>2, CutCases DEF Index, Between
  <2> QED
    BY <2>1, <2>2 DEF Index
<1> QED
  BY <1>1, <1>2 DEF Index

LEMMA BetweenUp ==
  ASSUME NEW a \in Index, NEW b \in Index, Between(a, b) < Capacity
  PROVE  Between(Cut(a + 1), b) = Between(a, b) + 1
<1>1. /\ Cut(a + 1) \in Index
      /\ Cut(a + 1) = IF a + 1 = Word THEN 0 ELSE a + 1
  BY CutStep
<1>2. Between(Cut(a + 1), b) = IF Cut(a + 1) >= b THEN Cut(a + 1) - b ELSE Cut(a + 1) - b + Word
  BY <1>1, BetweenFacts
<1>3. Between(a, b) = IF a >= b THEN a - b ELSE a - b + Word
  BY BetweenFacts
<1> QED
  BY WordFacts, <1>1, <1>2, <1>3 DEF Index

LEMMA BetweenDown ==
  ASSUME NEW a \in Index, NEW b \in Index, a # b
  PROVE  Between(a, Cut(b + 1)) = Between(a, b) - 1
<1>1. /\ Cut(b + 1) \in Index
      /\ Cut(b + 1) = IF b + 1 = Word THEN 0 ELSE b + 1
  BY CutStep
<1>2. Between(a, Cut(b + 1)) = IF a >= Cut(b + 1) THEN a - Cut(b + 1) ELSE a - Cut(b + 1) + Word
  BY <1>1, BetweenFacts
<1>3. Between(a, b) = IF a >= b THEN a - b ELSE a - b + Word
  BY BetweenFacts
<1> QED
  BY WordFacts, <1>1, <1>2, <1>3 DEF Index

-----------------------------------------------------------------------------
(***************************************************************************)
(* One writer, one reader, resets alone.                                   *)
(***************************************************************************)
LEMMA AloneStep ==
  ASSUME OneEach, BInv, AloneShape, [Next]_vars
  PROVE  AloneShape'
<1> USE DEF BInv
<1>1. CASE Module \/ UNCHANGED vars
  BY <1>1 DEF AloneShape, vars, Module, FifoInit, AllocFails, KobjectFails, SetGlobalQueue,
       CreateGroup, Registered, RegisterFails, InitFails, Remove, Removed, ResetGlobalQueue, KfifoFree, Pass
<1>2. ASSUME NEW t \in Tasks, NEW op, NEW val, NEW at, Call(t, op, val, at)
      PROVE  AloneShape'
  <2>1. ~ Clearing /\ (op = "clear" => Drained)
    BY <1>2 DEF Call, MayCall, OneEach
  <2>2. \A u \in Tasks \ {t} : pc'[u] = pc[u] /\ loc'[u] = loc[u]
    BY <1>2 DEF Call, Goto, TypeOK
  <2>3. loc'[t].op = op
    BY <1>2 DEF Call, TypeOK
  <2> QED
    BY <2>1, <2>2, <2>3 DEF AloneShape, Clearing, Drained
<1>3. ASSUME NEW t \in Tasks, Step(t) PROVE AloneShape'
  <2>1. \A u \in Tasks \ {t} : pc'[u] = pc[u] /\ loc'[u] = loc[u]
    BY <1>3, StepTypes
  <2>2. pc[t] # "idle" /\ loc'[t].op \in {loc[t].op, "none"}
    BY <1>3 DEF Step, ReadIn, ReadOut, Ask, PutTest, PutStore, PutPublish, PutPublished, EmptyTest,
           GetTest, GetLoad, GetAdvance, GetAdvanced, ResetOut, ResetIn, Return, Goto, Answer, Set,
           TypeOK, NoCall, CallShape, PointShape
  <2> QED
    BY <2>1, <2>2 DEF AloneShape
<1> QED
  BY <1>1, <1>2, <1>3 DEF Next, EnqueueStore, DequeueShow, PeekShow, SizeShow, IsEmptyShow,
     IsFullShow, AvailableShow, ClearStore, ClearIgnored, Tasks

LEMMA IndexModule ==
  ASSUME BInv, IndexShape, Module \/ UNCHANGED vars
  PROVE  IndexShape'
<1> USE DEF BInv
<1>1. CASE UNCHANGED <<fifoVars, pc, loc>>
  BY <1>1 DEF IndexShape, WriterSees, ReaderSees, Going, Length, Resetting, fifoVars
<1>2. CASE in' = 0 /\ out' = 0 /\ UNCHANGED <<pc, loc>> /\ Drained
  <2>1. Length' = 0
    BY <1>2, WordFacts, BetweenFacts DEF Length
  <2> QED
    BY <1>2, <2>1, WordFacts DEF IndexShape, WriterSees, ReaderSees, Going, Resetting, Drained, Tasks
<1> QED
  BY <1>1, <1>2 DEF Module, FifoInit, AllocFails, KobjectFails, SetGlobalQueue,
       CreateGroup, Registered, RegisterFails, InitFails, Remove, Removed, ResetGlobalQueue, KfifoFree, Pass,
                    vars, fifoVars, ModuleShape

LEMMA IndexCall ==
  ASSUME BInv, IndexShape, NEW t \in Tasks, NEW op, NEW val, NEW at, Call(t, op, val, at),
         at \in {"test", "reset_out", "done"}
  PROVE  IndexShape'
<1>1. /\ UNCHANGED fifoVars
      /\ pc[t] = "idle" /\ pc'[t] \in {"test", "reset_out", "done"}
      /\ loc'[t].in = None /\ loc'[t].out = None
      /\ \A u \in Tasks \ {t} : pc'[u] = pc[u] /\ loc'[u] = loc[u]
  BY DEF BInv, TypeOK, Call, Goto
<1>2. Length' = Length /\ Resetting' = Resetting
  BY <1>1 DEF Length, fifoVars, Resetting
<1>3. WriterSees(t)' /\ ReaderSees(t)'
  BY <1>1, WordFacts DEF WriterSees, ReaderSees, BInv, TypeOK, fifoVars
<1> QED
  BY <1>1, <1>2, <1>3 DEF IndexShape, WriterSees, ReaderSees, Going, fifoVars, Tasks

\* A step that leaves the indices alone: only what its own task has seen changes.
LEMMA IndexQuiet ==
  ASSUME OneEach, BInv, IndexShape, AloneShape, NEW t \in Tasks, UNCHANGED <<in, out>>,
         \/ ReadIn(t) \/ ReadOut(t) \/ Ask(t) \/ PutTest(t) \/ PutStore(t) \/ PutPublish(t)
         \/ EmptyTest(t) \/ GetTest(t) \/ GetLoad(t) \/ GetAdvance(t) \/ Return(t)
  PROVE  IndexShape'
<1> USE DEF BInv
<1>1. Step(t)
  BY DEF Step
<1>2. \A u \in Tasks \ {t} : pc'[u] = pc[u] /\ loc'[u] = loc[u]
  BY <1>1, StepTypes
<1>3. pc[t] # "reset_in" /\ pc'[t] # "reset_in"
  BY DEF ReadIn, ReadOut, Ask, PutTest, PutStore, PutPublish, EmptyTest, GetTest, GetLoad,
         GetAdvance, Return, Goto, Answer, TypeOK
<1>4. Length' = Length /\ Resetting' = Resetting
  BY <1>2, <1>3 DEF Length, Resetting
<1>5. Going(t) => ~ Resetting
  BY DEF Going, Resetting, AloneShape, CallShape, PointShape
<1>6. Going(t)' => Going(t)
  BY DEF ReadIn, ReadOut, Ask, PutTest, PutStore, PutPublish, EmptyTest, GetTest, GetLoad,
         GetAdvance, Return, Goto, Answer, TypeOK, Going, Set, CallShape, PointShape, NoCall, Asks
<1>7. Length = Between(in, out) /\ Between(in, out) \in Index /\ (in = out <=> Length = 0)
  BY BetweenFacts DEF Length, TypeOK
<1>8. ASSUME t \in Writers PROVE WriterSees(t)'
  <2> SUFFICES ASSUME Going(t), Going(t)' PROVE WriterSees(t)'
    BY <1>6 DEF WriterSees
  <2>1. WriterSees(t) /\ Length <= Capacity
    BY <1>5, <1>8 DEF IndexShape
  <2>2. /\ UNCHANGED <<in, out>> /\ Length' = Length
        /\ in \in Index /\ out \in Index /\ None \notin Index
        /\ loc[t].in \in Index \union {None} /\ loc[t].out \in Index \union {None}
    BY <1>4, WordFacts DEF TypeOK
  <2> USE DEF WriterSees, Going
  <2>a. CASE ReadIn(t)
    BY <1>7, <2>1, <2>2, <2>a DEF ReadIn, Set, TypeOK
  <2>b. CASE ReadOut(t)
    <3>1. loc'[t].out = out /\ loc'[t].in = loc[t].in /\ pc'[t] \in {"test", "retest"}
      BY <2>b DEF ReadOut, Set, TypeOK
    <3>2. Length <= Between(in, out) /\ Between(in, out) <= Capacity
      BY <1>7, <2>1, WordFacts DEF Index
    <3> QED
      BY <2>1, <2>2, <2>b, <3>1, <3>2 DEF ReadOut
  <2>c. CASE Ask(t)
    BY <1>7, <2>1, <2>2, <2>c DEF Ask, Goto, IndicesRead, Asks, TypeOK
  <2>d. CASE PutTest(t)
    <3>1. loc[t].in = in /\ loc[t].out \in Index /\ pc[t] = "test"
      BY <2>1, <2>2, <2>d DEF PutTest, IndicesRead, Goto, Answer
    <3>2. Between(in, loc[t].out) \in Int
      <4>1. Between(in, loc[t].out) \in Index
        BY <2>2, <3>1, BetweenFacts
      <4> QED
        BY <4>1, WordFacts DEF Index
    <3>3. CASE FullSeen(t)
      BY <2>1, <2>2, <2>d, <3>1, <3>3 DEF PutTest, Answer, Goto, Set, TypeOK, Asks
    <3>4. CASE ~ FullSeen(t)
      <4>1. Between(in, loc[t].out) < Capacity
        BY <3>1, <3>2, <3>4, WordFacts DEF FullSeen, LengthSeen
      <4>2. pc'[t] = "store" /\ loc'[t] = loc[t]
        BY <2>d, <3>4 DEF PutTest, Goto, TypeOK
      <4> QED
        BY <2>1, <2>2, <3>1, <4>1, <4>2
    <3> QED
      BY <3>3, <3>4
  <2>e. CASE PutStore(t)
    BY <1>7, <2>1, <2>2, <2>e DEF PutStore, Goto, TypeOK
  <2>f. CASE PutPublish(t)
    BY <1>7, <2>1, <2>2, <2>f DEF PutPublish, Goto, Set, TypeOK
  <2>g. CASE Return(t)
    BY <1>7, <2>1, <2>2, <2>g DEF Return, Goto, NoCall, TypeOK
  <2>z. ~ (EmptyTest(t) \/ GetTest(t) \/ GetLoad(t) \/ GetAdvance(t))
    BY <1>8 DEF OneEach, CallShape, PointShape, EmptyTest, GetTest, GetLoad, GetAdvance, Goto, TypeOK
  <2> QED
    BY <2>a, <2>b, <2>c, <2>d, <2>e, <2>f, <2>g, <2>z
<1>9. ASSUME t \in Readers PROVE ReaderSees(t)'
  <2> SUFFICES ASSUME Going(t), Going(t)' PROVE ReaderSees(t)'
    BY <1>6 DEF ReaderSees
  <2>1. ReaderSees(t) /\ Length <= Capacity
    BY <1>5, <1>9 DEF IndexShape
  <2>2. /\ UNCHANGED <<in, out>> /\ Length' = Length
        /\ in \in Index /\ out \in Index /\ None \notin Index
        /\ loc[t].in \in Index \union {None} /\ loc[t].out \in Index \union {None}
    BY <1>4, WordFacts DEF TypeOK
  <2> USE DEF ReaderSees, Going
  <2>a. CASE ReadIn(t)
    <3>1. loc'[t].in = in /\ loc'[t].out = loc[t].out /\ pc'[t] = pc[t] /\ pc[t] \in {"test", "retest"}
      BY <2>a DEF ReadIn, Set, TypeOK
    <3>2. Between(in, out) <= Length
      BY <1>7, WordFacts DEF Index
    <3> QED
      BY <2>1, <2>2, <3>1, <3>2
  <2>b. CASE ReadOut(t)
    BY <1>7, <2>1, <2>2, <2>b DEF ReadOut, Set, TypeOK
  <2>c. CASE Ask(t)
    BY <1>7, <2>1, <2>2, <2>c DEF Ask, Goto, IndicesRead, Asks, TypeOK
  <2>d. CASE EmptyTest(t)
    BY <1>7, <2>1, <2>2, <2>d DEF EmptyTest, Goto, Answer, Set, EmptySeen, IndicesRead, TypeOK
  <2>e. CASE GetTest(t)
    BY <1>7, <2>1, <2>2, <2>e DEF GetTest, Goto, Set, EmptySeen, IndicesRead, TypeOK
  <2>f. CASE GetLoad(t)
    BY <1>7, <2>1, <2>2, <2>f DEF GetLoad, Goto, Set, CallShape, PointShape, Asks, TypeOK
  <2>g. CASE GetAdvance(t)
    BY <1>7, <2>1, <2>2, <2>g DEF GetAdvance, Goto, Set, TypeOK
  <2>h. CASE Return(t)
    BY <1>7, <2>1, <2>2, <2>h DEF Return, Goto, NoCall, TypeOK
  <2>z. ~ (PutTest(t) \/ PutStore(t) \/ PutPublish(t))
    BY <1>9 DEF OneEach, CallShape, PointShape, PutTest, PutStore, PutPublish, Goto, TypeOK
  <2> QED
    BY <2>a, <2>b, <2>c, <2>d, <2>e, <2>f, <2>g, <2>h, <2>z
<1> QED
  BY <1>2, <1>3, <1>4, <1>8, <1>9 DEF IndexShape, WriterSees, ReaderSees, Going, Tasks

\* The index moves behind the writer or the reader, or is reset.
LEMMA IndexMoves ==
  ASSUME OneEach, BInv, IndexShape, AloneShape, NEW t \in Tasks,
         PutPublished(t) \/ GetAdvanced(t) \/ ResetOut(t) \/ ResetIn(t)
  PROVE  IndexShape'
<1> USE DEF BInv
<1>1. Step(t)
  BY DEF Step
<1>2. \A u \in Tasks \ {t} : pc'[u] = pc[u] /\ loc'[u] = loc[u]
  BY <1>1, StepTypes
<1>3. ~ Going(t)'
  BY DEF PutPublished, GetAdvanced, ResetOut, ResetIn, Goto, TypeOK, Going, CallShape, PointShape, Asks
<1>4. Going(t) => ~ Resetting
  BY DEF Going, Resetting, AloneShape, CallShape, PointShape
<1>5. in \in Index /\ out \in Index /\ Length = Between(in, out) /\ Length \in Index
  BY BetweenFacts DEF Length, TypeOK
<1>6. CASE PutPublished(t)
  <2>1. /\ t \in Writers /\ pc[t] = "published" /\ pc'[t] = "done" /\ loc[t].out \in Index
        /\ loc[t].in = in /\ Length <= Between(in, loc[t].out) /\ Between(in, loc[t].out) < Capacity
    BY <1>6, WordFacts DEF PutPublished, Goto, IndexShape, WriterSees, Going, CallShape, PointShape,
       TypeOK
  <2>2. Between(in, loc[t].out) \in Index
    BY <1>5, <2>1, BetweenFacts
  <2>3. Length < Capacity
    BY <1>5, <2>1, <2>2, WordFacts DEF Index
  <2>4. Length' = Length + 1 /\ out' = out /\ in' = Cut(in + 1)
    BY <1>5, <1>6, <2>1, <2>3, BetweenUp DEF PutPublished, Length
  <2>5. \A u \in Writers : WriterSees(u)'
    BY <1>3, <2>1 DEF OneEach, WriterSees
  <2>6. ASSUME NEW u \in Readers PROVE ReaderSees(u)'
    <3>1. u # t /\ ReaderSees(u)
      BY <2>1, <2>6 DEF OneEach, IndexShape
    <3>2. /\ pc'[u] = pc[u] /\ loc'[u] = loc[u]
          /\ loc[u].in \in Index \union {None}
      BY <1>2, <3>1 DEF Tasks, TypeOK
    <3>3. loc[u].in # None => Between(loc[u].in, out) \in Index
      BY <1>5, <3>2, BetweenFacts
    <3>4. in # out => in' # out'
      <4>1. in' \in Index
        BY <1>5, <2>4, CutStep
      <4>2. Length' # 0
        BY <1>5, <2>4 DEF Index
      <4> QED
        BY <1>5, <2>4, <4>1, <4>2, BetweenFacts DEF Length
    <3> QED
      BY <1>5, <2>4, <3>1, <3>2, <3>3, <3>4, WordFacts DEF ReaderSees, Going, Index
  <2>7. ~ Resetting'
    BY <1>2, <1>4, <2>1 DEF Resetting, Going
  <2> QED
    BY <1>5, <2>3, <2>4, <2>5, <2>6, <2>7, WordFacts DEF IndexShape, Index
<1>7. CASE GetAdvanced(t)
  <2>1. /\ t \in Readers /\ pc[t] = "advanced" /\ pc'[t] = "done" /\ loc[t].out = out /\ in # out
    BY <1>7, WordFacts DEF GetAdvanced, Goto, IndexShape, ReaderSees, Going, CallShape, PointShape,
       TypeOK
  <2>2. Length' = Length - 1 /\ in' = in /\ out' = Cut(out + 1)
    BY <1>5, <1>7, <2>1, BetweenDown DEF GetAdvanced, Length
  <2>3. ~ Resetting /\ Length <= Capacity
    BY <1>4, <2>1 DEF Going, IndexShape
  <2>4. \A u \in Readers : ReaderSees(u)'
    BY <1>3, <2>1 DEF OneEach, ReaderSees
  <2>5. ASSUME NEW u \in Writers PROVE WriterSees(u)'
    <3>1. u # t /\ WriterSees(u)
      BY <2>1, <2>5 DEF OneEach, IndexShape
    <3>2. /\ pc'[u] = pc[u] /\ loc'[u] = loc[u]
          /\ loc[u].out \in Index \union {None}
      BY <1>2, <3>1 DEF Tasks, TypeOK
    <3>3. loc[u].out # None => Between(in, loc[u].out) \in Index
      BY <1>5, <3>2, BetweenFacts
    <3> QED
      BY <1>5, <2>2, <3>1, <3>2, <3>3, WordFacts DEF WriterSees, Going, Index
  <2>6. ~ Resetting'
    BY <1>2, <2>1, <2>3 DEF Resetting
  <2> QED
    BY <1>5, <2>2, <2>3, <2>4, <2>5, <2>6, WordFacts DEF IndexShape, Index
<1>8. CASE ResetOut(t) \/ ResetIn(t)
  <2>1. \A u \in Tasks : ~ Going(u)'
    BY <1>2, <1>3, <1>8 DEF ResetOut, ResetIn, Goto, AloneShape, CallShape, PointShape, Going
  <2>2. (\A u \in Writers : WriterSees(u)') /\ (\A u \in Readers : ReaderSees(u)')
    BY <2>1 DEF WriterSees, ReaderSees, Tasks
  <2>3. CASE ResetOut(t)
    BY <2>2, <2>3 DEF ResetOut, Goto, TypeOK, Resetting, IndexShape
  <2>4. CASE ResetIn(t)
    <3>1. out' = 0 /\ in' = 0
      BY <2>4 DEF ResetIn, Goto, Resetting, IndexShape
    <3>2. Length' = 0
      BY <3>1, WordFacts, BetweenFacts DEF Length
    <3> QED
      BY <2>2, <3>1, <3>2, WordFacts DEF IndexShape
  <2> QED
    BY <1>8, <2>3, <2>4
<1> QED
  BY <1>6, <1>7, <1>8

LEMMA IndexNext ==
  ASSUME OneEach, BInv, IndexShape, AloneShape, [Next]_vars
  PROVE  IndexShape'
<1>1. CASE Module \/ UNCHANGED vars
  BY <1>1, IndexModule
<1>2. ASSUME NEW t \in Tasks, NEW op, NEW val, NEW at \in {"test", "reset_out", "done"},
             Call(t, op, val, at)
      PROVE  IndexShape'
  BY <1>2, IndexCall
<1>3. ASSUME NEW t \in Tasks, Step(t) PROVE IndexShape'
  <2>1. CASE PutPublished(t) \/ GetAdvanced(t) \/ ResetOut(t) \/ ResetIn(t)
    BY <2>1, IndexMoves
  <2>2. CASE \/ ReadIn(t) \/ ReadOut(t) \/ Ask(t) \/ PutTest(t) \/ PutStore(t) \/ PutPublish(t)
             \/ EmptyTest(t) \/ GetTest(t) \/ GetLoad(t) \/ GetAdvance(t) \/ Return(t)
    <3>1. UNCHANGED <<in, out>>
      BY <2>2 DEF ReadIn, ReadOut, Ask, PutTest, PutStore, PutPublish, EmptyTest, GetTest, GetLoad,
                  GetAdvance, Return, fifoVars
    <3> QED
      BY <2>2, <3>1, IndexQuiet
  <2> QED
    BY <1>3, <2>1, <2>2 DEF Step
<1> QED
  BY <1>1, <1>2, <1>3 DEF Next, EnqueueStore, DequeueShow, PeekShow, SizeShow, IsEmptyShow,
     IsFullShow, AvailableShow, ClearStore, ClearIgnored, Tasks

IInv == BInv /\ AloneShape /\ IndexShape

LEMMA IInvHolds == OneEach => (Spec => []IInv)
<1> SUFFICES ASSUME OneEach PROVE Spec => []IInv
  OBVIOUS
<1>1. Init => IInv
  <2> SUFFICES ASSUME Init PROVE AloneShape /\ IndexShape
    BY InitBase DEF IInv
  <2>1. AloneShape /\ ~ Resetting /\ \A t \in Tasks : ~ Going(t)
    BY DEF Init, AloneShape, NoCall, Resetting, Going
  <2>2. Length = 0
    BY WordFacts, BetweenFacts DEF Init, Length
  <2> QED
    BY <2>1, <2>2, WordFacts DEF IndexShape, WriterSees, ReaderSees, Tasks
<1>2. IInv /\ [Next]_vars => IInv'
  BY NextBase, AloneStep, IndexNext DEF IInv
<1> QED
  BY <1>1, <1>2, PTL DEF Spec

\* What a writer has seen of the room, and a reader of the values, is there
\* until it is used, whatever the other side does in between.
THEOREM SeenHoldsCorrect == OneEach => (Spec => []SeenHolds)
<1> SUFFICES ASSUME OneEach PROVE Spec => []SeenHolds
  OBVIOUS
<1>1. IInv => SeenHolds
  <2> SUFFICES ASSUME IInv, NEW t \in Tasks, Relying(t)
               PROVE  /\ LengthSeen(t) <= Capacity
                      /\ t \in Writers => Length <= LengthSeen(t)
                      /\ t \in Readers => LengthSeen(t) <= Length
    BY DEF SeenHolds, IInv, IndexShape, Resetting
  <2> USE DEF IInv, BInv
  <2>1. Going(t) /\ loc[t].in \in Index /\ loc[t].out \in Index
    BY DEF Relying, Going, Asks, IndicesRead, TypeOK
  <2>2. ~ Resetting /\ Length <= Capacity
    BY <2>1 DEF Going, Resetting, AloneShape, CallShape, PointShape, IndexShape
  <2>3. LengthSeen(t) \in Int /\ Length \in Int
    <3>1. LengthSeen(t) \in Index /\ Length \in Index
      BY <2>1, BetweenFacts DEF LengthSeen, Length, TypeOK
    <3> QED
      BY <3>1, WordFacts DEF Index
  <2>4. CASE t \in Writers
    BY <2>1, <2>2, <2>3, <2>4, WordFacts DEF OneEach, IndexShape, WriterSees, LengthSeen
  <2>5. CASE t \in Readers
    BY <2>1, <2>2, <2>3, <2>5, WordFacts DEF OneEach, IndexShape, ReaderSees, LengthSeen
  <2> QED
    BY <2>4, <2>5 DEF Tasks
<1> QED
  BY <1>1, IInvHolds, PTL

\* The writer that is told "full" saw exactly Capacity values: it has not read
\* one index of one moment and the other of another (fifo_ops.c:44, sysfs.c:35).
THEOREM FullMeansFullCorrect == OneEach => (Spec => []FullMeansFull)
<1> SUFFICES ASSUME OneEach PROVE Spec => []FullMeansFull
  OBVIOUS
<1>1. Init => FullMeansFull
  BY DEF Init, FullMeansFull, NoCall
<1>2. IInv /\ FullMeansFull /\ [Next]_vars => FullMeansFull'
  <2> SUFFICES ASSUME IInv, FullMeansFull, [Next]_vars PROVE FullMeansFull'
    OBVIOUS
  <2> USE DEF IInv, BInv
  <2>1. CASE Module \/ UNCHANGED vars
    BY <2>1 DEF FullMeansFull, LengthSeen, vars, Module, FifoInit, AllocFails, KobjectFails, SetGlobalQueue,
       CreateGroup, Registered, RegisterFails, InitFails, Remove, Removed, ResetGlobalQueue, KfifoFree, Pass
  <2>2. ASSUME NEW t \in Tasks, NEW op, NEW val, NEW at, Call(t, op, val, at)
        PROVE  FullMeansFull'
    <3>1. loc'[t].rc # "full" /\ \A u \in Tasks \ {t} : loc'[u] = loc[u]
      BY <2>2 DEF Call, TypeOK
    <3> QED
      BY <3>1 DEF FullMeansFull, LengthSeen
  <2>3. ASSUME NEW t \in Tasks, Step(t) PROVE FullMeansFull'
    <3>1. \A u \in Tasks \ {t} : pc'[u] = pc[u] /\ loc'[u] = loc[u]
      BY <2>3, StepTypes
    <3>2. ASSUME loc'[t].rc = "full" PROVE LengthSeen(t)' = Capacity
      <4>1. loc[t].rc # "full"
        BY <2>3, <3>2 DEF Step, ReadIn, ReadOut, Ask, PutTest, PutStore, PutPublish, PutPublished,
           EmptyTest, GetTest, GetLoad, GetAdvance, GetAdvanced, ResetOut, ResetIn, Return, Goto,
           Answer, TypeOK, CallShape, PointShape, NoCall
      <4>2. PutTest(t)
        BY <2>3, <3>2, <4>1 DEF Step, ReadIn, ReadOut, Ask, PutStore, PutPublish, PutPublished,
           EmptyTest, GetTest, GetLoad, GetAdvance, GetAdvanced, ResetOut, ResetIn, Return, Answer,
           Set, TypeOK, NoCall
      <4>3. FullSeen(t) /\ pc[t] = "test" /\ loc'[t].in = loc[t].in /\ loc'[t].out = loc[t].out
        BY <3>2, <4>1, <4>2 DEF PutTest, Answer, Goto, Set, TypeOK
      <4>4. /\ t \in Writers /\ loc[t].in = in /\ loc[t].out \in Index /\ in \in Index
            /\ Between(in, loc[t].out) <= Capacity
        BY <4>2, <4>3 DEF PutTest, IndicesRead, CallShape, PointShape, IndexShape, WriterSees, Going,
           TypeOK
      <4>5. Between(in, loc[t].out) \in Int
        BY <4>4, BetweenFacts, WordFacts DEF Index
      <4> QED
        BY <4>3, <4>4, <4>5, WordFacts DEF FullSeen, LengthSeen
    <3>3. ASSUME NEW u \in Tasks \ {t}, loc'[u].rc = "full" PROVE LengthSeen(u)' = Capacity
      BY <3>1, <3>3 DEF FullMeansFull, LengthSeen
    <3> QED
      BY <3>2, <3>3 DEF FullMeansFull
  <2> QED
    BY <2>1, <2>2, <2>3 DEF Next, EnqueueStore, DequeueShow, PeekShow, SizeShow, IsEmptyShow,
       IsFullShow, AvailableShow, ClearStore, ClearIgnored, Tasks
<1> QED
  BY <1>1, <1>2, IInvHolds, PTL DEF Spec

-----------------------------------------------------------------------------
(***************************************************************************)
(* With one writer, one reader and resets alone, KernelFifo implements     *)
(* BoundedFifo.  This adds what the ring holds between an entry and its    *)
(* index (RingShape).  The entries from out on are the contents: the       *)
(* lemmas about Slot say that distinct entries have distinct slots, around *)
(* the ring and around the wrap of the indices.                            *)
(***************************************************************************)
Entries == Values \union {Garbage}

RingShape ==
  /\ \A t \in Writers : pc[t] \in {"publish", "published"} => ring[Slot(in)] = loc[t].val
  /\ \A t \in Readers : pc[t] \in {"advance", "advanced"} => loc[t].val = ring[Slot(out)]

-----------------------------------------------------------------------------
(***************************************************************************)
(* Arithmetic of the slots.                                                *)
(***************************************************************************)
\* Division with remainder, and that it is unique.
LEMMA DivMod ==
  ASSUME NEW C \in Nat \ {0}, NEW a \in Int
  PROVE  \E q \in Int, r \in 0 .. C - 1 : a = C * q + r /\ r = a % C
<1>1. a \div C \in Int /\ a % C \in 0 .. C - 1
  BY SMTT(30)
<1>2. a - C * (a \div C) = a % C
  BY SMTT(30)
<1>3. PICK q \in Int, r \in 0 .. C - 1 : q = a \div C /\ r = a % C
  BY <1>1
<1>4. a - C * q = r /\ C * q \in Int
  BY <1>2, <1>3
<1>5. a = C * q + r
  BY <1>4
<1> QED
  BY <1>3, <1>5

LEMMA Unique ==
  ASSUME NEW C \in Nat \ {0}, NEW q \in Int, NEW p \in Int, NEW r \in 0 .. C - 1, NEW s \in 0 .. C - 1,
         C * q + r = C * p + s
  PROVE  q = p /\ r = s
<1>1. ASSUME q < p PROVE FALSE
  <2>1. p - q - 1 \in Nat /\ C * (p - q - 1) >= 0
    BY <1>1, SMTT(30)
  <2>2. C * (p - q - 1) = C * p - C * q - C
    BY SMTT(30)
  <2> QED
    BY <2>1, <2>2, SMTT(30)
<1>2. ASSUME q > p PROVE FALSE
  <2>1. q - p - 1 \in Nat /\ C * (q - p - 1) >= 0
    BY <1>2, SMTT(30)
  <2>2. C * (q - p - 1) = C * q - C * p - C
    BY SMTT(30)
  <2> QED
    BY <2>1, <2>2, SMTT(30)
<1>3. q = p
  BY <1>1, <1>2
<1> QED
  BY <1>3, SMTT(30)

LEMMA ModRound ==
  ASSUME NEW C \in Nat \ {0}, NEW n \in Int, NEW a \in Int
  PROVE  (a + n * C) % C = a % C
<1>1. PICK q \in Int, r \in 0 .. C - 1 : a = C * q + r /\ r = a % C
  BY DivMod
<1>2. a + n * C \in Int
  OBVIOUS
<1>3. PICK p \in Int, s \in 0 .. C - 1 : a + n * C = C * p + s /\ s = (a + n * C) % C
  BY <1>2, DivMod
<1>4. C * (q + n) = C * q + n * C /\ C * q \in Int /\ n * C \in Int /\ C * p \in Int
  BY SMTT(30)
<1>5. C * p + s = C * (q + n) + r
  BY <1>1, <1>3, <1>4
<1>6. s = r
  BY <1>5, Unique
<1> QED
  BY <1>1, <1>3, <1>6

LEMMA ModDistinct ==
  ASSUME NEW C \in Nat \ {0}, NEW a \in Int, NEW k \in 0 .. C - 1, NEW l \in 0 .. C - 1,
         (a + k) % C = (a + l) % C
  PROVE  k = l
<1>1. a + k \in Int /\ a + l \in Int
  OBVIOUS
<1>2. PICK q \in Int, r \in 0 .. C - 1 : a + k = C * q + r /\ r = (a + k) % C
  BY <1>1, DivMod
<1>3. PICK p \in Int, s \in 0 .. C - 1 : a + l = C * p + s /\ s = (a + l) % C
  BY <1>1, DivMod
<1>4. C * q + l = C * p + k
  <2>1. C * q \in Int /\ C * p \in Int
    OBVIOUS
  <2> QED
    BY <1>2, <1>3, <2>1
<1> QED
  BY <1>4, Unique

-----------------------------------------------------------------------------
LEMMA SlotDistinct ==
  ASSUME NEW a \in Index, NEW k \in Slots, NEW l \in Slots, Slot(a + k) = Slot(a + l)
  PROVE  k = l
<1>1. /\ Capacity \in Nat \ {0} /\ a \in Int
      /\ k \in 0 .. Capacity - 1 /\ l \in 0 .. Capacity - 1
      /\ (a + k) % Capacity = (a + l) % Capacity
  BY WordFacts DEF Slot, Slots, Index
<1> QED
  BY <1>1, ModDistinct

\* Cutting an index at the wrap leaves its slot alone.
LEMMA SlotRound ==
  ASSUME NEW a \in Int, NEW b \in Int, a = b \/ a = b + Word \/ b = a + Word
  PROVE  Slot(a) = Slot(b)
<1>1. PICK n \in Int : Word = n * Capacity
  BY FifoAssumption
<1>2. Capacity \in Nat \ {0} /\ \A c \in Int : (c + n * Capacity) % Capacity = c % Capacity
  BY WordFacts, ModRound
<1> QED
  BY <1>1, <1>2 DEF Slot

LEMMA SlotNext ==
  ASSUME NEW a \in Index, NEW k \in Int
  PROVE  Slot(Cut(a + 1) + k) = Slot(a + 1 + k)
<1>1. Cut(a + 1) = a + 1 \/ Cut(a + 1) = a + 1 - Word
  BY CutStep, WordFacts DEF Index
<1>2. /\ Cut(a + 1) + k \in Int /\ a + 1 + k \in Int
      /\ \/ a + 1 + k = Cut(a + 1) + k
         \/ a + 1 + k = (Cut(a + 1) + k) + Word
  BY <1>1, WordFacts DEF Index
<1> QED
  BY <1>2, SlotRound

LEMMA SlotOfIn ==
  ASSUME BInv
  PROVE  Slot(in) = Slot(out + Length) /\ Slot(out) = Slot(out + 0)
<1>1. in \in Int /\ out \in Int /\ Word \in Int
  BY WordFacts DEF BInv, TypeOK, Index
<1>2. Length = in - out \/ Length = in - out + Word
  BY <1>1, BetweenFacts DEF Length, BInv, TypeOK
<1>3. out + Length \in Int /\ (out + Length = in \/ out + Length = in + Word)
  BY <1>1, <1>2
<1> QED
  BY <1>1, <1>3, SlotRound

-----------------------------------------------------------------------------
(***************************************************************************)
(* The ring.                                                               *)
(***************************************************************************)
LEMMA LengthFacts ==
  ASSUME IInv
  PROVE  /\ in \in Index /\ out \in Index /\ in \in Int /\ out \in Int /\ Length \in Nat
         /\ in = out <=> Length = 0
         /\ \A t \in Tasks : Going(t) => ~ Resetting
         /\ ~ Resetting => Length <= Capacity
<1>1. in \in Index /\ out \in Index /\ Length \in Index /\ (in = out <=> Length = 0)
  BY BetweenFacts DEF Length, IInv, BInv, TypeOK
<1>2. \A t \in Tasks : Going(t) => ~ Resetting
  BY DEF Going, Resetting, AloneShape, CallShape, PointShape, IInv, BInv
<1> QED
  BY <1>1, <1>2, WordFacts DEF Index, IInv, IndexShape

\* A writer stores into a slot that holds no value yet, the one after the last.
LEMMA StoreFree ==
  ASSUME OneEach, IInv, NEW t \in Tasks, PutStore(t)
  PROVE  /\ t \in Writers /\ Length < Capacity
         /\ ring' = [ring EXCEPT ![Slot(in)] = loc[t].val]
         /\ \A k \in 0 .. Length - 1 : Slot(out + k) # Slot(in)
<1>1. /\ t \in Writers /\ loc[t].in = in /\ loc[t].out \in Index
      /\ Length <= Between(in, loc[t].out) /\ Between(in, loc[t].out) < Capacity
  BY DEF PutStore, Goto, IInv, BInv, TypeOK, CallShape, PointShape, IndexShape, WriterSees, Going
<1>2. Between(in, loc[t].out) \in Int /\ Length \in Nat
  <2>1. Between(in, loc[t].out) \in Index
    BY <1>1, BetweenFacts, LengthFacts
  <2> QED
    BY <2>1, LengthFacts, WordFacts DEF Index
<1>3. Length < Capacity
  BY <1>1, <1>2, WordFacts
<1>4. ASSUME NEW k \in 0 .. Length - 1 PROVE Slot(out + k) # Slot(in)
  <2>1. k \in Slots /\ Length \in Slots /\ k # Length
    BY <1>2, <1>3, WordFacts DEF Slots
  <2> QED
    BY <2>1, SlotDistinct, SlotOfIn, LengthFacts DEF IInv
<1> QED
  BY <1>1, <1>3, <1>4 DEF PutStore

LEMMA RingModule ==
  ASSUME IInv, RingShape, Module \/ UNCHANGED vars
  PROVE  RingShape'
<1>1. CASE UNCHANGED <<fifoVars, pc, loc>>
  BY <1>1 DEF RingShape, fifoVars
<1>2. CASE UNCHANGED pc /\ Drained
  BY <1>2 DEF RingShape, Drained, Tasks
<1> QED
  BY <1>1, <1>2 DEF Module, FifoInit, AllocFails, KobjectFails, SetGlobalQueue,
       CreateGroup, Registered, RegisterFails, InitFails, Remove, Removed, ResetGlobalQueue, KfifoFree, Pass,
                    vars, fifoVars, IInv, BInv, ModuleShape

LEMMA RingCall ==
  ASSUME IInv, RingShape, NEW t \in Tasks, NEW op, NEW val, NEW at, Call(t, op, val, at),
         at \in {"test", "reset_out", "done"}
  PROVE  RingShape'
<1>1. /\ UNCHANGED fifoVars
      /\ pc'[t] \in {"test", "reset_out", "done"}
      /\ \A u \in Tasks \ {t} : pc'[u] = pc[u] /\ loc'[u] = loc[u]
  BY DEF IInv, BInv, TypeOK, Call, Goto
<1> QED
  BY <1>1 DEF RingShape, Tasks, fifoVars

LEMMA RingStep ==
  ASSUME OneEach, IInv, RingShape, NEW t \in Tasks, Step(t)
  PROVE  RingShape'
<1> USE DEF IInv, BInv
<1>1. \A u \in Tasks \ {t} : pc'[u] = pc[u] /\ loc'[u] = loc[u]
  BY StepTypes
<1>2. CASE PutStore(t)
  <2>1. /\ t \in Writers /\ Length < Capacity
        /\ ring' = [ring EXCEPT ![Slot(in)] = loc[t].val]
        /\ \A k \in 0 .. Length - 1 : Slot(out + k) # Slot(in)
    BY <1>2, StoreFree
  <2>2. Slot(in) \in Slots /\ Slot(out) = Slot(out + 0)
    BY IndexCut, SlotOfIn, LengthFacts
  <2>3. ring'[Slot(in)] = loc[t].val /\ UNCHANGED <<in, out, loc>>
    BY <1>2, <2>1, <2>2 DEF PutStore, TypeOK
  <2>4. ASSUME NEW u \in Readers, pc'[u] \in {"advance", "advanced"}
        PROVE  loc'[u].val = ring'[Slot(out')]
    <3>1. u # t /\ pc[u] \in {"advance", "advanced"} /\ loc'[u] = loc[u]
      BY <1>1, <2>1, <2>4 DEF OneEach, Tasks
    <3>2. Length >= 1
      BY <3>1, <2>4, LengthFacts DEF IndexShape, ReaderSees, Going
    <3>3. Slot(out) # Slot(in)
      BY <2>1, <2>2, <3>2, LengthFacts
    <3> QED
      BY <2>1, <2>2, <2>3, <3>1, <3>3 DEF RingShape, TypeOK
  <2> QED
    BY <2>1, <2>3, <2>4 DEF RingShape, OneEach
<1>3. CASE PutPublish(t)
  BY <1>1, <1>3 DEF PutPublish, Goto, Set, RingShape, fifoVars, TypeOK, Tasks
<1>4. CASE PutPublished(t)
  <2>1. t \in Writers /\ pc'[t] = "done" /\ UNCHANGED <<ring, out, loc>>
    BY <1>4 DEF PutPublished, Goto, TypeOK, CallShape, PointShape
  <2> QED
    BY <1>1, <2>1 DEF RingShape, OneEach, Tasks
<1>5. CASE GetLoad(t)
  <2>1. t \in Readers /\ pc[t] = "load" /\ loc[t].out = out
    BY <1>5, WordFacts DEF GetLoad, Goto, TypeOK, CallShape, PointShape, IndexShape, ReaderSees, Going
  <2>2. loc'[t].val = ring[Slot(out)] /\ UNCHANGED fifoVars /\ pc'[t] \notin {"publish", "published"}
    BY <1>5, <2>1 DEF GetLoad, Goto, Set, TypeOK
  <2> QED
    BY <1>1, <2>1, <2>2 DEF RingShape, OneEach, Tasks, fifoVars
<1>6. CASE GetAdvance(t)
  BY <1>1, <1>6 DEF GetAdvance, Goto, Set, RingShape, fifoVars, TypeOK, Tasks
<1>7. CASE GetAdvanced(t)
  <2>1. t \in Readers /\ pc'[t] = "done" /\ UNCHANGED <<ring, in, loc>>
    BY <1>7 DEF GetAdvanced, Goto, TypeOK, CallShape, PointShape
  <2> QED
    BY <1>1, <2>1 DEF RingShape, OneEach, Tasks
<1>8. CASE ResetOut(t) \/ ResetIn(t)
  <2>1. \A u \in Tasks : pc'[u] \in {"idle", "reset_in", "done"}
    BY <1>1, <1>8 DEF ResetOut, ResetIn, Goto, AloneShape, CallShape, PointShape, TypeOK
  <2> QED
    BY <2>1 DEF RingShape, Tasks
<1>9. CASE \/ ReadIn(t) \/ ReadOut(t) \/ Ask(t) \/ PutTest(t) \/ EmptyTest(t) \/ GetTest(t) \/ Return(t)
  <2>1. UNCHANGED fifoVars /\ pc'[t] \notin {"publish", "published", "advance", "advanced"}
    BY <1>9 DEF ReadIn, ReadOut, Ask, PutTest, EmptyTest, GetTest, Return, Goto, Answer, TypeOK
  <2> QED
    BY <1>1, <2>1 DEF RingShape, fifoVars, Tasks
<1> QED
  BY <1>2, <1>3, <1>4, <1>5, <1>6, <1>7, <1>8, <1>9 DEF Step

-----------------------------------------------------------------------------
(***************************************************************************)
(* The contents.                                                           *)
(***************************************************************************)
LEMMA SameBound ==
  ASSUME NEW m \in Nat, NEW n \in Nat, 1 .. m = 1 .. n
  PROVE  m = n
<1>1. ASSUME m < n PROVE FALSE
  <2>1. n \in 1 .. n /\ n \notin 1 .. m
    BY <1>1
  <2> QED
    BY <2>1
<1>2. ASSUME n < m PROVE FALSE
  <2>1. m \in 1 .. m /\ m \notin 1 .. n
    BY <1>2
  <2> QED
    BY <2>1
<1> QED
  BY <1>1, <1>2

ContentsAre ==
  /\ Contents \in Seq(Entries) /\ Len(Contents) = Length
  /\ \A k \in 1 .. Length : Contents[k] = ring[Slot(out + k - 1)]

LEMMA ContentsShape == IInv /\ held /\ ~ Resetting => ContentsAre
<1> SUFFICES ASSUME IInv, held, ~ Resetting PROVE ContentsAre
  OBVIOUS
<1>1. Contents = [k \in 1 .. Length |-> ring[Slot(out + k - 1)]]
  BY DEF Contents, Resetting
<1>2. Length \in Nat /\ out \in Int
  BY LengthFacts
<1>3. \A k \in 1 .. Length : ring[Slot(out + k - 1)] \in Entries
  <2> SUFFICES ASSUME NEW k \in 1 .. Length PROVE ring[Slot(out + k - 1)] \in Entries
    OBVIOUS
  <2>1. out + k - 1 \in Int
    BY <1>2
  <2> QED
    BY <2>1, IndexCut DEF IInv, BInv, TypeOK, Entries
<1>4. Contents \in [1 .. Length -> Entries]
  BY <1>1, <1>3
<1>5. Contents \in Seq(Entries)
  BY <1>2, <1>4, SeqDef
<1>6. DOMAIN Contents = 1 .. Len(Contents) /\ DOMAIN Contents = 1 .. Length /\ Len(Contents) \in Nat
  BY <1>4, <1>5, LenProperties
<1>7. Len(Contents) = Length
  BY <1>2, <1>6, SameBound
<1> QED
  BY <1>1, <1>5, <1>7 DEF ContentsAre

LEMMA ContentsShapeNext == IInv' /\ held' /\ ~ Resetting' => ContentsAre'
<1> QED
  BY ContentsShape, PTL

LEMMA ContentsEmpty == ~ held \/ Resetting \/ Length = 0 => Contents = <<>>
<1> SUFFICES ASSUME ~ held \/ Resetting \/ Length = 0 PROVE Contents = <<>>
  OBVIOUS
<1>1. CASE ~ held \/ Resetting
  BY <1>1 DEF Contents, Resetting
<1>2. CASE held /\ ~ Resetting /\ Length = 0
  <2>1. Contents = [k \in 1 .. 0 |-> ring[Slot(out + k - 1)]]
    BY <1>2 DEF Contents, Resetting
  <2>2. Contents \in [1 .. 0 -> {}] /\ 1 .. 0 = {}
    BY <2>1
  <2>3. Contents \in Seq({})
    BY <2>2, SeqDef
  <2> QED
    BY <2>2, <2>3, EmptySeq, LenProperties
<1> QED
  BY <1>1, <1>2

LEMMA ContentsEmptyNext == (~ held \/ Resetting \/ Length = 0 => Contents = <<>>)'
<1> QED
  BY ContentsEmpty, PTL

LEMMA ContentsHead ==
  ASSUME IInv, held, ~ Resetting, in # out
  PROVE  Contents # <<>> /\ Head(Contents) = ring[Slot(out)]
<1>1. Length >= 1
  BY LengthFacts
<1>2. Len(Contents) >= 1 /\ Contents[1] = ring[Slot(out + 1 - 1)] /\ out + 1 - 1 = out
  BY <1>1, ContentsShape, LengthFacts DEF ContentsAre
<1>3. Contents # <<>>
  BY <1>2, EmptySeq
<1> QED
  BY <1>2, <1>3 DEF Head

LEMMA ContentsGot ==
  ASSUME IInv, IInv', held, held', ~ Resetting, ~ Resetting', in # out,
         in' = in, out' = Cut(out + 1), ring' = ring
  PROVE  Contents' = Tail(Contents)
<1>1. Length' = Length - 1 /\ Length \in Nat \ {0}
  BY BetweenDown, LengthFacts DEF Length
<1>2. ContentsAre /\ ContentsAre' /\ Contents # <<>>
  BY ContentsShape, ContentsShapeNext, ContentsHead
<1>3. Contents' \in Seq(Entries) /\ Len(Contents') = Length - 1
  BY <1>1, <1>2 DEF ContentsAre, Entries
<1>4. /\ Tail(Contents) \in Seq(Entries) /\ Len(Tail(Contents)) = Length - 1
      /\ \A k \in 1 .. Length - 1 : Tail(Contents)[k] = Contents[k + 1]
  BY <1>1, <1>2, HeadTailProperties DEF ContentsAre
<1>5. ASSUME NEW k \in 1 .. Length - 1 PROVE Contents'[k] = Tail(Contents)[k]
  <2>1. Contents'[k] = ring[Slot(out' + k - 1)]
    BY <1>1, <1>2 DEF ContentsAre, Slot
  <2>2. out' \in Int /\ k - 1 \in Int /\ out' + k - 1 = out' + (k - 1) /\ out + 1 + (k - 1) = out + (k + 1) - 1
    BY <1>1, LengthFacts, CutStep, WordFacts DEF Index
  <2>3. Slot(out' + k - 1) = Slot(out + (k + 1) - 1)
    BY <2>2, SlotNext, LengthFacts
  <2>4. k + 1 \in 1 .. Length
    BY <1>1
  <2>5. Contents[k + 1] = ring[Slot(out + (k + 1) - 1)]
    BY <1>2, <2>4 DEF ContentsAre
  <2> QED
    BY <1>4, <2>1, <2>3, <2>5
<1> QED
  BY <1>3, <1>4, <1>5, SeqEqual

LEMMA ContentsPut ==
  ASSUME IInv, IInv', held, held', ~ Resetting, ~ Resetting', Length < Capacity,
         in' = Cut(in + 1), out' = out, ring' = ring
  PROVE  Contents' = Append(Contents, ring[Slot(in)]) /\ Len(Contents) < Capacity
<1>1. Length' = Length + 1 /\ Length \in Nat
  BY BetweenUp, LengthFacts DEF Length
<1>2. ContentsAre /\ ContentsAre' /\ ring[Slot(in)] \in Entries
  BY ContentsShape, ContentsShapeNext, IndexCut, LengthFacts DEF IInv, BInv, TypeOK, Entries
<1>3. Contents' \in Seq(Entries) /\ Len(Contents') = Length + 1
  BY <1>1, <1>2 DEF ContentsAre, Entries
<1> DEFINE A == Append(Contents, ring[Slot(in)])
<1>4. /\ A \in Seq(Entries) /\ Len(A) = Length + 1 /\ A[Length + 1] = ring[Slot(in)]
      /\ \A k \in 1 .. Length : A[k] = Contents[k]
  BY <1>1, <1>2, AppendProperties DEF ContentsAre
<1> HIDE DEF A
<1>5. ASSUME NEW k \in 1 .. Length + 1 PROVE Contents'[k] = A[k]
  <2>1. Contents'[k] = ring[Slot(out + k - 1)]
    BY <1>1, <1>2 DEF ContentsAre, Slot
  <2>2. CASE k = Length + 1
    <3>1. out + k - 1 = out + Length
      BY <1>1, <2>2, LengthFacts
    <3> QED
      BY <1>4, <2>1, <2>2, <3>1, SlotOfIn DEF IInv
  <2>3. CASE k \in 1 .. Length
    BY <1>2, <1>4, <2>1, <2>3 DEF ContentsAre
  <2> QED
    BY <1>1, <2>2, <2>3
<1>6. Contents' = A
  BY <1>3, <1>4, <1>5, SeqEqual
<1> QED
  BY <1>2, <1>6 DEF ContentsAre, A

\* What is stored into a free slot does not show.
LEMMA ContentsStore ==
  ASSUME OneEach, IInv, IInv', held, held', ~ Resetting, ~ Resetting', NEW t \in Tasks, PutStore(t)
  PROVE  Contents' = Contents
<1>1. /\ Length' = Length /\ Length \in Nat /\ out' = out /\ out \in Int
      /\ ring' = [ring EXCEPT ![Slot(in)] = loc[t].val]
      /\ \A k \in 0 .. Length - 1 : Slot(out + k) # Slot(in)
  BY StoreFree, LengthFacts DEF PutStore, Length
<1>2. ContentsAre /\ ContentsAre'
  BY ContentsShape, ContentsShapeNext
<1>3. Contents' \in Seq(Entries) /\ Len(Contents') = Length
  BY <1>1, <1>2 DEF ContentsAre, Entries
<1>4. ASSUME NEW k \in 1 .. Length PROVE Contents'[k] = Contents[k]
  <2>1. Contents'[k] = ring'[Slot(out + k - 1)] /\ Contents[k] = ring[Slot(out + k - 1)]
    BY <1>1, <1>2 DEF ContentsAre, Slot
  <2>2. out + k - 1 = out + (k - 1) /\ k - 1 \in 0 .. Length - 1 /\ out + k - 1 \in Int
    BY <1>1
  <2>3. Slot(out + k - 1) \in Slots /\ Slot(out + k - 1) # Slot(in)
    BY <1>1, <2>2, IndexCut
  <2> QED
    BY <1>1, <2>1, <2>3 DEF IInv, BInv, TypeOK
<1> QED
  BY <1>2, <1>3, <1>4, SeqEqual DEF ContentsAre

-----------------------------------------------------------------------------
(***************************************************************************)
(* The steps.                                                              *)
(***************************************************************************)
WantedOf == [t \in Tasks |-> Wanted(t)]
GivenOf == [t \in Tasks |-> Given(t)]

\* No step of t changes what another task wants, or has been given.
LEMMA OthersSame ==
  ASSUME OneEach, IInv, NEW t \in Tasks, Step(t), NEW u \in Tasks \ {t}
  PROVE  Wanted(u)' = Wanted(u) /\ Given(u)' = Given(u)
<1> USE DEF IInv, BInv
<1>1. pc'[u] = pc[u] /\ loc'[u] = loc[u]
  BY StepTypes
<1>2. in' = in \/ loc[u].op # "enqueue"
  <2>1. CASE PutPublished(t)
    BY <2>1 DEF PutPublished, Goto, CallShape, PointShape, OneEach
  <2>2. CASE ResetIn(t)
    BY <2>2 DEF ResetIn, Goto, CallShape, PointShape, AloneShape, NoCall
  <2> QED
    BY <2>1, <2>2 DEF Step, ReadIn, ReadOut, Ask, PutTest, PutStore, PutPublish, EmptyTest, GetTest,
                      GetLoad, GetAdvance, GetAdvanced, ResetOut, Return, fifoVars
<1>3. out' = out \/ loc[u].op \notin {"dequeue", "peek"}
  <2>1. CASE GetAdvanced(t)
    BY <2>1 DEF GetAdvanced, Goto, CallShape, PointShape, OneEach
  <2>2. CASE ResetOut(t)
    BY <2>2 DEF ResetOut, Goto, CallShape, PointShape, AloneShape, NoCall
  <2> QED
    BY <2>1, <2>2 DEF Step, ReadIn, ReadOut, Ask, PutTest, PutStore, PutPublish, PutPublished,
                      EmptyTest, GetTest, GetLoad, GetAdvance, ResetIn, Return, fifoVars
<1>4. Refused(u)' = Refused(u)
  BY <1>1, <1>2 DEF Refused
<1>5. Missed(u)' = Missed(u)
  BY <1>1, <1>3 DEF Missed
<1> QED
  BY <1>1, <1>4, <1>5 DEF Wanted, Given

LEMMA StepLift ==
  ASSUME OneEach, IInv, NEW t \in Tasks, Step(t)
  PROVE  /\ WantedOf' = [WantedOf EXCEPT ![t] = Wanted(t)']
         /\ GivenOf' = [GivenOf EXCEPT ![t] = Given(t)']
         /\ WantedOf[t] = Wanted(t) /\ GivenOf[t] = Given(t)
         /\ Wanted(t)' = Wanted(t) => WantedOf' = WantedOf
         /\ Given(t)' = Given(t) => GivenOf' = GivenOf
BY OthersSame DEF WantedOf, GivenOf

\* A step that neither the contents nor t's part in them shows.
LEMMA QuietMaps ==
  ASSUME OneEach, IInv, NEW t \in Tasks, Step(t), Contents' = Contents,
         Wanted(t)' = Wanted(t), Given(t)' = Given(t)
  PROVE  UNCHANGED Promise!vars
BY StepLift DEF Promise!vars, WantedOf, GivenOf

LEMMA ContentsSame ==
  ASSUME UNCHANGED <<held, fifoVars>>, Resetting' = Resetting
  PROVE  Contents' = Contents
BY DEF Contents, Resetting, fifoVars, Length

\* What holds whenever a callback takes a step other than of a reset.
LEMMA StepContext ==
  ASSUME OneEach, IInv, NEW t \in Tasks, Step(t)
  PROVE  /\ held /\ held' /\ IInv'
         /\ pc'[t] # "reset_in" /\ pc[t] # "reset_in" => Resetting' = Resetting
         /\ Going(t) /\ pc'[t] # "reset_in" => ~ Resetting /\ ~ Resetting'
<1>1. pc[t] # "idle"
  BY DEF Step, ReadIn, ReadOut, Ask, PutTest, PutStore, PutPublish, PutPublished, EmptyTest, GetTest,
         GetLoad, GetAdvance, GetAdvanced, ResetOut, ResetIn, Return, Goto, Answer, IInv, BInv,
         CallShape, PointShape, NoCall, IndicesRead
<1>2. held /\ held' = held
  BY <1>1, StepTypes DEF IInv, BInv, ModuleShape, TypeOK, Phases, Drained, moduleVars
<1>3. IInv'
  BY StepTypes, StepShape, AloneStep, IndexNext, NextBase DEF IInv, BInv, Next
<1>4. \A u \in Tasks \ {t} : pc'[u] = pc[u]
  BY StepTypes DEF IInv
<1>5. pc'[t] # "reset_in" /\ pc[t] # "reset_in" => Resetting' = Resetting
  BY <1>4 DEF Resetting
<1>6. Going(t) => ~ Resetting
  BY LengthFacts
<1> QED
  BY <1>2, <1>3, <1>4, <1>5, <1>6 DEF Resetting

LEMMA PutMaps ==
  ASSUME OneEach, IInv, RingShape, NEW t \in Tasks,
         ReadOut(t) \/ PutTest(t) \/ PutStore(t) \/ PutPublish(t) \/ PutPublished(t)
  PROVE  [Promise!Next]_(Promise!vars)
<1> USE DEF IInv, BInv, TypeOK
<1>1. Step(t)
  BY DEF Step
<1>2. Going(t) /\ pc[t] # "reset_in" /\ pc'[t] # "reset_in"
  BY DEF ReadOut, PutTest, PutStore, PutPublish, PutPublished, Goto, Answer, Going
<1>3. held /\ held' /\ IInv' /\ ~ Resetting /\ ~ Resetting' /\ Length <= Capacity
  BY <1>1, <1>2, StepContext, LengthFacts
<1>4. UNCHANGED <<held, fifoVars>> => Contents' = Contents
  BY <1>1, <1>2, StepContext, ContentsSame
<1>5. CASE ReadOut(t)
  <2>1. /\ loc[t].out = None /\ pc'[t] = pc[t] /\ UNCHANGED fifoVars
        /\ loc'[t].out = out /\ loc'[t].op = loc[t].op /\ loc'[t].rc = loc[t].rc
        /\ loc'[t].in = loc[t].in /\ loc'[t].val = loc[t].val
    BY <1>5 DEF ReadOut, Set
  <2>2. Contents' = Contents /\ Missed(t)' = Missed(t)
    BY <1>1, <1>4, <2>1, StepTypes DEF fifoVars, moduleVars, Missed
  <2>3. ~ Refused(t)
    BY <1>5, <2>1 DEF ReadOut, Refused
  <2>4. CASE ~ Refused(t)'
    <3>1. Wanted(t)' = Wanted(t) /\ Given(t)' = Given(t)
      BY <2>1, <2>2, <2>3, <2>4 DEF Wanted, Given
    <3> QED
      BY <1>1, <2>2, <3>1, QuietMaps
  <2>5. CASE Refused(t)'
    <3>1. loc[t].op = "enqueue" /\ pc[t] = "test" /\ Length >= Capacity
      BY <1>5, <2>1, <2>5 DEF ReadOut, Refused, Length, fifoVars
    <3>2. Wanted(t) = loc[t].val /\ Given(t) = None /\ loc[t].val # None
      BY <2>3, <3>1, FifoAssumption DEF Wanted, Given, Missed, CallShape, PointShape
    <3>3. Wanted(t)' = None /\ Given(t)' = Full
      BY <2>5 DEF Wanted, Given
    <3>4. Len(Contents) = Capacity
      BY <1>3, <3>1, ContentsShape, LengthFacts, WordFacts DEF ContentsAre
    <3>5. Promise!Refuse(t)
      BY <1>1, <2>2, <3>2, <3>3, <3>4, StepLift DEF Promise!Refuse, WantedOf, GivenOf
    <3> QED
      BY <3>5 DEF Promise!Next
  <2> QED
    BY <2>4, <2>5
<1>6. CASE PutTest(t)
  <2>1. /\ loc[t].op = "enqueue" /\ pc[t] = "test" /\ loc[t].out \in Index /\ loc[t].in = in
        /\ UNCHANGED <<moduleVars, fifoVars>>
    BY <1>2, <1>6 DEF PutTest, Goto, Answer, IndicesRead, IndexShape, WriterSees, CallShape, PointShape
  <2>2. loc[t].out # None /\ (FullSeen(t) <=> Refused(t))
    BY <2>1, WordFacts, FifoAssumption DEF FullSeen, LengthSeen, Refused
  <2>3. CASE FullSeen(t)
    <3>1. pc'[t] = "done" /\ loc'[t].rc = "full" /\ loc'[t].op = "enqueue"
      BY <1>6, <2>1, <2>3 DEF PutTest, Answer, Goto, Set
    <3> QED
      BY <1>1, <1>4, <2>1, <2>2, <2>3, <3>1, QuietMaps DEF Wanted, Given, Refused, moduleVars
  <2>4. CASE ~ FullSeen(t)
    <3>1. pc'[t] = "store" /\ loc'[t] = loc[t]
      BY <1>6, <2>4 DEF PutTest, Goto
    <3>2. ~ Refused(t) /\ ~ Refused(t)' /\ ~ Missed(t) /\ ~ Missed(t)'
      BY <2>1, <2>2, <2>4, <3>1 DEF Refused, Missed
    <3> QED
      BY <1>1, <1>4, <2>1, <3>1, <3>2, QuietMaps DEF Wanted, Given, moduleVars
  <2> QED
    BY <2>3, <2>4
<1>7. CASE PutStore(t) \/ PutPublish(t)
  <2>1. /\ loc[t].op = "enqueue" /\ loc'[t].op = "enqueue" /\ loc'[t].val = loc[t].val
        /\ pc[t] \in {"store", "publish"} /\ pc'[t] \in {"publish", "published"}
    BY <1>7 DEF PutStore, PutPublish, Goto, Set, CallShape, PointShape
  <2>2. Contents' = Contents
    BY <1>1, <1>3, <1>4, <1>7, ContentsStore DEF PutPublish, moduleVars
  <2> QED
    BY <1>1, <2>1, <2>2, QuietMaps DEF Wanted, Given, Refused, Missed
<1>8. CASE PutPublished(t)
  <2>1. /\ pc[t] = "published" /\ pc'[t] = "done" /\ UNCHANGED <<ring, out, loc>>
        /\ loc[t].op = "enqueue" /\ loc[t].rc = "ok" /\ loc[t].val \in Values /\ t \in Writers
    BY <1>8 DEF PutPublished, Goto, CallShape, PointShape
  <2>2. /\ loc[t].in = in /\ loc[t].out \in Index
        /\ Length <= Between(in, loc[t].out) /\ Between(in, loc[t].out) < Capacity
    BY <1>2, <2>1, WordFacts DEF IndexShape, WriterSees, CallShape, PointShape
  <2>3. Length < Capacity
    <3>1. Between(in, loc[t].out) \in Index
      BY <2>2, BetweenFacts, LengthFacts
    <3> QED
      BY <2>2, <3>1, LengthFacts, WordFacts DEF Index
  <2>4. in' = Cut(in + 1) /\ ring[Slot(in)] = loc[t].val
    BY <1>8, <2>1, <2>2 DEF PutPublished, RingShape
  <2>5. Contents' = Append(Contents, loc[t].val) /\ Len(Contents) < Capacity
    BY <1>3, <2>1, <2>3, <2>4, ContentsPut
  <2>6. Wanted(t) = loc[t].val /\ Wanted(t)' = None /\ Given(t) = None /\ Given(t)' = None
    BY <2>1 DEF Wanted, Given, Refused, Missed
  <2>7. Promise!Put(t)
    BY <1>1, <2>1, <2>5, <2>6, StepLift, FifoAssumption DEF Promise!Put, WantedOf, GivenOf
  <2> QED
    BY <2>7 DEF Promise!Next
<1> QED
  BY <1>5, <1>6, <1>7, <1>8

LEMMA GetMaps ==
  ASSUME OneEach, IInv, RingShape, NEW t \in Tasks,
         ReadIn(t) \/ EmptyTest(t) \/ GetTest(t) \/ GetLoad(t) \/ GetAdvance(t) \/ GetAdvanced(t)
  PROVE  [Promise!Next]_(Promise!vars)
<1> USE DEF IInv, BInv, TypeOK
<1>1. Step(t)
  BY DEF Step
<1>2. Going(t) /\ pc[t] # "reset_in" /\ pc'[t] # "reset_in"
  BY DEF ReadIn, EmptyTest, GetTest, GetLoad, GetAdvance, GetAdvanced, Goto, Answer, Going,
         CallShape, PointShape
<1>3. held /\ held' /\ IInv' /\ ~ Resetting /\ ~ Resetting'
  BY <1>1, <1>2, StepContext
<1>4. UNCHANGED <<held, fifoVars>> => Contents' = Contents
  BY <1>1, <1>2, StepContext, ContentsSame
<1>5. CASE ReadIn(t)
  <2>1. /\ loc[t].in = None /\ pc'[t] = pc[t] /\ UNCHANGED <<moduleVars, fifoVars>>
        /\ pc[t] \in {"test", "retest"}
        /\ loc'[t].in = in /\ loc'[t].op = loc[t].op /\ loc'[t].rc = loc[t].rc
        /\ loc'[t].out = loc[t].out /\ loc'[t].val = loc[t].val
    BY <1>5 DEF ReadIn, Set
  <2>2. Contents' = Contents /\ Refused(t)' = Refused(t)
    BY <1>4, <2>1 DEF fifoVars, moduleVars, Refused
  <2>3. ~ Missed(t)
    BY <2>1, WordFacts DEF Missed
  <2>4. CASE ~ Missed(t)'
    <3>1. Wanted(t)' = Wanted(t) /\ Given(t)' = Given(t)
      BY <2>1, <2>2, <2>3, <2>4 DEF Wanted, Given
    <3> QED
      BY <1>1, <2>2, <3>1, QuietMaps
  <2>5. CASE Missed(t)'
    <3>1. loc[t].op \in {"dequeue", "peek"} /\ pc[t] = "test" /\ in = out
      BY <2>1, <2>5 DEF Missed, fifoVars
    <3>2. Wanted(t) = None /\ Given(t) = None /\ Wanted(t)' = None /\ Given(t)' = Empty
      BY <2>1, <2>2, <2>3, <2>5, <3>1 DEF Wanted, Given, Refused
    <3>3. Contents = <<>>
      BY <3>1, ContentsEmpty, LengthFacts
    <3>4. Promise!Miss(t)
      BY <1>1, <2>2, <3>2, <3>3, StepLift DEF Promise!Miss, WantedOf, GivenOf
    <3> QED
      BY <3>4 DEF Promise!Next
  <2> QED
    BY <2>4, <2>5
<1>6. CASE EmptyTest(t)
  <2>1. /\ loc[t].op \in {"dequeue", "peek"} /\ pc[t] = "test" /\ loc[t].out = out
        /\ loc[t].rc = "ok" /\ UNCHANGED <<moduleVars, fifoVars>>
    BY <1>2, <1>6 DEF EmptyTest, Goto, Answer, IndicesRead, IndexShape, ReaderSees, CallShape, PointShape
  <2>2. EmptySeen(t) <=> Missed(t)
    BY <2>1 DEF EmptySeen, Missed
  <2>3. CASE EmptySeen(t)
    <3>1. pc'[t] = "done" /\ loc'[t].rc = "empty" /\ loc'[t].op = loc[t].op
      BY <1>6, <2>1, <2>3 DEF EmptyTest, Answer, Goto, Set
    <3> QED
      BY <1>1, <1>4, <2>1, <2>2, <2>3, <3>1, QuietMaps DEF Wanted, Given, Refused, Missed, moduleVars
  <2>4. CASE ~ EmptySeen(t)
    <3>1. pc'[t] = "retest" /\ loc'[t].op = loc[t].op
      BY <1>6, <2>4 DEF EmptyTest, Goto
    <3>2. ~ Missed(t) /\ ~ Missed(t)' /\ ~ Refused(t) /\ ~ Refused(t)'
      BY <2>1, <2>2, <2>4, <3>1 DEF Missed, Refused
    <3> QED
      BY <1>1, <1>4, <2>1, <3>1, <3>2, QuietMaps DEF Wanted, Given, moduleVars
  <2> QED
    BY <2>3, <2>4
<1>7. CASE GetTest(t)
  <2>1. /\ loc[t].op \in {"dequeue", "peek"} /\ pc[t] = "retest" /\ UNCHANGED <<moduleVars, fifoVars>>
        /\ ~ EmptySeen(t)
    BY <1>2, <1>7 DEF GetTest, Goto, IndicesRead, IndexShape, ReaderSees, CallShape, PointShape, EmptySeen
  <2>2. pc'[t] = "load" /\ loc'[t] = loc[t]
    BY <1>7, <2>1 DEF GetTest, Goto
  <2> QED
    BY <1>1, <1>4, <2>1, <2>2, QuietMaps DEF Wanted, Given, Refused, Missed, moduleVars
<1>8. CASE GetLoad(t)
  <2>1. /\ loc[t].op \in {"dequeue", "peek"} /\ pc[t] = "load" /\ loc[t].rc = "ok"
        /\ loc[t].out = out /\ in # out /\ UNCHANGED <<moduleVars, fifoVars>>
    BY <1>2, <1>8, WordFacts DEF GetLoad, Goto, IndexShape, ReaderSees, CallShape, PointShape
  <2>2. /\ loc'[t].val = ring[Slot(out)] /\ loc'[t].op = loc[t].op /\ loc'[t].rc = "ok"
        /\ pc'[t] = IF loc[t].op = "peek" THEN "done" ELSE "advance"
    BY <1>8, <2>1 DEF GetLoad, Goto, Set
  <2>3. /\ Wanted(t) = None /\ Wanted(t)' = None /\ Given(t) = None /\ Contents' = Contents
        /\ Given(t)' = IF loc[t].op = "peek" THEN ring[Slot(out)] ELSE None
    BY <1>4, <2>1, <2>2 DEF Wanted, Given, Refused, Missed, moduleVars
  <2>4. CASE loc[t].op = "peek"
    <3>1. Contents # <<>> /\ Head(Contents) = ring[Slot(out)]
      BY <1>3, <2>1, ContentsHead
    <3>2. Promise!Look(t)
      BY <1>1, <2>3, <2>4, <3>1, StepLift DEF Promise!Look, WantedOf, GivenOf
    <3> QED
      BY <3>2 DEF Promise!Next
  <2>5. CASE loc[t].op # "peek"
    BY <1>1, <2>3, <2>5, QuietMaps
  <2> QED
    BY <2>4, <2>5
<1>9. CASE GetAdvance(t)
  <2>1. /\ loc[t].op = "dequeue" /\ pc[t] = "advance" /\ pc'[t] = "advanced"
        /\ loc'[t].op = "dequeue" /\ UNCHANGED <<moduleVars, fifoVars>>
    BY <1>9 DEF GetAdvance, Goto, Set, CallShape, PointShape
  <2> QED
    BY <1>1, <1>4, <2>1, QuietMaps DEF Wanted, Given, Refused, Missed, moduleVars
<1>10. CASE GetAdvanced(t)
  <2>1. /\ loc[t].op = "dequeue" /\ pc[t] = "advanced" /\ pc'[t] = "done" /\ loc[t].rc = "ok"
        /\ t \in Readers /\ loc[t].out = out /\ in # out /\ loc' = loc
        /\ in' = in /\ out' = Cut(out + 1) /\ ring' = ring
    BY <1>2, <1>10, WordFacts DEF GetAdvanced, Goto, IndexShape, ReaderSees, CallShape, PointShape
  <2>2. loc[t].val = ring[Slot(out)]
    BY <2>1 DEF RingShape
  <2>3. Contents # <<>> /\ Head(Contents) = loc[t].val /\ Contents' = Tail(Contents)
    BY <1>3, <2>1, <2>2, ContentsHead, ContentsGot
  <2>4. Wanted(t) = None /\ Wanted(t)' = None /\ Given(t) = None /\ Given(t)' = loc[t].val
    BY <2>1 DEF Wanted, Given, Refused, Missed
  <2>5. Promise!Get(t)
    BY <1>1, <2>3, <2>4, StepLift DEF Promise!Get, WantedOf, GivenOf
  <2> QED
    BY <2>5 DEF Promise!Next
<1> QED
  BY <1>5, <1>6, <1>7, <1>8, <1>9, <1>10

LEMMA OtherMaps ==
  ASSUME OneEach, IInv, NEW t \in Tasks, Ask(t) \/ ResetOut(t) \/ ResetIn(t) \/ Return(t)
  PROVE  [Promise!Next]_(Promise!vars)
<1> USE DEF IInv, BInv, TypeOK
<1>1. Step(t)
  BY DEF Step
<1>2. CASE Ask(t)
  <2>1. /\ pc[t] = "test" /\ pc'[t] = "done" /\ loc' = loc /\ UNCHANGED <<moduleVars, fifoVars>>
        /\ loc[t].op \in Asks
    BY <1>2 DEF Ask, Goto, Asks
  <2>2. Contents' = Contents
    BY <1>1, <2>1, StepContext, ContentsSame DEF moduleVars
  <2> QED
    BY <1>1, <2>1, <2>2, QuietMaps DEF Wanted, Given, Refused, Missed, Asks
<1>3. CASE Return(t)
  <2>1. /\ pc[t] = "done" /\ pc'[t] = "idle" /\ loc'[t] = NoCall /\ UNCHANGED <<moduleVars, fifoVars>>
    BY <1>3 DEF Return, Goto
  <2>2. Contents' = Contents
    BY <1>1, <2>1, StepContext, ContentsSame DEF moduleVars
  <2>3. Wanted(t) = None /\ Wanted(t)' = None /\ Given(t)' = None
    BY <2>1 DEF Wanted, Given, Refused, Missed, NoCall
  <2>4. CASE Given(t) = None
    BY <1>1, <2>2, <2>3, <2>4, QuietMaps
  <2>5. CASE Given(t) # None
    <3>1. Promise!HandOn(t)
      BY <1>1, <2>2, <2>3, <2>5, StepLift DEF Promise!HandOn, WantedOf, GivenOf
    <3> QED
      BY <3>1 DEF Promise!Next
  <2> QED
    BY <2>4, <2>5
<1>4. CASE ResetOut(t)
  <2>1. pc[t] = "reset_out" /\ pc'[t] = "reset_in" /\ loc' = loc /\ loc[t].op = "clear"
    BY <1>4 DEF ResetOut, Goto, CallShape, PointShape
  <2>2. Contents' = <<>>
    BY <2>1, ContentsEmptyNext DEF Resetting
  <2>3. Wanted(t)' = Wanted(t) /\ Given(t)' = Given(t)
    BY <2>1 DEF Wanted, Given, Refused, Missed
  <2>4. Promise!Clear
    BY <1>1, <2>2, <2>3, StepLift DEF Promise!Clear, WantedOf, GivenOf
  <2> QED
    BY <2>4 DEF Promise!Next
<1>5. CASE ResetIn(t)
  <2>1. /\ pc[t] = "reset_in" /\ pc'[t] = "done" /\ loc' = loc /\ loc[t].op = "clear"
        /\ out' = 0 /\ in' = 0
    BY <1>5 DEF ResetIn, Goto, CallShape, PointShape, IndexShape, Resetting
  <2>2. Contents = <<>>
    BY <2>1, ContentsEmpty DEF Resetting
  <2>3. Length' = 0
    BY <2>1, WordFacts, BetweenFacts DEF Length
  <2>4. Contents' = <<>>
    BY <2>3, ContentsEmptyNext
  <2>5. Wanted(t)' = Wanted(t) /\ Given(t)' = Given(t)
    BY <2>1 DEF Wanted, Given, Refused, Missed
  <2> QED
    BY <1>1, <2>2, <2>4, <2>5, QuietMaps
<1> QED
  BY <1>2, <1>3, <1>4, <1>5

LEMMA CallMaps ==
  ASSUME IInv, NEW t \in Tasks, NEW op, NEW val, NEW at, Call(t, op, val, at),
         \/ op = "enqueue" /\ val \in Values /\ at = "test"
         \/ op \in {"dequeue", "peek"} /\ at = "test"
         \/ op \notin {"enqueue", "dequeue", "peek"} /\ at \in {"test", "done", "reset_out"}
  PROVE  [Promise!Next]_(Promise!vars)
<1> USE DEF IInv, BInv, TypeOK
<1>1. /\ pc[t] = "idle" /\ loc[t] = NoCall /\ pc'[t] = at /\ UNCHANGED <<moduleVars, fifoVars>>
      /\ loc'[t].op = op /\ loc'[t].val = val /\ loc'[t].in = None /\ loc'[t].out = None
      /\ loc'[t].rc = "ok"
      /\ \A u \in Tasks \ {t} : pc'[u] = pc[u] /\ loc'[u] = loc[u]
  BY DEF Call, Goto, CallShape, PointShape, ModuleShape
<1>2. Resetting' = Resetting /\ Contents' = Contents
  <2>1. Resetting' = Resetting
    BY <1>1 DEF Resetting
  <2> QED
    BY <1>1, <2>1, ContentsSame DEF moduleVars
<1>3. \A u \in Tasks \ {t} : Wanted(u)' = Wanted(u) /\ Given(u)' = Given(u)
  BY <1>1 DEF Wanted, Given, Refused, Missed, fifoVars
<1>4. Wanted(t) = None /\ Given(t) = None
  BY <1>1 DEF Wanted, Given, Refused, Missed, NoCall
<1>5. ~ Refused(t)' /\ ~ Missed(t)' /\ Given(t)' = None
  <2>1. ~ Refused(t)' /\ ~ Missed(t)'
    BY <1>1, WordFacts DEF Refused, Missed, fifoVars
  <2> QED
    BY <1>1, <2>1 DEF Given
<1>6. GivenOf' = GivenOf
  BY <1>3, <1>4, <1>5 DEF GivenOf
<1>7. CASE op = "enqueue" /\ val \in Values /\ at = "test"
  <2>1. Wanted(t)' = val
    BY <1>1, <1>5, <1>7 DEF Wanted
  <2>2. WantedOf[t] = None /\ WantedOf' = [WantedOf EXCEPT ![t] = val]
    BY <1>3, <1>4, <2>1 DEF WantedOf
  <2>3. Promise!Want(t, val)
    BY <1>2, <1>6, <2>2 DEF Promise!Want, WantedOf, GivenOf
  <2> QED
    BY <1>7, <2>3 DEF Promise!Next
<1>8. CASE op # "enqueue"
  <2>1. Wanted(t)' = None
    BY <1>1, <1>8 DEF Wanted
  <2>2. WantedOf' = WantedOf
    BY <1>3, <1>4, <2>1 DEF WantedOf
  <2> QED
    BY <1>2, <1>6, <2>2 DEF Promise!vars, WantedOf, GivenOf
<1> QED
  BY <1>7, <1>8

\* Loading starts with an empty fifo, and removing the module empties it.
LEMMA ModuleMaps ==
  ASSUME IInv, IInv', Module \/ UNCHANGED vars
  PROVE  [Promise!Next]_(Promise!vars)
<1> USE DEF IInv, BInv
<1>1. CASE UNCHANGED <<held, fifoVars, pc, loc>>
  <2>1. Resetting' = Resetting
    BY <1>1 DEF Resetting
  <2>2. Contents' = Contents
    BY <1>1, <2>1, ContentsSame
  <2> QED
    BY <1>1, <2>2 DEF Promise!vars, Wanted, Given, Refused, Missed, fifoVars
<1>2. CASE /\ UNCHANGED <<pc, loc>> /\ Drained
           /\ ~ held' \/ (in' = 0 /\ out' = 0)
  <2>1. \A u \in Tasks : loc[u].op = "none" /\ loc'[u].op = "none"
    BY <1>2 DEF Drained, CallShape, PointShape, NoCall
  <2>2. \A u \in Tasks : Wanted(u) = None /\ Wanted(u)' = None /\ Given(u) = None /\ Given(u)' = None
    BY <2>1 DEF Wanted, Given, Refused, Missed
  <2>3. Contents' = <<>>
    <3>1. in' = 0 /\ out' = 0 => Length' = 0
      BY WordFacts, BetweenFacts DEF Length
    <3> QED
      BY <1>2, <3>1, ContentsEmptyNext
  <2>4. WantedOf' = WantedOf /\ GivenOf' = GivenOf
    BY <2>2 DEF WantedOf, GivenOf
  <2>5. Promise!Clear
    BY <2>3, <2>4 DEF Promise!Clear, WantedOf, GivenOf
  <2> QED
    BY <2>5 DEF Promise!Next
<1> QED
  BY <1>1, <1>2 DEF Module, FifoInit, AllocFails, KobjectFails, SetGlobalQueue,
       CreateGroup, Registered, RegisterFails, InitFails, Remove, Removed, ResetGlobalQueue, KfifoFree, Pass,
                    vars, moduleVars, fifoVars, ModuleShape

LEMMA NextMaps ==
  ASSUME OneEach, IInv, IInv', RingShape, [Next]_vars
  PROVE  [Promise!Next]_(Promise!vars)
<1>1. CASE Module \/ UNCHANGED vars
  BY <1>1, ModuleMaps
<1>2. CASE \E t \in Writers, num \in Values : EnqueueStore(t, num)
  <2>1. PICK t \in Writers, num \in Values : Call(t, "enqueue", num, "test")
    BY <1>2 DEF EnqueueStore
  <2> QED
    BY <2>1, CallMaps DEF Tasks
<1>3. CASE \E t \in Readers : DequeueShow(t) \/ PeekShow(t)
  <2>1. PICK t \in Readers, op \in {"dequeue", "peek"} : Call(t, op, None, "test")
    BY <1>3 DEF DequeueShow, PeekShow
  <2> QED
    BY <2>1, CallMaps DEF Tasks
<1>4. ASSUME NEW t \in Tasks, NEW op, NEW val, NEW at \in {"test", "done", "reset_out"},
             op \notin {"enqueue", "dequeue", "peek"}, Call(t, op, val, at)
      PROVE  [Promise!Next]_(Promise!vars)
  BY <1>4, CallMaps
<1>5. ASSUME NEW t \in Tasks,
             SizeShow(t) \/ IsEmptyShow(t) \/ IsFullShow(t) \/ AvailableShow(t)
               \/ ClearStore(t) \/ ClearIgnored(t)
      PROVE  [Promise!Next]_(Promise!vars)
  BY <1>4, <1>5 DEF SizeShow, IsEmptyShow, IsFullShow, AvailableShow, ClearStore, ClearIgnored
<1>6. ASSUME NEW t \in Tasks, Step(t) PROVE [Promise!Next]_(Promise!vars)
  BY <1>6, PutMaps, GetMaps, OtherMaps DEF Step
<1> QED
  BY <1>1, <1>2, <1>3, <1>5, <1>6 DEF Next

LEMMA RingHolds == OneEach => (Spec => []RingShape)
<1> SUFFICES ASSUME OneEach PROVE Spec => []RingShape
  OBVIOUS
<1>1. Init => RingShape
  BY DEF Init, RingShape, Tasks
<1>2. IInv /\ RingShape /\ [Next]_vars => RingShape'
  <2> SUFFICES ASSUME IInv, RingShape, [Next]_vars PROVE RingShape'
    OBVIOUS
  <2>1. ASSUME NEW t \in Tasks, NEW op, NEW val, NEW at \in {"test", "done", "reset_out"},
               Call(t, op, val, at)
        PROVE  RingShape'
    BY <2>1, RingCall
  <2> QED
    BY <2>1, RingModule, RingStep DEF Next, EnqueueStore, DequeueShow, PeekShow, SizeShow,
       IsEmptyShow, IsFullShow, AvailableShow, ClearStore, ClearIgnored, Tasks
<1> QED
  BY <1>1, <1>2, IInvHolds, PTL DEF Spec

\* kfifo's promise, kept by the module's use of it when one task writes, one
\* reads and a clear meets nobody: a bounded first-in first-out queue.
THEOREM FifoKept == OneEach => (Spec => IsFifo)
<1> SUFFICES ASSUME OneEach PROVE Spec => IsFifo
  OBVIOUS
<1>1. Init => Promise!Init
  <2> SUFFICES ASSUME Init PROVE Promise!Init
    OBVIOUS
  <2>1. Contents = <<>>
    BY ContentsEmpty DEF Init
  <2>2. \A t \in Tasks : Wanted(t) = None /\ Given(t) = None
    BY DEF Init, NoCall, Wanted, Given, Refused, Missed
  <2> QED
    BY <2>1, <2>2 DEF Promise!Init
<1>2. IInv /\ IInv' /\ RingShape /\ [Next]_vars => [Promise!Next]_(Promise!vars)
  BY NextMaps
<1> QED
  BY <1>1, <1>2, IInvHolds, RingHolds, PTL DEF Spec, IsFifo, Promise!Spec

-----------------------------------------------------------------------------
(***************************************************************************)
(* What BoundedFifo promises, KernelFifo keeps: the fifo holds values that *)
(* somebody put in, and hands out nothing else.                            *)
(***************************************************************************)
ContentsReal == Contents \in Seq(Values)
WantedReal == WantedOf \in [Tasks -> Values \union {None}]

\* t has read a value from the ring, and is going to say that it succeeded.
HasRead(t) ==
  /\ loc[t].op \in {"dequeue", "peek"}
  /\ pc[t] \in {"advance", "advanced"} \/ (pc[t] = "done" /\ loc[t].rc = "ok")
NoGarbage == \A t \in Tasks : HasRead(t) => loc[t].val \in Values

LEMMA PromiseReal ==
  ASSUME ContentsReal, WantedReal, [Promise!Next]_(Promise!vars)
  PROVE  ContentsReal' /\ WantedReal'
<1>1. None \notin Values /\ Contents \in Seq(Values)
  BY FifoAssumption DEF ContentsReal
<1> USE <1>1 DEF ContentsReal, WantedReal, WantedOf
<1>2. CASE UNCHANGED Promise!vars \/ Promise!Clear
  <2>1. <<>> \in Seq(Values)
    OBVIOUS
  <2> QED
    BY <1>2, <2>1 DEF Promise!vars, Promise!Clear
<1>3. ASSUME NEW t \in Tasks, Promise!Put(t) PROVE ContentsReal' /\ WantedReal'
  <2>1. WantedOf[t] # None /\ WantedOf[t] \in Values
    BY <1>3 DEF Promise!Put
  <2>2. Contents' = Append(Contents, WantedOf[t])
    BY <1>3 DEF Promise!Put
  <2>3. ContentsReal'
    BY <2>1, <2>2, AppendProperties
  <2>4. WantedOf' = [WantedOf EXCEPT ![t] = None]
    BY <1>3 DEF Promise!Put
  <2> QED
    BY <2>3, <2>4
<1>4. ASSUME NEW t \in Tasks, Promise!Get(t) PROVE ContentsReal' /\ WantedReal'
  <2>1. Contents' = Tail(Contents) /\ Contents # <<>>
    BY <1>4 DEF Promise!Get
  <2>2. Tail(Contents) \in Seq(Values)
    BY <2>1
  <2> QED
    BY <1>4, <2>1, <2>2 DEF Promise!Get
<1>5. ASSUME NEW t \in Tasks,
             \/ \E v \in Values : Promise!Want(t, v)
             \/ Promise!Refuse(t) \/ Promise!Look(t) \/ Promise!Miss(t) \/ Promise!HandOn(t)
      PROVE  ContentsReal' /\ WantedReal'
  BY <1>5 DEF Promise!Want, Promise!Refuse, Promise!Look, Promise!Miss, Promise!HandOn
<1> QED
  BY <1>2, <1>3, <1>4, <1>5 DEF Promise!Next

LEMMA RealHolds == OneEach => (Spec => [](ContentsReal /\ WantedReal))
<1> SUFFICES ASSUME OneEach PROVE Spec => [](ContentsReal /\ WantedReal)
  OBVIOUS
<1>1. Promise!Init => ContentsReal /\ WantedReal
  BY DEF Promise!Init, ContentsReal, WantedReal, WantedOf
<1>2. (ContentsReal /\ WantedReal) /\ [Promise!Next]_(Promise!vars) => (ContentsReal /\ WantedReal)'
  BY PromiseReal
<1> QED
  BY <1>1, <1>2, FifoKept, PTL DEF IsFifo, Promise!Spec

\* The entry a reader loads is one of the contents, so it is a value.
LEMMA LoadsValue ==
  ASSUME OneEach, IInv, ContentsReal, NEW t \in Tasks, GetLoad(t)
  PROVE  loc'[t].val \in Values
<1> USE DEF IInv, BInv
<1>1. /\ pc[t] = "load" /\ t \in Readers /\ in \in Index /\ out \in Index
      /\ \E i \in {loc[t].out, out} : loc'[t].val = ring[Slot(i)]
  BY DEF GetLoad, Goto, Set, TypeOK, CallShape, PointShape
<1>2. loc[t].out = out /\ in # out /\ ~ Resetting
  BY <1>1 DEF IndexShape, ReaderSees, Going, CallShape, PointShape, AloneShape, Resetting
<1>3. held /\ Length \in Nat /\ Length >= 1
  <2>1. held
    BY <1>1 DEF ModuleShape, Drained, TypeOK, Phases
  <2>2. Length \in Index /\ Length # 0
    BY <1>1, <1>2, BetweenFacts DEF Length
  <2> QED
    BY <2>1, <2>2, WordFacts DEF Index
<1>4. ContentsAre
  BY <1>2, <1>3, ContentsShape
<1>5. Len(Contents) = Length /\ Contents[1] = ring[Slot(out + 1 - 1)] /\ out + 1 - 1 = out
  BY <1>1, <1>3, <1>4 DEF ContentsAre, Index
<1>6. Contents[1] \in Values
  BY <1>3, <1>5 DEF ContentsReal
<1> QED
  BY <1>1, <1>2, <1>5, <1>6

\* A dequeue or a peek that succeeds hands out a value that was put in.  That of
\* kfifo_get which finds nothing, and returns 0 like a success, leaves the cell
\* unwritten: it does not happen after the first test (fifo_ops.c:79-90, 108-118).
THEOREM NoGarbageCorrect == OneEach => (Spec => []NoGarbage)
<1> SUFFICES ASSUME OneEach PROVE Spec => []NoGarbage
  OBVIOUS
<1>1. Init => NoGarbage
  BY DEF Init, NoGarbage, HasRead, NoCall
<1>2. IInv /\ ContentsReal /\ NoGarbage /\ [Next]_vars => NoGarbage'
  <2> SUFFICES ASSUME IInv, ContentsReal, NoGarbage, [Next]_vars PROVE NoGarbage'
    OBVIOUS
  <2> USE DEF IInv, BInv
  <2>1. CASE Module \/ UNCHANGED vars
    BY <2>1 DEF NoGarbage, HasRead, vars, Module, FifoInit, AllocFails, KobjectFails, SetGlobalQueue,
       CreateGroup, Registered, RegisterFails, InitFails, Remove, Removed, ResetGlobalQueue, KfifoFree, Pass
  <2>2. ASSUME NEW t \in Tasks, NEW op, NEW val, NEW at \in {"test", "done", "reset_out"},
               Call(t, op, val, at), op \in {"dequeue", "peek"} => at = "test"
        PROVE  NoGarbage'
    <3>1. /\ \A u \in Tasks \ {t} : pc'[u] = pc[u] /\ loc'[u] = loc[u]
          /\ loc'[t].op = op /\ pc'[t] = at /\ global_queue
      BY <2>2 DEF Call, Goto, TypeOK, ModuleShape
    <3> QED
      BY <2>2, <3>1 DEF NoGarbage, HasRead
  <2>3. ASSUME NEW t \in Tasks, Step(t) PROVE NoGarbage'
    <3>1. \A u \in Tasks \ {t} : pc'[u] = pc[u] /\ loc'[u] = loc[u]
      BY <2>3, StepTypes
    <3>2. ASSUME HasRead(t)' PROVE loc'[t].val \in Values
      <4>1. CASE GetLoad(t)
        BY <4>1, LoadsValue
      <4>2. CASE GetTest(t)
        <5>1. pc[t] = "retest" /\ IndicesRead(t) /\ t \in Readers
          BY <4>2 DEF GetTest, Goto, CallShape, PointShape
        <5>2. ~ EmptySeen(t)
          BY <5>1 DEF EmptySeen, IndicesRead, IndexShape, ReaderSees, Going
        <5> QED
          BY <3>2, <4>2, <5>2 DEF GetTest, Goto, HasRead, TypeOK
      <4>3. CASE GetAdvance(t) \/ GetAdvanced(t)
        <5>1. /\ pc[t] \in {"advance", "advanced"} /\ loc[t].op = "dequeue"
              /\ loc'[t].val = loc[t].val
          BY <4>3 DEF GetAdvance, GetAdvanced, Goto, Set, CallShape, PointShape, TypeOK
        <5> QED
          BY <5>1 DEF NoGarbage, HasRead
      <4>4. CASE EmptyTest(t)
        BY <3>2, <4>4 DEF EmptyTest, Answer, Goto, Set, HasRead, TypeOK
      <4>5. CASE ReadIn(t) \/ ReadOut(t)
        BY <3>2, <4>5 DEF ReadIn, ReadOut, HasRead, TypeOK
      <4>6. CASE Return(t)
        BY <3>2, <4>6 DEF Return, Goto, HasRead, TypeOK, NoCall
      <4>7. CASE Ask(t) \/ PutTest(t)
        BY <3>2, <4>7 DEF Ask, PutTest, Answer, Goto, Set, HasRead, TypeOK
      <4>8. CASE PutStore(t) \/ PutPublish(t) \/ PutPublished(t) \/ ResetOut(t) \/ ResetIn(t)
        <5>1. loc[t].op \in {"enqueue", "clear"} /\ loc'[t].op = loc[t].op
          BY <4>8 DEF PutStore, PutPublish, PutPublished, ResetOut, ResetIn, Goto, Set, CallShape,
             PointShape, TypeOK
        <5> QED
          BY <3>2, <5>1 DEF HasRead
      <4> QED
        BY <2>3, <4>1, <4>2, <4>3, <4>4, <4>5, <4>6, <4>7, <4>8 DEF Step
    <3> QED
      BY <3>1, <3>2 DEF NoGarbage, HasRead
  <2> QED
    BY <2>1, <2>2, <2>3 DEF Next, EnqueueStore, DequeueShow, PeekShow, SizeShow, IsEmptyShow,
       IsFullShow, AvailableShow, ClearStore, ClearIgnored, Tasks
<1> QED
  BY <1>1, <1>2, IInvHolds, RealHolds, PTL DEF Spec

=============================================================================
