-------------------------- MODULE AllocatorProofs --------------------------
(***************************************************************************)
(* Proofs about Allocator, for every pool, block and word size: extents    *)
(* are disjoint, the bitmap covers exactly them, and the search by bitmap  *)
(* implements first fit; and the areas that init allocates are freed once, *)
(* on the error paths as well.                                             *)
(*                                                                         *)
(* The inductive invariant adds to the invariants of the pool what each    *)
(* loop knows of the blocks it has passed.  The areas have an invariant of *)
(* their own: which are live at each step of init and exit (AreaShape).    *)
(***************************************************************************)
EXTENDS Allocator, BoundedInduction

\* Of the need blocks from r on, one before limit is taken; one is in an extent.
BusyFrom(r, limit) == \E b \in Blocks : r <= b /\ b < r + need /\ b < limit /\ bitmap[b]
CoveredFrom(r) == \E b \in Blocks : r <= b /\ b < r + need /\ \E s \in Blocks : Covers(s, b)

\* Outside the loops of the callbacks no local is in use.
InLoop == {"scan", "mark", "clear"}

IdleShape ==
  pc \notin InLoop =>
    bytes = 0 /\ i = 0 /\ counter = 0 /\ start = 0 /\ need = 0 /\ block = 0

\* Until init has succeeded the pool is empty.
EmptyPool == bitmap = [b \in Blocks |-> FALSE] /\ allocations = [b \in Blocks |-> 0]
LoadShape == pc \in {"unloaded", "init_pool", "init_bitmap", "init_meta"} => EmptyPool

\* The search: blocks start to i - 1 are free and fewer than it needs; from every
\* block before start it has met a taken one too soon.
ScanShape ==
  pc = "scan" =>
    /\ start <= i /\ counter = i - start /\ block = 0
    /\ \A b \in Blocks : start <= b /\ b < i => ~bitmap[b]
    /\ need > 0 => counter < need /\ \A r \in Blocks : r < start => BusyFrom(r, i)

\* Marking: the blocks found are in the pool, no extent covers one, and the
\* request fits at no earlier block.
MarkShape ==
  pc = "mark" =>
    /\ need > 0 /\ start + need <= TotalBlocks /\ i <= need /\ block = 0
    /\ \A b \in Blocks : start <= b /\ b < start + need => \A s \in Blocks : ~Covers(s, b)
    /\ \A r \in Blocks : r < start => CoveredFrom(r)

ClearShape ==
  pc = "clear" => /\ i <= allocations[block]
                  /\ bytes = 0 /\ counter = 0 /\ start = 0 /\ need = 0

IInv ==
  /\ TypeOK /\ ExtentsDisjoint /\ BitmapExact
  /\ IdleShape /\ LoadShape /\ ScanShape /\ MarkShape /\ ClearShape

-----------------------------------------------------------------------------
\* ExtentsDisjoint without intervals: an extent ends in the pool, and a block
\* belongs to one extent.
LEMMA Disjoint ==
  ASSUME TypeOK
  PROVE  ExtentsDisjoint <=>
           /\ \A s \in Blocks : s + allocations[s] <= TotalBlocks
           /\ \A s, r, b \in Blocks : Covers(s, b) /\ Covers(r, b) => r = s
<1> USE AllocatorAssumption DEF TypeOK, Blocks
<1>1. ASSUME ExtentsDisjoint
      PROVE  /\ \A s \in Blocks : s + allocations[s] <= TotalBlocks
             /\ \A s, r, b \in Blocks : Covers(s, b) /\ Covers(r, b) => r = s
  <2>1. ASSUME NEW s \in Blocks PROVE s + allocations[s] <= TotalBlocks
    <3>1. CASE allocations[s] = 0
      BY <3>1
    <3>2. CASE allocations[s] > 0
      <4>1. s + allocations[s] - 1 \in s .. s + allocations[s] - 1
        BY <3>2
      <4> QED
        BY <1>1, <4>1 DEF ExtentsDisjoint
    <3> QED
      BY <3>1, <3>2
  <2>2. ASSUME NEW s \in Blocks, NEW r \in Blocks, NEW b \in Blocks, Covers(s, b), Covers(r, b)
        PROVE  r = s
    <3>1. b \in s .. s + allocations[s] - 1
      BY <2>2 DEF Covers
    <3> QED
      BY <1>1, <2>2, <3>1 DEF ExtentsDisjoint
  <2> QED
    BY <2>1, <2>2
<1>2. ASSUME \A s \in Blocks : s + allocations[s] <= TotalBlocks,
             \A s, r, b \in Blocks : Covers(s, b) /\ Covers(r, b) => r = s
      PROVE  ExtentsDisjoint
  <2> SUFFICES ASSUME NEW s \in Blocks, NEW b \in s .. s + allocations[s] - 1
               PROVE  b \in Blocks /\ \A r \in Blocks : Covers(r, b) => r = s
    BY DEF ExtentsDisjoint
  <2>1. b \in Blocks /\ Covers(s, b)
    BY <1>2 DEF Covers
  <2> QED
    BY <1>2, <2>1
<1> QED
  BY <1>1, <1>2

\* A number of blocks is never negative.
LEMMA NeedIsNat ==
  ASSUME NEW size \in Sizes
  PROVE  NeedBlocks(size) \in Nat
<1>1. (size + BlockSize - 1) % Word \in Nat
  BY AllocatorAssumption DEF Sizes
<1> QED
  BY <1>1, AllocatorAssumption DEF NeedBlocks

\* IInv with ExtentsDisjoint in the form that Disjoint gives it.
Separate ==
  /\ \A s \in Blocks : s + allocations[s] <= TotalBlocks
  /\ \A s, r, b \in Blocks : Covers(s, b) /\ Covers(r, b) => r = s

Inv ==
  /\ TypeOK /\ Separate /\ BitmapExact
  /\ IdleShape /\ LoadShape /\ ScanShape /\ MarkShape /\ ClearShape

LEMMA SameInv == IInv <=> Inv
BY Disjoint DEF IInv, Inv, Separate

LEMMA Initially == Init => Inv
<1> SUFFICES ASSUME Init PROVE Inv
  OBVIOUS
<1> USE AllocatorAssumption DEF Init, Blocks
<1>1. TypeOK
  BY DEF TypeOK, Points, Sizes
<1>2. Separate /\ BitmapExact
  BY DEF Separate, BitmapExact, Covers
<1>3. IdleShape /\ LoadShape /\ ScanShape /\ MarkShape /\ ClearShape
  BY DEF IdleShape, LoadShape, EmptyPool, ScanShape, MarkShape, ClearShape
<1> QED
  BY <1>1, <1>2, <1>3 DEF Inv

\* The module is gone, and leaves an empty pool.
LEMMA GoneInv ==
  ASSUME Inv, Gone
  PROVE  Inv'
<1> USE AllocatorAssumption DEF Inv, Gone, Blocks, locals
<1>1. TypeOK'
  BY DEF TypeOK, Points
<1>2. Separate' /\ BitmapExact'
  BY DEF Separate, BitmapExact, Covers
<1>3. IdleShape' /\ LoadShape' /\ ScanShape' /\ MarkShape' /\ ClearShape'
  BY DEF IdleShape, LoadShape, EmptyPool, ScanShape, MarkShape, ClearShape, InLoop
<1> QED
  BY <1>1, <1>2, <1>3

\* The other steps of init and exit leave the pool as it is: where vzalloc clears
\* it, it is empty already.
OtherStep == InitStep \/ Unload \/ DestroyBitmap \/ DestroyMeta \/ DestroyPool \/ Fault

LEMMA OtherKeeps ==
  ASSUME Inv, OtherStep
  PROVE  /\ pc \notin InLoop /\ pc' \in Points \ InLoop
         /\ memory' \in [Areas -> {"null", "live", "dangling"}]
         /\ rc' \in {"ERR_OK", "ERR_ALLOCATE_ALLOCATOR", "ERR_ALLOCATE_BITMAP", "ERR_ALLOCATE_META"}
         /\ UNCHANGED <<bitmap, allocations, locals>>
         /\ LoadShape'
<1> USE DEF Inv, InLoop, Points
<1>1. CASE Load
  BY <1>1 DEF Load, TypeOK, LoadShape, EmptyPool
<1>2. CASE MemoryPool
  BY <1>2 DEF MemoryPool, Vzalloc, Fails, TypeOK, LoadShape, EmptyPool
<1>3. CASE CreateBitmap
  BY <1>3 DEF CreateBitmap, Vzalloc, Fails, TypeOK, LoadShape, EmptyPool
<1>4. CASE Allocations
  BY <1>4 DEF Allocations, Vzalloc, Fails, TypeOK, LoadShape, EmptyPool
<1>5. CASE FreePool
  BY <1>5 DEF FreePool, Vfree, TypeOK, LoadShape, EmptyPool
<1>6. CASE FreeBitmap
  BY <1>6 DEF FreeBitmap, Vfree, TypeOK, LoadShape, EmptyPool
<1>7. CASE Unload
  BY <1>7 DEF Unload, TypeOK, LoadShape, EmptyPool
<1>8. CASE DestroyBitmap
  BY <1>8 DEF DestroyBitmap, Vfree, TypeOK, LoadShape, EmptyPool
<1>9. CASE DestroyMeta
  BY <1>9 DEF DestroyMeta, Vfree, TypeOK, LoadShape, EmptyPool
<1>10. CASE DestroyPool
  BY <1>10 DEF DestroyPool, Vfree, TypeOK, LoadShape, EmptyPool
<1>11. CASE Fault
  BY <1>11 DEF Fault, TypeOK, LoadShape, EmptyPool
<1> QED
  BY <1>1, <1>2, <1>3, <1>4, <1>5, <1>6, <1>7, <1>8, <1>9, <1>10, <1>11 DEF OtherStep, InitStep

LEMMA OtherInv ==
  ASSUME Inv, OtherStep
  PROVE  Inv'
<1>1. /\ pc \notin InLoop /\ pc' \notin InLoop /\ pc' \in Points
      /\ UNCHANGED <<bitmap, allocations, locals>>
      /\ LoadShape'
  BY OtherKeeps
<1> USE DEF Inv, locals
<1>2. TypeOK'
  BY <1>1, OtherKeeps DEF TypeOK
<1>3. Separate' /\ BitmapExact'
  BY <1>1 DEF Separate, BitmapExact, Covers, InLoop
<1>4. IdleShape' /\ ScanShape' /\ MarkShape' /\ ClearShape'
  BY <1>1 DEF IdleShape, ScanShape, MarkShape, ClearShape, InLoop
<1> QED
  BY <1>1, <1>2, <1>3, <1>4

\* Every step preserves the inductive invariant.
LEMMA Induction ==
  ASSUME Inv, [Next]_vars
  PROVE  Inv'
<1> USE AllocatorAssumption DEF Inv, InLoop
<1>1. ASSUME OtherStep
      PROVE  Inv'
  BY <1>1, OtherInv
<1>2. ASSUME Gone
      PROVE  Inv'
  BY <1>2, GoneInv
<1>4. ASSUME NEW size \in Sizes, AllocSet(size)
      PROVE  Inv'
  <2> USE <1>4 DEF AllocSet
  <2>1. TypeOK'
    BY NeedIsNat DEF TypeOK, Points
  <2>2. Separate' /\ BitmapExact'
    BY DEF Separate, BitmapExact, Covers
  <2>3. IdleShape' /\ LoadShape' /\ ScanShape' /\ MarkShape' /\ ClearShape'
    BY NeedIsNat DEF IdleShape, LoadShape, ScanShape, MarkShape, ClearShape, Blocks
  <2> QED
    BY <2>1, <2>2, <2>3
<1>5. ASSUME ScanBlock
      PROVE  Inv'
  <2> USE <1>5 DEF ScanBlock, NextStart
  <2>1. i \in Blocks /\ i' \in 0 .. TotalBlocks
    BY DEF TypeOK, Blocks
  <2>7. start <= i /\ counter = i - start /\ start \in Nat /\ bitmap[i] \in BOOLEAN
    BY <2>1 DEF ScanShape, TypeOK
  <2>8. \/ /\ bitmap[i] /\ pc' = "scan" /\ counter' = 0 /\ start' = i + 1 /\ i' = i + 1
        \/ /\ ~bitmap[i] /\ pc' = "scan" /\ counter' = counter + 1 /\ start' = start /\ i' = i + 1
           /\ counter + 1 # need
        \/ /\ ~bitmap[i] /\ pc' = "mark" /\ counter' = counter + 1 /\ start' = start /\ i' = 0
           /\ counter + 1 = need
    BY <2>7
  <2>2. TypeOK'
    <3>1. /\ counter' \in 0 .. TotalBlocks /\ start' \in 0 .. TotalBlocks
          /\ pc' \in Points
      BY <2>1, <2>7, <2>8 DEF Blocks, Points
    <3> QED
      BY <2>1, <3>1 DEF TypeOK, Points
  <2>3. Separate' /\ BitmapExact'
    <3>1. Separate'
      BY DEF Separate, Covers
    <3>2. \A b \in Blocks : bitmap[b] <=> \E s \in Blocks : Covers(s, b)
      BY DEF BitmapExact
    <3>3. \A b \in Blocks : ~(pc' = "mark" /\ start' <= b /\ b < start' + i')
      BY <2>7, <2>8 DEF Blocks
    <3>4. pc' # "clear"
      BY <2>8
    <3> QED
      BY <3>1, <3>2, <3>3, <3>4 DEF BitmapExact, Covers
  <2>4. IdleShape' /\ LoadShape' /\ ClearShape'
    BY DEF IdleShape, LoadShape, ClearShape
  <2>5. ScanShape'
    <3> SUFFICES ASSUME pc' = "scan" PROVE ScanShape'
      BY DEF ScanShape
    <3>1. block = 0 /\ start' <= i' /\ counter' = i' - start' /\ i' = i + 1 /\ UNCHANGED <<bitmap, need, block>>
      BY <2>1, <2>7, <2>8 DEF ScanShape, Blocks
    <3>2. \A b \in Blocks : start' <= b /\ b < i' => ~bitmap[b]
      BY <2>1, <2>7, <2>8 DEF ScanShape, Blocks
    <3>3. ASSUME need > 0
          PROVE  counter' < need /\ \A r \in Blocks : r < start' => BusyFrom(r, i')
      <4>1. counter' < need
        BY <2>7, <2>8, <2>1, <3>3 DEF ScanShape, TypeOK, Blocks
      <4>2. ASSUME NEW r \in Blocks, r < start
            PROVE  BusyFrom(r, i')
        BY <2>1, <3>1, <3>3, <4>2 DEF ScanShape, BusyFrom, Blocks
      <4>3. ASSUME NEW r \in Blocks, start <= r, r < start'
            PROVE  BusyFrom(r, i')
        <5>1. bitmap[i] /\ i' = i + 1 /\ r <= i /\ i < r + need
          BY <2>1, <2>7, <2>8, <3>3, <4>3 DEF ScanShape, Blocks, TypeOK
        <5> QED
          BY <2>1, <5>1 DEF BusyFrom, Blocks
      <4> QED
        BY <2>7, <4>1, <4>2, <4>3 DEF Blocks
    <3> QED
      BY <3>1, <3>2, <3>3 DEF ScanShape, BusyFrom
  <2>6. MarkShape'
    <3> SUFFICES ASSUME pc' = "mark" PROVE MarkShape'
      BY DEF MarkShape
    <3>1. need > 0 /\ start + need = i + 1 /\ ~bitmap[i] /\ block = 0 /\ start' = start /\ i' = 0
      BY DEF ScanShape, TypeOK
    <3>2. \A b \in Blocks : start <= b /\ b < start + need => ~bitmap[b]
      BY <2>1, <3>1 DEF ScanShape, TypeOK, Blocks
    <3>3. \A b \in Blocks : bitmap[b] <=> \E s \in Blocks : Covers(s, b)
      BY DEF BitmapExact
    <3>4. \A r \in Blocks : r < start => CoveredFrom(r)
      BY <3>1, <3>3 DEF ScanShape, BusyFrom, CoveredFrom
    <3>5. start + need <= TotalBlocks
      BY <3>1 DEF TypeOK, Points
    <3> QED
      BY <3>1, <3>2, <3>3, <3>4, <3>5 DEF MarkShape, CoveredFrom, Covers, TypeOK
  <2> QED
    BY <2>2, <2>3, <2>4, <2>5, <2>6
<1>6. ASSUME NotFound
      PROVE  Inv'
  <2> USE <1>6 DEF NotFound, LocalsZero
  <2>1. TypeOK'
    BY DEF TypeOK, Points, Sizes, Blocks
  <2>2. Separate' /\ BitmapExact'
    BY DEF Separate, BitmapExact, Covers
  <2>3. IdleShape' /\ LoadShape' /\ ScanShape' /\ MarkShape' /\ ClearShape'
    BY DEF IdleShape, LoadShape, ScanShape, MarkShape, ClearShape
  <2> QED
    BY <2>1, <2>2, <2>3
<1>7. ASSUME MarkBlock
      PROVE  Inv'
  <2> USE <1>7 DEF MarkBlock
  <2>1. start + i \in Blocks /\ i + 1 \in 0 .. TotalBlocks
    BY DEF TypeOK, MarkShape, Blocks
  <2>2. TypeOK'
    BY <2>1 DEF TypeOK, Points
  <2>3. Separate'
    BY DEF Separate, Covers
  <2>4. BitmapExact'
    BY <2>1 DEF BitmapExact, Covers, TypeOK, Blocks
  <2>5. IdleShape' /\ LoadShape' /\ ScanShape' /\ MarkShape' /\ ClearShape'
    BY DEF IdleShape, LoadShape, ScanShape, MarkShape, ClearShape, CoveredFrom, Covers, TypeOK
  <2> QED
    BY <2>2, <2>3, <2>4, <2>5
<1>8. ASSUME Granted
      PROVE  Inv'
  <2> USE <1>8 DEF Granted, LocalsZero
  <2>1. start \in Blocks /\ need \in 0 .. TotalBlocks
    BY DEF MarkShape, TypeOK, Blocks
  <2>2. TypeOK'
    BY <2>1 DEF TypeOK, Points, Sizes, Blocks
  <2>3. allocations'[start] = need /\ \A s \in Blocks : s # start => allocations'[s] = allocations[s]
    BY <2>1 DEF TypeOK, Points
  <2>4. ASSUME NEW s \in Blocks, NEW b \in Blocks
        PROVE  Covers(s, b)' <=> \/ s # start /\ Covers(s, b)
                                 \/ s = start /\ start <= b /\ b < start + need
    <3>1. Covers(s, b)' <=> s <= b /\ b < s + allocations'[s]
      BY DEF Covers
    <3>2. CASE s = start
      BY <2>3, <3>1, <3>2
    <3>3. CASE s # start
      BY <2>3, <3>1, <3>3 DEF Covers
    <3> QED
      BY <3>2, <3>3
  <2>5. \A b \in Blocks : ~Covers(start, b)
    BY <2>1 DEF MarkShape, Covers, TypeOK, Blocks
  <2>6. Separate'
    BY <2>1, <2>3, <2>4 DEF Separate, MarkShape
  <2>7. BitmapExact'
    <3> DEFINE Found(b) == start <= b /\ b < start + need
    <3>1. \A b \in Blocks : bitmap[b] <=> (\E s \in Blocks : Covers(s, b)) \/ Found(b)
      BY DEF BitmapExact
    <3>2. ASSUME NEW b \in Blocks
          PROVE  (\E s \in Blocks : Covers(s, b)') <=> (\E s \in Blocks : Covers(s, b)) \/ Found(b)
      <4>1. ~Covers(start, b)
        BY <2>5
      <4>2. \A s \in Blocks : Covers(s, b)' <=> (s # start /\ Covers(s, b)) \/ (s = start /\ Found(b))
        BY <2>4
      <4> HIDE DEF Granted, Found
      <4> QED
        BY <2>1, <4>1, <4>2
    <3> QED
      BY <3>1, <3>2 DEF BitmapExact, Covers
  <2>8. IdleShape' /\ LoadShape' /\ ScanShape' /\ MarkShape' /\ ClearShape'
    BY DEF IdleShape, LoadShape, ScanShape, MarkShape, ClearShape
  <2> QED
    BY <2>2, <2>6, <2>7, <2>8
<1>9. ASSUME NEW ptr \in Pointers, FreeSet(ptr)
      PROVE  Inv'
  <2> USE <1>9 DEF FreeSet
  <2>1. ptr # None => ptr[1] \in Blocks
    BY DEF Pointers
  <2>2. TypeOK'
    BY <2>1 DEF TypeOK, Points, Freeable
  <2>3. Separate' /\ BitmapExact'
    BY DEF Separate, BitmapExact, Covers, IdleShape, TypeOK, Blocks
  <2>4. IdleShape' /\ LoadShape' /\ ScanShape' /\ MarkShape' /\ ClearShape'
    BY <2>1 DEF IdleShape, LoadShape, ScanShape, MarkShape, ClearShape, TypeOK, Freeable
  <2> QED
    BY <2>2, <2>3, <2>4
<1>10. ASSUME ClearBlock
       PROVE  Inv'
  <2> USE <1>10 DEF ClearBlock
  <2>1. block + i \in Blocks /\ i + 1 \in 0 .. TotalBlocks /\ Covers(block, block + i)
    BY DEF TypeOK, Separate, Blocks, Covers
  <2>2. TypeOK'
    BY <2>1 DEF TypeOK, Points
  <2>3. Separate'
    BY DEF Separate, Covers
  <2>4. BitmapExact'
    <3>1. \A b \in Blocks : bitmap'[b] <=> bitmap[b] /\ b # block + i
      BY <2>1 DEF TypeOK, Points
    <3>2. \A b \in Blocks : bitmap[b] <=> \E s \in Blocks : Covers(s, b) /\ ~(s = block /\ b < block + i)
      BY DEF BitmapExact
    <3>3. ASSUME NEW b \in Blocks
          PROVE  bitmap'[b] <=> \E s \in Blocks : Covers(s, b) /\ ~(s = block /\ b < block + (i + 1))
      <4>1. CASE b = block + i
        <5>1. \A s \in Blocks : Covers(s, b) => s = block
          BY <2>1, <4>1 DEF Separate, TypeOK
        <5> QED
          BY <3>1, <4>1, <5>1 DEF Blocks, TypeOK
      <4>2. CASE b # block + i
        <5>1. b < block + (i + 1) <=> b < block + i
          BY <4>2 DEF Blocks, TypeOK
        <5> QED
          BY <3>1, <3>2, <4>2, <5>1
      <4> QED
        BY <4>1, <4>2
    <3> QED
      BY <3>3 DEF BitmapExact, Covers
  <2>5. IdleShape' /\ LoadShape' /\ ScanShape' /\ MarkShape' /\ ClearShape'
    BY DEF IdleShape, LoadShape, ScanShape, MarkShape, ClearShape, TypeOK
  <2> QED
    BY <2>2, <2>3, <2>4, <2>5
<1>11. ASSUME Freed
       PROVE  Inv'
  <2> USE <1>11 DEF Freed, LocalsZero
  <2>1. allocations'[block] = 0 /\ \A s \in Blocks : s # block => allocations'[s] = allocations[s]
    BY DEF TypeOK, Points
  <2>2. TypeOK'
    BY DEF TypeOK, Points, Sizes, Blocks
  <2>3. \A s, b \in Blocks : Covers(s, b)' <=> s # block /\ Covers(s, b)
    BY <2>1 DEF Covers, Blocks, TypeOK
  <2>4. Separate'
    <3>1. \A s \in Blocks : s + allocations'[s] <= TotalBlocks
      BY <2>1 DEF Separate, TypeOK, Blocks
    <3> QED
      BY <2>3, <3>1 DEF Separate
  <2>5. BitmapExact'
    BY <2>3 DEF BitmapExact, Covers
  <2>6. IdleShape' /\ LoadShape' /\ ScanShape' /\ MarkShape' /\ ClearShape'
    BY DEF IdleShape, LoadShape, ScanShape, MarkShape, ClearShape
  <2> QED
    BY <2>2, <2>4, <2>5, <2>6
<1>12. ASSUME UNCHANGED vars
       PROVE  Inv'
  BY <1>12 DEF vars, TypeOK, Separate, BitmapExact, Covers, IdleShape, LoadShape, EmptyPool,
               ScanShape, BusyFrom,
               MarkShape, CoveredFrom, ClearShape
<1> QED
  BY <1>1, <1>2, <1>4, <1>5, <1>6, <1>7, <1>8, <1>9, <1>10, <1>11, <1>12
     DEF Next, ExitStep, OtherStep

LEMMA Invariance == Spec => []Inv
<1> QED
  BY Initially, Induction, PTL DEF Spec

\* The variables of the allocator keep their types; no index leaves the pool.
THEOREM TypeCorrect == Spec => []TypeOK
<1>1. Inv => TypeOK
  BY DEF Inv
<1> QED
  BY <1>1, Invariance, PTL

\* Extents lie in the pool and never overlap.
THEOREM DisjointCorrect == Spec => []ExtentsDisjoint
<1>1. Inv => ExtentsDisjoint
  BY SameInv DEF IInv
<1> QED
  BY <1>1, Invariance, PTL

\* The bitmap covers exactly the extents, in the middle of a callback too.
THEOREM BitmapCorrect == Spec => []BitmapExact
<1>1. Inv => BitmapExact
  BY DEF Inv
<1> QED
  BY <1>1, Invariance, PTL

-----------------------------------------------------------------------------
LEMMA TakenIsCovered == ASSUME NEW b PROVE Promise!Taken(b) <=> \E s \in Blocks : Covers(s, b)
BY DEF Promise!Taken, Promise!Holds, Covers

\* A block passed by the search starts no run of need blocks.
LEMMA CoveredDoesNotFit ==
  ASSUME NEW r \in Blocks, TypeOK, CoveredFrom(r)
  PROVE  ~Promise!Fits(r, need)
<1>1. PICK b \in Blocks : r <= b /\ b < r + need /\ \E s \in Blocks : Covers(s, b)
  BY DEF CoveredFrom
<1>2. b \in r .. r + need - 1
  BY <1>1, AllocatorAssumption DEF Blocks, TypeOK
<1> QED
  BY <1>1, <1>2, TakenIsCovered DEF Promise!Fits

\* A step of the allocator is a step of first fit, or changes no extent.
LEMMA StepIsFirstFit ==
  ASSUME Inv, [Next]_vars
  PROVE  [Promise!Next]_(Promise!vars)
<1> USE AllocatorAssumption DEF Promise!vars
<1> DEFINE S == UNCHANGED Promise!vars
<1>1. ASSUME InitStep \/ ExitStep \/ Fault
      PROVE  Promise!Clear \/ S
  <2>1. CASE OtherStep
    BY <2>1, OtherKeeps DEF InLoop, locals
  <2>2. CASE Gone
    BY <2>2 DEF Gone, Promise!Clear, locals
  <2> QED
    BY <1>1, <2>1, <2>2 DEF ExitStep, OtherStep
<1>2. ASSUME NEW size \in Sizes, AllocSet(size)
      PROVE  Promise!Ask \/ S
  BY <1>2, NeedIsNat DEF AllocSet, Promise!Ask
<1>3. ASSUME ScanBlock \/ MarkBlock \/ ClearBlock
      PROVE  S
  BY <1>3 DEF ScanBlock, MarkBlock, ClearBlock, locals
<1>4. ASSUME NEW ptr \in Pointers, FreeSet(ptr)
      PROVE  S
  BY <1>4 DEF FreeSet
<1>5. ASSUME NotFound
      PROVE  Promise!Refuse
  <2> USE <1>5 DEF NotFound, LocalsZero
  <2>1. ASSUME need > 0, NEW r \in Blocks
        PROVE  ~Promise!Fits(r, need)
    <3>1. CASE r < start
      <4>1. \A b \in Blocks : bitmap[b] <=> \E s \in Blocks : Covers(s, b)
        BY DEF Inv, BitmapExact
      <4>2. CoveredFrom(r)
        BY <2>1, <3>1, <4>1 DEF Inv, ScanShape, BusyFrom, CoveredFrom
      <4> QED
        BY <4>2, CoveredDoesNotFit DEF Inv
    <3>2. CASE r >= start
      <4>1. TotalBlocks \in r .. r + need - 1
        BY <2>1, <3>2 DEF Inv, ScanShape, TypeOK, Blocks
      <4> QED
        BY <4>1 DEF Promise!Fits, Blocks
    <3> QED
      BY <3>1, <3>2 DEF Inv, TypeOK, Blocks
  <2>2. need = 0 \/ \A r \in Blocks : ~Promise!Fits(r, need)
    BY <2>1 DEF Inv, TypeOK
  <2> QED
    BY <2>2 DEF Promise!Refuse
<1>6. ASSUME Granted
      PROVE  \E s \in Blocks : Promise!Grant(s)
  <2> USE <1>6 DEF Granted, LocalsZero
  <2>1. start \in Blocks /\ need > 0
    BY DEF Inv, MarkShape, TypeOK, Blocks
  <2>2. Promise!Fits(start, need)
    <3> SUFFICES ASSUME NEW b \in start .. start + need - 1
                 PROVE  b \in Blocks /\ ~Promise!Taken(b)
      BY DEF Promise!Fits
    <3>1. b \in Blocks /\ start <= b /\ b < start + need
      BY DEF Inv, MarkShape, TypeOK, Blocks
    <3> QED
      BY <3>1, TakenIsCovered DEF Inv, MarkShape
  <2>3. \A r \in Blocks : r < start => ~Promise!Fits(r, need)
    BY CoveredDoesNotFit DEF Inv, MarkShape
  <2>4. Promise!Grant(start)
    BY <2>1, <2>2, <2>3 DEF Promise!Grant
  <2> QED
    BY <2>1, <2>4
<1>7. ASSUME Freed
      PROVE  \E s \in Blocks : Promise!Release(s)
  BY <1>7 DEF Freed, Inv, TypeOK, Promise!Release
<1>8. ASSUME UNCHANGED vars
      PROVE  S
  BY <1>8 DEF vars
<1> QED
  BY <1>1, <1>2, <1>3, <1>4, <1>5, <1>6, <1>7, <1>8 DEF Next, Promise!Next

\* The search by bitmap implements first fit: a request is granted at the
\* lowest place where it fits, and refused only when it fits nowhere.
THEOREM FirstFitCorrect == Spec => IsFirstFit
<1>1. Init => Promise!Init
  BY DEF Init, Promise!Init
<1>2. Inv /\ [Next]_vars => [Promise!Next]_(Promise!vars)
  BY StepIsFirstFit
<1> QED
  BY <1>1, <1>2, Invariance, PTL DEF Spec, IsFirstFit, Promise!Spec

-----------------------------------------------------------------------------
\* The areas at each step.
AllLive == \A a \in Areas : memory[a] = "live"
NoneLive == \A a \in Areas : memory[a] # "live"

\* Init has got so far, and nothing has failed.
Got(live) ==
  /\ rc = "ERR_OK"
  /\ \A a \in Areas : memory[a] = IF a \in live THEN "live" ELSE "null"

\* Exit goes through the areas of an init that succeeded, or through those of one
\* that failed.
Left(live) ==
  IF rc = "ERR_OK" THEN \A a \in Areas : memory[a] = IF a \in live THEN "live" ELSE "dangling"
  ELSE NoneLive

AreaShape ==
  /\ memory \in [Areas -> {"null", "live", "dangling"}]
  /\ pc \in {"unloaded", "init_pool"} => Got({})
  /\ pc = "init_bitmap" => Got({"pool"})
  /\ pc = "init_meta" => Got({"pool", "bitmap"})
  /\ pc = "free_pool" =>
       /\ memory["pool"] = "live" /\ memory["meta"] = "null"
       /\ \/ rc = "ERR_ALLOCATE_BITMAP" /\ memory["bitmap"] = "null"
          \/ rc = "ERR_ALLOCATE_META" /\ memory["bitmap"] = "live"
  /\ pc = "free_bitmap" =>
       /\ rc = "ERR_ALLOCATE_META"
       /\ memory = [pool |-> "dangling", bitmap |-> "live", meta |-> "null"]
  /\ pc \in {"idle", "destroy_bitmap"} => IF rc = "ERR_OK" THEN AllLive ELSE NoneLive
  /\ pc \in {"scan", "mark", "clear"} => rc = "ERR_OK" /\ AllLive
  /\ pc = "destroy_meta" => Left({"meta", "pool"})
  /\ pc = "destroy_pool" => Left({"pool"})
  /\ pc = "gone" => NoneLive
  /\ pc = "fault" => rc # "ERR_OK"

LEMMA AreaStep ==
  ASSUME AreaShape, [Next]_vars
  PROVE  AreaShape'
<1> USE DEF AreaShape, Areas, Got, Left, AllLive, NoneLive
<1>1. CASE Load
  BY <1>1 DEF Load
<1>2. CASE MemoryPool
  BY <1>2 DEF MemoryPool, Vzalloc, Fails
<1>3. CASE CreateBitmap
  BY <1>3 DEF CreateBitmap, Vzalloc, Fails
<1>4. CASE Allocations
  BY <1>4 DEF Allocations, Vzalloc, Fails
<1>5. CASE FreePool
  BY <1>5 DEF FreePool, Vfree
<1>6. CASE FreeBitmap
  BY <1>6 DEF FreeBitmap, Vfree
<1>7. CASE Unload
  BY <1>7 DEF Unload
<1>8. CASE DestroyBitmap
  BY <1>8 DEF DestroyBitmap, Vfree
<1>9. CASE DestroyMeta
  BY <1>9 DEF DestroyMeta, Vfree
<1>10. CASE DestroyPool
  BY <1>10 DEF DestroyPool, Vfree
<1>11. CASE Gone
  BY <1>11 DEF Gone
<1>12. CASE Fault
  BY <1>12 DEF Fault, Usable
<1>13. CASE \E size \in Sizes : AllocSet(size)
  BY <1>13 DEF AllocSet, Usable
<1>14. CASE \E ptr \in Pointers : FreeSet(ptr)
  BY <1>14 DEF FreeSet, Usable
<1>15. CASE ScanBlock \/ NotFound \/ MarkBlock \/ Granted \/ ClearBlock \/ Freed
  BY <1>15 DEF ScanBlock, NotFound, MarkBlock, Granted, ClearBlock, Freed
<1>16. CASE UNCHANGED vars
  BY <1>16 DEF vars
<1> QED
  BY <1>1, <1>2, <1>3, <1>4, <1>5, <1>6, <1>7, <1>8, <1>9, <1>10, <1>11, <1>12, <1>13, <1>14,
     <1>15, <1>16 DEF Next, InitStep, ExitStep

\* Every path of init and exit frees each area it has to, and none twice unless
\* init has failed.
THEOREM AreasCorrect == Spec => []AreasAccounted
<1>1. Init => AreaShape
  BY DEF Init, AreaShape, Areas, Got
<1>2. AreaShape => AreasAccounted
  BY DEF AreaShape, AreasAccounted, AllLive, NoneLive, Usable
<1> QED
  BY <1>1, <1>2, AreaStep, PTL DEF Spec

-----------------------------------------------------------------------------
\* The rounding of a size to blocks holds the size, unless it overflows to none.
LEMMA RoundedUp ==
  ASSUME NEW size \in Sizes, NeedBlocks(size) > 0
  PROVE  NeedBlocks(size) * BlockSize >= size
<1> USE AllocatorAssumption DEF Sizes
<1> DEFINE sum == size + BlockSize - 1
           rest == sum % Word
<1>1. sum \in Nat /\ rest \in 0 .. Word - 1
  OBVIOUS
<1>2. NeedBlocks(size) = rest \div BlockSize
  BY DEF NeedBlocks
<1>3. rest >= BlockSize
  BY <1>1, <1>2
<1>4. rest = sum
  <2>1. CASE sum < Word
    BY <1>1, <2>1
  <2>2. CASE sum >= Word
    <3>1. BlockSize < Word
      BY <1>1, <1>3
    <3>2. rest = sum - Word
      BY <1>1, <2>2, <3>1
    <3> QED
      BY <1>3, <3>2
  <2> QED
    BY <1>1, <2>1, <2>2
<1>5. (sum \div BlockSize) * BlockSize > sum - BlockSize
  BY <1>1
<1> QED
  BY <1>1, <1>2, <1>4, <1>5

\* While a request is served, need is its size rounded up to blocks.
Rounded == pc \in {"scan", "mark"} => need = NeedBlocks(bytes)

\* A request is granted in blocks that hold it, for every size in a word.
THEOREM GrantCorrect == Spec => []GrantHolds
<1>1. Init => Rounded
  BY DEF Init, Rounded
<1>2. Rounded /\ [Next]_vars => Rounded'
  BY DEF Rounded, Next, InitStep, ExitStep, Load, MemoryPool, CreateBitmap, Allocations, FreePool,
         FreeBitmap, Vzalloc, Fails, Vfree, Unload, DestroyBitmap, DestroyMeta, DestroyPool, Gone,
         Fault, AllocSet, ScanBlock, NotFound, MarkBlock, Granted,
         FreeSet, ClearBlock, Freed, LocalsZero, vars, locals
<1>3. Inv /\ Rounded => GrantHolds
  <2> SUFFICES ASSUME Inv, Rounded, pc = "mark"
               PROVE  need * BlockSize >= bytes
    BY DEF GrantHolds
  <2>1. bytes \in Sizes /\ need > 0
    BY SameInv DEF IInv, TypeOK, MarkShape
  <2>2. need = NeedBlocks(bytes)
    BY DEF Rounded
  <2> QED
    BY <2>1, <2>2, RoundedUp
<1> QED
  BY <1>1, <1>2, <1>3, Invariance, PTL DEF Spec

-----------------------------------------------------------------------------
(***************************************************************************)
(* The statistics.  Both loops of allocator_get_stats are recursive        *)
(* functions, and what they compute is shown by induction on their turns   *)
(* (BoundedInduction).                                                     *)
(***************************************************************************)
LEMMA LengthsAre ==
  ASSUME TypeOK
  PROVE  /\ LengthsBefore \in [0 .. TotalBlocks -> Nat] /\ LengthsBefore[0] = 0
         /\ \A k \in 1 .. TotalBlocks : LengthsBefore[k] = LengthsBefore[k - 1] + allocations[k - 1]
<1> USE AllocatorAssumption
<1> DEFINE step == [k \in 1 .. TotalBlocks |-> [x \in Nat |-> x + allocations[k - 1]]]
           Sums(f) == f = [k \in 0 .. TotalBlocks |-> IF k = 0 THEN 0 ELSE f[k - 1] + allocations[k - 1]]
<1>1. \A k \in 1 .. TotalBlocks : k - 1 \in 0 .. TotalBlocks /\ allocations[k - 1] \in Nat
  BY DEF TypeOK, Blocks
<1>2. step \in [1 .. TotalBlocks -> [Nat -> Nat]]
  BY <1>1
<1>3. PICK f : Solution(f, TotalBlocks, Nat, 0, step)
  <2>1. Recursion(TotalBlocks, Nat, 0, step)
    BY <1>2 DEF Recursion
  <2> HIDE DEF step
  <2> QED
    BY <2>1, Iterates
<1>4. \A k \in 1 .. TotalBlocks : f[k] = f[k - 1] + allocations[k - 1]
  BY <1>1, <1>3 DEF Solution
<1>5. Sums(f)
  BY <1>3, <1>4 DEF Solution
<1>6. LengthsBefore = CHOOSE g : Sums(g)
  BY DEF LengthsBefore
<1>7. Sums(LengthsBefore)
  <2> HIDE DEF Sums
  <2> QED
    BY <1>5, <1>6
<1>8. \A k \in 0 .. TotalBlocks :
        LengthsBefore[k] = IF k = 0 THEN 0 ELSE LengthsBefore[k - 1] + allocations[k - 1]
  BY <1>7
<1>9. LengthsBefore[0] = 0 /\ \A k \in 1 .. TotalBlocks : LengthsBefore[k] = LengthsBefore[k - 1] + allocations[k - 1]
  BY <1>8
<1> DEFINE P == {k \in 0 .. TotalBlocks : LengthsBefore[k] \in Nat}
<1>10. 0 \in P /\ \A k \in 0 .. TotalBlocks - 1 : k \in P => k + 1 \in P
  <2>1. ASSUME NEW k \in 0 .. TotalBlocks - 1, LengthsBefore[k] \in Nat
        PROVE  LengthsBefore[k + 1] \in Nat
    <3>1. k + 1 \in 1 .. TotalBlocks /\ (k + 1) - 1 = k
      OBVIOUS
    <3>2. LengthsBefore[k + 1] = LengthsBefore[k] + allocations[k] /\ allocations[k] \in Nat
      BY <1>1, <1>9, <3>1
    <3> QED
      BY <2>1, <3>2
  <2> HIDE DEF Sums
  <2> QED
    BY <1>9, <2>1
<1>11. \A k \in 0 .. TotalBlocks : k \in P
  <2> HIDE DEF P
  <2> QED
    BY <1>10, Upwards
<1>12. LengthsBefore = [k \in 0 .. TotalBlocks |-> LengthsBefore[k]]
  BY <1>7
<1> QED
  BY <1>9, <1>11, <1>12

\* The blocks of the extents that start before block k.
Before(k) == {b \in Blocks : \E s \in Blocks : s < k /\ Covers(s, b)}

\* As extents share no block, their lengths add up to the number of their blocks.
LEMMA LengthsCount ==
  ASSUME TypeOK, Separate
  PROVE  \A k \in 0 .. TotalBlocks :
           IsFiniteSet(Before(k)) /\ LengthsBefore[k] = Cardinality(Before(k))
<1> USE AllocatorAssumption DEF Blocks
<1> DEFINE P == {k \in 0 .. TotalBlocks :
                   IsFiniteSet(Before(k)) /\ LengthsBefore[k] = Cardinality(Before(k))}
<1>1. 0 \in P
  <2>1. Before(0) = {} /\ 0 \in 0 .. TotalBlocks
    BY DEF Before
  <2>2. LengthsBefore[0] = 0
    BY LengthsAre
  <2> QED
    BY <2>1, <2>2, FS_EmptySet
<1>2. ASSUME NEW k \in 0 .. TotalBlocks - 1, k \in P PROVE k + 1 \in P
  <2> DEFINE new == k .. k + allocations[k] - 1
  <2>1. allocations[k] \in Nat /\ k + allocations[k] <= TotalBlocks /\ k \in Blocks
    BY DEF TypeOK, Separate
  <2>2. \A b \in Blocks : b \in new <=> Covers(k, b)
    BY <2>1 DEF Covers
  <2>3. Before(k + 1) = Before(k) \union new
    <3>1. \A s \in Blocks : s < k + 1 <=> (s < k \/ s = k)
      OBVIOUS
    <3>2. new \subseteq Blocks
      BY <2>1
    <3> HIDE DEF new
    <3> QED
      BY <2>1, <2>2, <3>1, <3>2 DEF Before
  <2>4. Before(k) \cap new = {}
    BY <2>1, <2>2 DEF Before, Separate
  <2>5. IsFiniteSet(new) /\ Cardinality(new) = allocations[k]
    <3> DEFINE last == k + allocations[k] - 1
    <3>1. k \in Int /\ last \in Int
      BY <2>1
    <3> HIDE DEF last
    <3>2. IsFiniteSet(k .. last) /\ Cardinality(k .. last) = IF k > last THEN 0 ELSE last - k + 1
      BY <3>1, FS_Interval
    <3> QED
      BY <2>1, <3>2 DEF last
  <2>6. IsFiniteSet(Before(k)) /\ LengthsBefore[k] = Cardinality(Before(k))
    BY <1>2
  <2> HIDE DEF new, P
  <2>7. /\ IsFiniteSet(Before(k) \union new)
        /\ Cardinality(Before(k) \union new)
             = Cardinality(Before(k)) + Cardinality(new) - Cardinality(Before(k) \cap new)
    BY <2>5, <2>6, FS_Union
  <2>8. Cardinality(Before(k) \union new) = Cardinality(Before(k)) + allocations[k]
    <3>1. Cardinality(Before(k) \cap new) = 0 /\ Cardinality(Before(k)) \in Nat
      BY <2>4, <2>6, FS_EmptySet, FS_CardinalityType
    <3> QED
      BY <2>1, <2>5, <2>7, <3>1
  <2>9. k + 1 \in 1 .. TotalBlocks /\ (k + 1) - 1 = k /\ k + 1 \in 0 .. TotalBlocks
    OBVIOUS
  <2>10. LengthsBefore[k + 1] = LengthsBefore[k] + allocations[k]
    BY <2>9, LengthsAre
  <2> QED
    BY <2>3, <2>6, <2>7, <2>8, <2>9, <2>10 DEF P
<1>3. \A k \in 0 .. TotalBlocks : k \in P
  <2> HIDE DEF P
  <2> QED
    BY <1>1, <1>2, Upwards
<1> QED
  BY <1>3

FreeNow == {b \in Blocks : ~bitmap[b]}

\* There are TotalBlocks blocks.
LEMMA BlocksFinite == IsFiniteSet(Blocks) /\ Cardinality(Blocks) = TotalBlocks
<1> DEFINE last == TotalBlocks - 1
<1>1. 0 \in Int /\ last \in Int /\ ~ (0 > last) /\ last - 0 + 1 = TotalBlocks /\ Blocks = 0 .. last
  BY AllocatorAssumption DEF Blocks
<1> HIDE DEF last
<1>2. IsFiniteSet(0 .. last) /\ Cardinality(0 .. last) = last - 0 + 1
  BY <1>1, FS_Interval
<1> QED
  BY <1>1, <1>2

\* free_blocks is the number of bits that are not set.
LEMMA FreeCounted ==
  ASSUME Inv, pc = "idle"
  PROVE  IsFiniteSet(FreeNow) /\ FreeBlocks = Cardinality(FreeNow) /\ FreeBlocks \in Nat
<1> USE AllocatorAssumption DEF Inv
<1> DEFINE taken == Before(TotalBlocks)
<1>1. \A b \in Blocks : bitmap[b] <=> b \in taken
  BY DEF BitmapExact, Before, Blocks
<1>2. FreeNow = Blocks \ taken /\ taken \subseteq Blocks
  BY <1>1 DEF FreeNow, Before
<1>3. IsFiniteSet(Blocks) /\ Cardinality(Blocks) = TotalBlocks
  BY BlocksFinite
<1>4. AllocatedBlocks = Cardinality(taken)
  BY LengthsCount DEF AllocatedBlocks
<1> HIDE DEF taken
<1>5. Blocks \cap taken = taken
  BY <1>2
<1>6. IsFiniteSet(Blocks \ taken) /\ Cardinality(Blocks \ taken) = TotalBlocks - Cardinality(taken)
  BY <1>3, <1>5, FS_Difference
<1> QED
  BY <1>2, <1>4, <1>6, FS_CardinalityType DEF FreeBlocks

-----------------------------------------------------------------------------
LoopStates == [i : Nat, run : Nat, longest : Nat]

LEMMA LoopIs ==
  ASSUME TypeOK
  PROVE  /\ Loop \in [0 .. TotalBlocks -> LoopStates]
         /\ Loop[0] = [i |-> 0, run |-> 0, longest |-> 0]
         /\ \A n \in 1 .. TotalBlocks : Loop[n] = Turn(Loop[n - 1])
<1> USE AllocatorAssumption
<1> DEFINE first == [i |-> 0, run |-> 0, longest |-> 0]
           turn == [v \in LoopStates |-> Turn(v)]
           step == [n \in 1 .. TotalBlocks |-> turn]
           Loops(f) == f = [n \in 0 .. TotalBlocks |->
                              IF n = 0 THEN [i |-> 0, run |-> 0, longest |-> 0] ELSE Turn(f[n - 1])]
<1>1. ASSUME NEW v \in LoopStates PROVE Turn(v) \in LoopStates
  <2>1. v.i < TotalBlocks => allocations[v.i] \in Nat
    BY DEF TypeOK, Blocks, LoopStates
  <2>2. v.i \in Nat /\ v.run \in Nat /\ v.longest \in Nat
    BY DEF LoopStates
  <2> QED
    BY <2>1, <2>2 DEF Turn, Skip, Larger, LoopStates
<1>2. step \in [1 .. TotalBlocks -> [LoopStates -> LoopStates]] /\ first \in LoopStates
  BY <1>1 DEF LoopStates
<1>3. PICK f : Solution(f, TotalBlocks, LoopStates, first, step)
  <2>1. Recursion(TotalBlocks, LoopStates, first, step)
    BY <1>2 DEF Recursion
  <2> HIDE DEF step, first
  <2> QED
    BY <2>1, Iterates
<1>4. ASSUME NEW n \in 1 .. TotalBlocks
      PROVE  n - 1 \in 0 .. TotalBlocks /\ f[n] = Turn(f[n - 1])
  <2>1. n - 1 \in 0 .. TotalBlocks
    OBVIOUS
  <2>2. f[n - 1] \in LoopStates /\ f[n] = turn[f[n - 1]]
    BY <1>3, <2>1 DEF Solution
  <2> QED
    BY <2>1, <2>2
<1>5. Loops(f)
  BY <1>3, <1>4 DEF Solution
<1>6. Loop = CHOOSE g : Loops(g)
  BY DEF Loop
<1>7. Loops(Loop)
  <2> HIDE DEF Loops
  <2> QED
    BY <1>5, <1>6
<1>8. Loop[0] = first /\ \A n \in 1 .. TotalBlocks : Loop[n] = Turn(Loop[n - 1])
  <2>1. \A n \in 0 .. TotalBlocks : Loop[n] = IF n = 0 THEN first ELSE Turn(Loop[n - 1])
    BY <1>7
  <2> HIDE DEF first
  <2> QED
    BY <2>1
<1> DEFINE P == {n \in 0 .. TotalBlocks : Loop[n] \in LoopStates}
<1>9. 0 \in P /\ \A n \in 0 .. TotalBlocks - 1 : n \in P => n + 1 \in P
  BY <1>1, <1>2, <1>8
<1>10. \A n \in 0 .. TotalBlocks : n \in P
  <2> HIDE DEF P
  <2> QED
    BY <1>9, Upwards
<1>11. Loop = [n \in 0 .. TotalBlocks |-> Loop[n]]
  BY <1>7
<1> QED
  BY <1>8, <1>10, <1>11

\* The blocks from s to e - 1 are free.
FreeFrom(s, e) == \A b \in Blocks : s <= b /\ b < e => ~bitmap[b]

\* What the loop knows when it is at block i: no extent crosses into i, the run
\* that ends there can start no earlier, and every run that starts before it is
\* no longer than the longest.
LoopShape(v) ==
  /\ v.i <= TotalBlocks /\ v.run <= v.i
  /\ \A s \in Blocks : s < v.i => s + allocations[s] <= v.i
  /\ FreeFrom(v.i - v.run, v.i)
  /\ v.i # v.run => bitmap[v.i - v.run - 1]
  /\ \E s \in 0 .. TotalBlocks : s + v.longest <= TotalBlocks /\ FreeFrom(s, s + v.longest)
  /\ \A s, e \in 0 .. v.i : s <= e /\ FreeFrom(s, e) => e - s <= v.longest \/ v.i - v.run <= s

LEMMA TurnKeeps ==
  ASSUME Inv, pc = "idle", NEW v \in LoopStates, LoopShape(v)
  PROVE  /\ LoopShape(Turn(v))
         /\ v.i = TotalBlocks => Turn(v).i = TotalBlocks
         /\ v.i < TotalBlocks => Turn(v).i >= v.i + 1
<1> USE AllocatorAssumption DEF Inv, Blocks
<1>1. \A b \in Blocks : bitmap[b] <=> \E s \in Blocks : Covers(s, b)
  BY DEF BitmapExact
<1>2. /\ v.i \in Nat /\ v.run \in Nat /\ v.longest \in Nat /\ v.i <= TotalBlocks /\ v.run <= v.i
      /\ \A s \in Blocks : allocations[s] \in Nat
  BY DEF LoopStates, LoopShape, TypeOK
<1>3. CASE v.i >= TotalBlocks
  BY <1>2, <1>3 DEF Turn
<1>4. CASE v.i < TotalBlocks /\ allocations[v.i] = 0
  <2> DEFINE w == Turn(v)
  <2>1. w.i = v.i + 1 /\ w.run = v.run + 1 /\ w.longest = v.longest
    BY <1>2, <1>4 DEF Turn
  <2> HIDE DEF w
  <2>8. /\ v.i \in Blocks /\ FreeFrom(v.i - v.run, v.i)
        /\ \A s \in Blocks : s < v.i => s + allocations[s] <= v.i
    BY <1>2, <1>4 DEF LoopShape
  <2>9. ASSUME NEW s \in Blocks PROVE ~ Covers(s, v.i)
    <3>1. CASE s < v.i
      BY <1>2, <2>8, <3>1 DEF Covers
    <3>2. CASE s = v.i
      BY <1>2, <1>4, <3>2 DEF Covers
    <3>3. CASE s > v.i
      BY <1>2, <3>3 DEF Covers
    <3> QED
      BY <1>2, <3>1, <3>2, <3>3
  <2>2. v.i \in Blocks /\ ~bitmap[v.i]
    BY <1>1, <2>8, <2>9
  <2>3. FreeFrom(w.i - w.run, w.i)
    <3>1. \A b \in Blocks : w.i - w.run <= b /\ b < w.i => b = v.i \/ (v.i - v.run <= b /\ b < v.i)
      BY <1>2, <2>1
    <3> QED
      BY <2>2, <2>8, <3>1 DEF FreeFrom
  <2>4. w.i # w.run => bitmap[w.i - w.run - 1]
    BY <1>2, <2>1 DEF LoopShape
  <2>5. ASSUME NEW s \in Blocks, s < w.i PROVE s + allocations[s] <= w.i
    <3>1. CASE s < v.i
      <4>1. s + allocations[s] <= v.i
        BY <2>8, <3>1
      <4> QED
        BY <1>2, <2>1, <4>1
    <3>2. CASE s = v.i
      BY <1>2, <1>4, <2>1, <3>2
    <3> QED
      BY <1>2, <2>1, <2>5, <3>1, <3>2
  <2>6. ASSUME NEW s \in 0 .. w.i, NEW e \in 0 .. w.i, s <= e, FreeFrom(s, e)
        PROVE  e - s <= w.longest \/ w.i - w.run <= s
    <3>1. CASE e <= v.i
      BY <1>2, <2>1, <2>6, <3>1 DEF LoopShape
    <3>2. CASE e = v.i + 1 /\ s < v.i - v.run
      <4>1. v.i - v.run - 1 \in Blocks /\ bitmap[v.i - v.run - 1]
        BY <1>2, <1>4, <2>6, <3>2 DEF LoopShape
      <4> QED
        BY <1>2, <2>6, <3>2, <4>1 DEF FreeFrom
    <3> QED
      BY <1>2, <2>1, <2>6, <3>1, <3>2
  <2>7. LoopShape(w)
    BY <1>2, <1>4, <2>1, <2>3, <2>4, <2>5, <2>6 DEF LoopShape
  <2> QED
    BY <1>2, <1>4, <2>1, <2>7 DEF w
<1>5. CASE v.i < TotalBlocks /\ allocations[v.i] # 0
  <2> DEFINE w == Turn(v)
  <2>1. /\ w.i = v.i + allocations[v.i] /\ w.run = 0 /\ v.i \in Blocks /\ allocations[v.i] > 0
        /\ w.longest \in Nat /\ w.longest >= v.run /\ w.longest >= v.longest
        /\ w.longest = v.run \/ w.longest = v.longest
    BY <1>2, <1>5 DEF Turn, Skip, Larger
  <2> HIDE DEF w
  <2>2. w.i <= TotalBlocks
    BY <2>1 DEF Separate
  <2>3. \A b \in Blocks : v.i <= b /\ b < w.i => Covers(v.i, b) /\ bitmap[b]
    BY <1>1, <2>1 DEF Covers
  <2>4. ASSUME NEW s \in Blocks, s < w.i PROVE s + allocations[s] <= w.i
    <3>1. CASE s < v.i
      BY <1>2, <2>1, <3>1 DEF LoopShape
    <3>2. CASE s > v.i
      <4>1. Covers(v.i, s)
        BY <1>2, <2>1, <2>3, <2>4, <3>2
      <4>2. ~ Covers(s, s)
        BY <2>1, <3>2, <4>1 DEF Separate
      <4> QED
        BY <1>2, <2>1, <2>4, <4>2 DEF Covers
    <3> QED
      BY <1>2, <2>1, <3>1, <3>2
  <2>5. w.i # w.run => bitmap[w.i - w.run - 1]
    BY <1>2, <2>1, <2>2, <2>3
  <2>6. \E s \in 0 .. TotalBlocks : s + w.longest <= TotalBlocks /\ FreeFrom(s, s + w.longest)
    <3>1. CASE w.longest = v.longest
      BY <3>1 DEF LoopShape
    <3>2. CASE w.longest = v.run
      <4>1. v.i - v.run \in 0 .. TotalBlocks /\ (v.i - v.run) + v.run = v.i
        BY <1>2
      <4>2. FreeFrom(v.i - v.run, (v.i - v.run) + v.run)
        BY <4>1 DEF LoopShape
      <4> QED
        BY <1>2, <3>2, <4>1, <4>2
    <3> QED
      BY <2>1, <3>1, <3>2
  <2>7. ASSUME NEW s \in 0 .. w.i, NEW e \in 0 .. w.i, s <= e, FreeFrom(s, e)
        PROVE  e - s <= w.longest \/ w.i - w.run <= s
    <3>1. CASE e <= v.i
      BY <1>2, <2>1, <2>7, <3>1 DEF LoopShape
    <3>2. CASE e > v.i /\ s < e /\ s < w.i
      <4> DEFINE b == IF s <= v.i THEN v.i ELSE s
      <4>1. b \in Blocks /\ v.i <= b /\ b < w.i /\ s <= b /\ b < e
        BY <1>2, <2>1, <2>2, <2>7, <3>2
      <4> QED
        BY <2>3, <2>7, <4>1 DEF FreeFrom
    <3>3. CASE s = e \/ s = w.i
      BY <2>1, <2>7, <3>3
    <3> QED
      BY <1>2, <2>1, <2>7, <3>1, <3>2, <3>3
  <2>8. FreeFrom(w.i - w.run, w.i)
    BY <1>2, <2>1 DEF FreeFrom
  <2>9. LoopShape(w)
    BY <1>2, <2>1, <2>2, <2>4, <2>5, <2>6, <2>7, <2>8 DEF LoopShape
  <2> QED
    BY <1>2, <1>5, <2>1, <2>9 DEF w
<1> QED
  BY <1>2, <1>3, <1>4, <1>5

\* The loop ends past the pool with the longest run of free blocks.
LEMMA RunFound ==
  ASSUME Inv, pc = "idle"
  PROVE  /\ MaxFreeRun \in 0 .. TotalBlocks
         /\ \E s \in 0 .. TotalBlocks : s + MaxFreeRun <= TotalBlocks /\ FreeFrom(s, s + MaxFreeRun)
         /\ \A s, e \in 0 .. TotalBlocks : s <= e /\ FreeFrom(s, e) => e - s <= MaxFreeRun
<1> USE AllocatorAssumption
<1>0. TypeOK /\ Separate
  BY DEF Inv
<1> DEFINE P == {n \in 0 .. TotalBlocks :
                   LoopShape(Loop[n]) /\ (Loop[n].i = TotalBlocks \/ Loop[n].i >= n)}
<1>1. 0 \in P
  <2>1. Loop[0] = [i |-> 0, run |-> 0, longest |-> 0]
    BY <1>0, LoopIs
  <2>2. FreeFrom(0, 0)
    BY DEF FreeFrom, Blocks
  <2> QED
    BY <2>1, <2>2 DEF LoopShape, Blocks
<1>2. ASSUME NEW n \in 0 .. TotalBlocks - 1, n \in P PROVE n + 1 \in P
  <2> DEFINE v == Loop[n]
  <2>1. v \in LoopStates /\ Loop[n + 1] = Turn(v) /\ v.i \in Nat
    <3>1. n + 1 \in 1 .. TotalBlocks /\ (n + 1) - 1 = n /\ n \in 0 .. TotalBlocks
      OBVIOUS
    <3> QED
      BY <1>0, <3>1, LoopIs DEF LoopStates
  <2>2. LoopShape(v) /\ (v.i = TotalBlocks \/ v.i >= n) /\ v.i <= TotalBlocks
    BY <1>2 DEF LoopShape
  <2>3. /\ LoopShape(Turn(v)) /\ (v.i = TotalBlocks => Turn(v).i = TotalBlocks)
        /\ (v.i < TotalBlocks => Turn(v).i >= v.i + 1)
    <3> HIDE DEF v, P
    <3> QED
      BY <2>1, <2>2, TurnKeeps
  <2>4. Turn(v).i \in Nat
    <3>1. n + 1 \in 0 .. TotalBlocks
      OBVIOUS
    <3> QED
      BY <1>0, <2>1, <3>1, LoopIs DEF LoopStates
  <2> HIDE DEF v
  <2>5. Turn(v).i = TotalBlocks \/ Turn(v).i >= n + 1
    BY <2>1, <2>2, <2>3, <2>4
  <2> QED
    BY <2>1, <2>3, <2>5
<1>3. TotalBlocks \in P
  <2> HIDE DEF P
  <2> QED
    BY <1>1, <1>2, Upwards
<1> DEFINE v == Loop[TotalBlocks]
<1>4. v \in LoopStates /\ MaxFreeRun = Larger(v.run, v.longest)
  BY <1>0, LoopIs DEF MaxFreeRun
<1>5. LoopShape(v) /\ v.i = TotalBlocks
  BY <1>3, <1>4 DEF LoopShape, LoopStates
<1> HIDE DEF v, P
<1>6. /\ v.run \in Nat /\ v.longest \in Nat /\ v.run <= TotalBlocks
      /\ FreeFrom(TotalBlocks - v.run, TotalBlocks)
      /\ \E s \in 0 .. TotalBlocks : s + v.longest <= TotalBlocks /\ FreeFrom(s, s + v.longest)
      /\ \A s, e \in 0 .. TotalBlocks :
           s <= e /\ FreeFrom(s, e) => e - s <= v.longest \/ TotalBlocks - v.run <= s
  BY <1>4, <1>5 DEF LoopShape, LoopStates
<1>7. CASE v.run > v.longest
  <2>1. MaxFreeRun = v.run
    BY <1>4, <1>7 DEF Larger
  <2>2. TotalBlocks - v.run \in 0 .. TotalBlocks /\ (TotalBlocks - v.run) + v.run = TotalBlocks
    BY <1>6
  <2> QED
    BY <1>6, <1>7, <2>1, <2>2
<1>8. CASE ~ (v.run > v.longest)
  <2>1. MaxFreeRun = v.longest
    BY <1>4, <1>8 DEF Larger
  <2> QED
    BY <1>6, <1>8, <2>1
<1> QED
  BY <1>7, <1>8

\* What is left of a share that is at least one, in whole percents.
LEMMA PercentBelow ==
  ASSUME NEW free \in Nat \ {0}, NEW run \in 1 .. free
  PROVE  ((free - run) * 100) \div free \in 0 .. 99
<1> DEFINE x == (free - run) * 100
           q == x \div free
<1>1. x \in Nat /\ x < free * 100
  OBVIOUS
<1>2. q \in Int /\ free * q <= x /\ x < free * q + free
  <2> HIDE DEF x
  <2> QED
    BY <1>1, SMTT(30)
<1> HIDE DEF x, q
<1>3. q < 100
  <2>1. SUFFICES ASSUME q >= 100 PROVE FALSE
    BY <1>2
  <2>2. free * q >= free * 100
    BY <1>2, <2>1, SMTT(30)
  <2>3. free * q \in Int /\ free * 100 \in Int
    BY <1>2
  <2> QED
    BY <1>1, <1>2, <2>2, <2>3
<1>4. q >= 0
  <2>1. SUFFICES ASSUME q <= -1 PROVE FALSE
    BY <1>2
  <2>2. free * q <= -free
    BY <1>2, <2>1, SMTT(30)
  <2>3. free * q \in Int
    BY <1>2
  <2> QED
    BY <1>1, <1>2, <2>2, <2>3
<1> QED
  BY <1>2, <1>3, <1>4 DEF q, x

\* Between callbacks the statistics are those of the bitmap: free_blocks the
\* number of its free blocks, the longest run the longest that it has, and the
\* fragmentation a percentage.
THEOREM StatsCorrect == Spec => []StatsExact
<1>1. Inv => StatsExact
  <2> SUFFICES ASSUME Inv, pc = "idle"
               PROVE  LET free == {b \in Blocks : ~bitmap[b]}
                          runs == {n \in 0 .. TotalBlocks : \E s \in 0 .. TotalBlocks - n : s .. s + n - 1 \subseteq free}
                      IN  /\ FreeBlocks = Cardinality(free)
                          /\ MaxFreeRun \in runs /\ \A n \in runs : n <= MaxFreeRun
                          /\ FragmentationPercent \in 0 .. 99
    BY DEF StatsExact
  <2> USE AllocatorAssumption
  <2>1. IsFiniteSet(FreeNow) /\ FreeBlocks = Cardinality(FreeNow) /\ FreeBlocks \in Nat
    BY FreeCounted
  <2> DEFINE Run(n, s) == s .. s + n - 1 \subseteq FreeNow
  <2>2. ASSUME NEW n \in 0 .. TotalBlocks, NEW s \in 0 .. TotalBlocks, s + n <= TotalBlocks
        PROVE  Run(n, s) <=> FreeFrom(s, s + n)
    BY <2>2 DEF FreeNow, FreeFrom, Blocks
  <2>3. /\ MaxFreeRun \in 0 .. TotalBlocks
        /\ \E s \in 0 .. TotalBlocks : s + MaxFreeRun <= TotalBlocks /\ FreeFrom(s, s + MaxFreeRun)
        /\ \A s, e \in 0 .. TotalBlocks : s <= e /\ FreeFrom(s, e) => e - s <= MaxFreeRun
    BY RunFound
  <2>4. PICK start0 \in 0 .. TotalBlocks - MaxFreeRun : Run(MaxFreeRun, start0)
    <3> HIDE DEF Run
    <3>1. PICK s \in 0 .. TotalBlocks : s + MaxFreeRun <= TotalBlocks /\ FreeFrom(s, s + MaxFreeRun)
      BY <2>3
    <3>2. s \in 0 .. TotalBlocks - MaxFreeRun
      BY <2>3, <3>1
    <3> QED
      BY <2>2, <2>3, <3>1, <3>2
  <2>5. ASSUME NEW n \in 0 .. TotalBlocks, NEW s \in 0 .. TotalBlocks - n, Run(n, s)
        PROVE  n <= MaxFreeRun
    <3> HIDE DEF Run
    <3>1. s \in 0 .. TotalBlocks /\ s + n \in 0 .. TotalBlocks /\ s <= s + n /\ (s + n) - s = n
      OBVIOUS
    <3>2. FreeFrom(s, s + n)
      BY <2>2, <2>5, <3>1
    <3> QED
      BY <2>3, <3>1, <3>2
  <2>6. FragmentationPercent \in 0 .. 99
    <3>1. CASE FreeBlocks = 0
      BY <3>1 DEF FragmentationPercent
    <3>2. CASE FreeBlocks # 0
      <4>1. PICK b \in Blocks : ~bitmap[b]
        BY <2>1, <3>2, FS_EmptySet DEF FreeNow
      <4>2. b \in 0 .. TotalBlocks - 1 /\ 1 \in 0 .. TotalBlocks /\ Run(1, b)
        BY <4>1 DEF Blocks, FreeNow
      <4>3. 1 <= MaxFreeRun
        <5> HIDE DEF Run
        <5> QED
          BY <2>5, <4>2
      <4>4. start0 .. start0 + MaxFreeRun - 1 \in SUBSET FreeNow
        BY <2>4
      <4>5. Cardinality(start0 .. start0 + MaxFreeRun - 1) = MaxFreeRun
        <5>1. start0 \in Int /\ start0 + MaxFreeRun - 1 \in Int
          BY <2>3
        <5>2. Cardinality(start0 .. start0 + MaxFreeRun - 1)
                = IF start0 > start0 + MaxFreeRun - 1 THEN 0 ELSE (start0 + MaxFreeRun - 1) - start0 + 1
          BY <5>1, FS_Interval
        <5> QED
          BY <2>3, <4>3, <5>2
      <4>6. MaxFreeRun <= FreeBlocks
        <5> DEFINE block0 == start0 .. start0 + MaxFreeRun - 1
        <5>1. block0 \in SUBSET FreeNow /\ Cardinality(block0) = MaxFreeRun
          BY <4>4, <4>5
        <5> HIDE DEF block0
        <5>2. Cardinality(block0) <= Cardinality(FreeNow)
          BY <2>1, <5>1, FS_Subset
        <5> QED
          BY <2>1, <5>1, <5>2
      <4>7. MaxFreeRun \in 1 .. FreeBlocks /\ FreeBlocks \in Nat \ {0}
        BY <2>1, <2>3, <3>2, <4>3, <4>6
      <4> QED
        BY <3>2, <4>7, PercentBelow DEF FragmentationPercent
    <3> QED
      BY <3>1, <3>2
  <2> QED
    BY <2>1, <2>3, <2>4, <2>5, <2>6 DEF FreeNow
<1> QED
  BY <1>1, Invariance, PTL

=============================================================================
