----------------------------- MODULE Allocator -----------------------------
(***************************************************************************)
(* The block allocator of mod_07 (kernel_alloc): a pool of total_blocks    *)
(* blocks, a bitmap of the taken ones and the length of the extent that    *)
(* starts at each block.  Users write the parameters alloc and free; the   *)
(* kernel's param_lock lets one callback run at a time, so that the steps  *)
(* of its loops meet those of no other, and the module may be removed and  *)
(* loaded again between two callbacks.                                     *)
(*                                                                         *)
(* A pointer is NULL or outside the pool (None), or a block and a byte in  *)
(* it.  A size is a number of unsigned type, modulo Word.                  *)
(***************************************************************************)
EXTENDS Integers, FiniteSets

CONSTANTS
  TotalBlocks,   \* TOTAL_MEMORY / BLOCK_SIZE
  BlockSize,     \* BLOCK_SIZE
  Word,          \* one more than the largest size_t
  None

ASSUME AllocatorAssumption ==
  /\ TotalBlocks \in Nat \ {0} /\ BlockSize \in Nat \ {0} /\ Word \in Nat \ {0}
  /\ None \notin (0 .. TotalBlocks - 1) \X (0 .. BlockSize - 1)

Blocks == 0 .. TotalBlocks - 1
Sizes == 0 .. Word - 1
Pointers == {None} \union (Blocks \X (0 .. BlockSize - 1))
Areas == {"pool", "bitmap", "meta"}   \* memory_pool, bitmap and allocations

VARIABLES
  memory,        \* memory[a]: null, live, or dangling (freed, the pointer kept)
  bitmap,        \* the bits of allocator.bitmap: TRUE when the block is taken
  allocations,   \* allocator.allocations
  rc,            \* what allocator_init returned, or will
  pc,            \* unloaded, a step of init or exit, idle, the loop of a callback, or fault
  bytes, i, counter, start, need,   \* the argument and the locals of allocator_alloc
  block          \* local of allocator_free

vars == <<memory, bitmap, allocations, rc, pc, bytes, i, counter, start, need, block>>
locals == <<bytes, i, counter, start, need, block>>

LocalsZero == bytes' = 0 /\ i' = 0 /\ counter' = 0 /\ start' = 0 /\ need' = 0 /\ block' = 0

Init ==
  /\ memory = [a \in Areas |-> "null"]
  /\ bitmap = [b \in Blocks |-> FALSE]
  /\ allocations = [b \in Blocks |-> 0]
  /\ rc = "ERR_OK" /\ pc = "unloaded"
  /\ bytes = 0 /\ i = 0 /\ counter = 0 /\ start = 0 /\ need = 0 /\ block = 0

Usable == \A a \in Areas : memory[a] = "live"

-----------------------------------------------------------------------------
(***************************************************************************)
(* my_module_init with allocator_init, allocator_destroy.                  *)
(***************************************************************************)
Load ==
  /\ pc = "unloaded" /\ pc' = "init_pool"
  /\ UNCHANGED <<memory, bitmap, allocations, rc, locals>>

\* An allocation succeeds; vzalloc clears what it returns.
Vzalloc(area, from, to) ==
  /\ pc = from /\ pc' = to
  /\ memory' = [memory EXCEPT ![area] = "live"]
  /\ UNCHANGED <<rc, locals>>

\* It fails, and the path that frees what there is begins at to.  The error codes
\* are positive, so the module stays loaded whatever allocator_init returns.
Fails(code, from, to) ==
  /\ pc = from /\ pc' = to
  /\ rc' = code
  /\ UNCHANGED <<memory, bitmap, allocations, locals>>

\* vfree takes NULL, but not what was freed before; the pointer stays as it was.
Vfree(area, from, to) ==
  /\ pc = from
  /\ pc' = IF memory[area] = "dangling" THEN "fault" ELSE to
  /\ memory' = [memory EXCEPT ![area] = IF @ = "live" THEN "dangling" ELSE @]
  /\ UNCHANGED <<rc, bitmap, allocations, locals>>

MemoryPool ==
  \/ /\ Vzalloc("pool", "init_pool", "init_bitmap")
     /\ UNCHANGED <<bitmap, allocations>>
  \/ Fails("ERR_ALLOCATE_ALLOCATOR", "init_pool", "idle")

CreateBitmap ==
  \/ /\ Vzalloc("bitmap", "init_bitmap", "init_meta")
     /\ bitmap' = [b \in Blocks |-> FALSE] /\ UNCHANGED allocations
  \/ Fails("ERR_ALLOCATE_BITMAP", "init_bitmap", "free_pool")

Allocations ==
  \/ /\ Vzalloc("meta", "init_meta", "idle")
     /\ allocations' = [b \in Blocks |-> 0] /\ UNCHANGED bitmap
  \/ Fails("ERR_ALLOCATE_META", "init_meta", "free_pool")

FreePoolOnly == Vfree("pool", "free_pool", "idle")   \* mutant of FreePool: bitmap_destroy forgotten

\* The error paths of allocator_init.
FreePool == Vfree("pool", "free_pool", IF rc = "ERR_ALLOCATE_META" THEN "free_bitmap" ELSE "idle")
FreeBitmap == Vfree("bitmap", "free_bitmap", "idle")

\* my_module_exit: allocator_destroy.
Unload ==
  /\ pc = "idle" /\ pc' = "destroy_bitmap"
  /\ UNCHANGED <<memory, bitmap, allocations, rc, locals>>

DestroyBitmap == Vfree("bitmap", "destroy_bitmap", "destroy_meta")
DestroyMeta == Vfree("meta", "destroy_meta", "destroy_pool")
DestroyPool == Vfree("pool", "destroy_pool", "gone")

\* The kernel frees the module and its data.
Gone ==
  /\ pc = "gone" /\ pc' = "unloaded"
  /\ memory' = [a \in Areas |-> "null"] /\ rc' = "ERR_OK"
  /\ bitmap' = [b \in Blocks |-> FALSE]
  /\ allocations' = [b \in Blocks |-> 0]
  /\ UNCHANGED locals

\* A callback that reads an area that was never allocated, or was freed.
Fault ==
  /\ pc = "idle" /\ ~Usable
  /\ pc' = "fault"
  /\ UNCHANGED <<memory, bitmap, allocations, rc, locals>>

-----------------------------------------------------------------------------
BlocksRoundedDown(size) == size \div BlockSize   \* mutant of NeedBlocks

\* DIV_ROUND_UP(bytes, allocator.block_size), in a word.
NeedBlocks(size) == ((size + BlockSize - 1) % Word) \div BlockSize

\* A size of 0 is refused at once.
AllocSet(size) ==
  /\ pc = "idle" /\ Usable
  /\ IF size = 0 THEN UNCHANGED <<pc, bytes, need>>
     ELSE pc' = "scan" /\ bytes' = size /\ need' = NeedBlocks(size)
  /\ UNCHANGED <<memory, bitmap, allocations, rc, i, counter, start, block>>

StartsAtBusy(b) == b      \* mutants of NextStart
SkipsABlock(b) == b + 2

NextStart(b) == b + 1

\* One turn of the search; the loop ends when enough free blocks are in a row.
ScanBlock ==
  /\ pc = "scan" /\ i < TotalBlocks
  /\ IF bitmap[i]
     THEN counter' = 0 /\ start' = NextStart(i) /\ i' = i + 1 /\ UNCHANGED pc
     ELSE /\ counter' = counter + 1 /\ UNCHANGED start
          /\ IF counter + 1 = need THEN pc' = "mark" /\ i' = 0 ELSE i' = i + 1 /\ UNCHANGED pc
  /\ UNCHANGED <<memory, bitmap, allocations, rc, bytes, need, block>>

NotFound ==
  /\ pc = "scan" /\ i = TotalBlocks
  /\ pc' = "idle"
  /\ LocalsZero
  /\ UNCHANGED <<memory, bitmap, allocations, rc>>

MarkBlock ==
  /\ pc = "mark" /\ i < need
  /\ bitmap' = [bitmap EXCEPT ![start + i] = TRUE]
  /\ i' = i + 1
  /\ UNCHANGED <<memory, allocations, rc, pc, bytes, counter, start, need, block>>

Granted ==
  /\ pc = "mark" /\ i = need
  /\ allocations' = [allocations EXCEPT ![start] = need]
  /\ pc' = "idle"
  /\ LocalsZero
  /\ UNCHANGED <<memory, bitmap, rc>>

-----------------------------------------------------------------------------
\* The pointer is to the first byte of a block in the pool.
Freeable(ptr) == ptr # None /\ ptr[2] = 0

\* A pointer that starts no extent is ignored.
FreeSet(ptr) ==
  /\ pc = "idle" /\ Usable
  /\ IF Freeable(ptr) /\ allocations[ptr[1]] # 0
     THEN pc' = "clear" /\ block' = ptr[1]
     ELSE UNCHANGED <<pc, block>>
  /\ UNCHANGED <<memory, bitmap, allocations, rc, bytes, i, counter, start, need>>

ClearBlock ==
  /\ pc = "clear" /\ i < allocations[block]
  /\ bitmap' = [bitmap EXCEPT ![block + i] = FALSE]
  /\ i' = i + 1
  /\ UNCHANGED <<memory, allocations, rc, pc, bytes, counter, start, need, block>>

FreedKeepsLength ==   \* mutant of Freed: allocations[block] is not cleared
  /\ pc = "clear" /\ i = allocations[block]
  /\ pc' = "idle"
  /\ LocalsZero
  /\ UNCHANGED <<memory, bitmap, allocations, rc>>

Freed ==
  /\ pc = "clear" /\ i = allocations[block]
  /\ allocations' = [allocations EXCEPT ![block] = 0]
  /\ pc' = "idle"
  /\ LocalsZero
  /\ UNCHANGED <<memory, bitmap, rc>>

-----------------------------------------------------------------------------
InitStep ==
  Load \/ MemoryPool \/ CreateBitmap \/ Allocations \/ FreePool \/ FreeBitmap
ExitStep ==
  Unload \/ DestroyBitmap \/ DestroyMeta \/ DestroyPool \/ Gone

Next ==
  \/ InitStep \/ ExitStep \/ Fault
  \/ \E size \in Sizes : AllocSet(size)
  \/ ScanBlock \/ NotFound \/ MarkBlock \/ Granted
  \/ \E ptr \in Pointers : FreeSet(ptr)
  \/ ClearBlock \/ Freed

Spec == Init /\ [][Next]_vars

-----------------------------------------------------------------------------
SkipsOneMore(length) == length   \* mutant of Skip

\* "i += allocations[i] - 1" at an extent, and the loop's own ++i.
Skip(length) == length - 1

Larger(a, b) == IF a > b THEN a ELSE b

\* The second loop of allocator_get_stats looks for the longest run of free
\* blocks.  One turn of it, on the loop's variables; none once i is past the pool.
Turn(v) ==
  IF v.i >= TotalBlocks THEN v
  ELSE IF allocations[v.i] # 0
  THEN [i |-> v.i + Skip(allocations[v.i]) + 1,
        run |-> 0, longest |-> Larger(v.run, v.longest)]
  ELSE [i |-> v.i + 1, run |-> v.run + 1, longest |-> v.longest]

\* Its variables after n turns; the loop makes TotalBlocks turns at most.
Loop ==
  LET after[n \in 0 .. TotalBlocks] ==
        IF n = 0 THEN [i |-> 0, run |-> 0, longest |-> 0] ELSE Turn(after[n - 1])
  IN  after

MaxFreeRun == Larger(Loop[TotalBlocks].run, Loop[TotalBlocks].longest)

\* The first loop: the lengths of the extents before block k, added up.
LengthsBefore ==
  LET sum[k \in 0 .. TotalBlocks] == IF k = 0 THEN 0 ELSE sum[k - 1] + allocations[k - 1]
  IN  sum

AllocatedBlocks == LengthsBefore[TotalBlocks]

FreeBlocks == TotalBlocks - AllocatedBlocks

FragmentationPercent ==
  IF FreeBlocks = 0 THEN 0 ELSE ((FreeBlocks - MaxFreeRun) * 100) \div FreeBlocks

-----------------------------------------------------------------------------
Covers(s, b) == s <= b /\ b < s + allocations[s]

Points ==
  {"unloaded", "init_pool", "init_bitmap", "init_meta", "free_pool", "free_bitmap", "idle",
   "scan", "mark", "clear", "destroy_bitmap", "destroy_meta", "destroy_pool", "gone", "fault"}

TypeOK ==
  /\ memory \in [Areas -> {"null", "live", "dangling"}]
  /\ bitmap \in [Blocks -> BOOLEAN]
  /\ allocations \in [Blocks -> 0 .. TotalBlocks]
  /\ rc \in {"ERR_OK", "ERR_ALLOCATE_ALLOCATOR", "ERR_ALLOCATE_BITMAP", "ERR_ALLOCATE_META"}
  /\ pc \in Points
  /\ i \in 0 .. TotalBlocks /\ counter \in 0 .. TotalBlocks /\ start \in 0 .. TotalBlocks
  /\ bytes \in Sizes /\ need \in Nat /\ block \in Blocks

\* Extents lie in the pool and never overlap, whatever is allocated, freed and
\* freed again (allocator.c:63-122).
ExtentsDisjoint ==
  \A s \in Blocks : \A b \in s .. s + allocations[s] - 1 :
    b \in Blocks /\ \A r \in Blocks : Covers(r, b) => r = s

\* The bitmap says exactly which blocks the extents cover, but for the blocks
\* the current callback has marked or cleared (allocator.c:79-82, 113-116).
BitmapExact ==
  \A b \in Blocks :
    bitmap[b] <=> \/ \E s \in Blocks : Covers(s, b) /\ ~(pc = "clear" /\ s = block /\ b < block + i)
                  \/ pc = "mark" /\ start <= b /\ b < start + i

\* After an init that succeeds the callbacks have all three areas and removal frees
\* each of them once; one that fails at any point has freed what it got; and only
\* then can a callback or the removal meet an area that is not there any more
\* (allocator.c:25-50, 58-60, main.c:12-22).
AreasAccounted ==
  /\ pc = "idle" /\ rc = "ERR_OK" => Usable
  /\ pc = "gone" \/ (pc = "idle" /\ rc # "ERR_OK") => \A a \in Areas : memory[a] # "live"
  /\ pc = "fault" => rc # "ERR_OK"

\* The statistics that allocator_get_stats derives from allocations agree with
\* the bitmap, and the fragmentation is a percentage (allocator.c:131-168).
StatsExact ==
  pc = "idle" =>
    LET free == {b \in Blocks : ~bitmap[b]}
        runs == {n \in 0 .. TotalBlocks : \E s \in 0 .. TotalBlocks - n : s .. s + n - 1 \subseteq free}
    IN  /\ FreeBlocks = Cardinality(free)
        /\ MaxFreeRun \in runs /\ \A n \in runs : n <= MaxFreeRun
        /\ FragmentationPercent \in 0 .. 99

Promise == INSTANCE FirstFit WITH
  extent <- allocations,
  want <- IF pc \in {"scan", "mark"} THEN need ELSE 0,
  phase <- IF pc \in {"scan", "mark"} THEN "asked" ELSE "free"

\* The bitmap search implements first fit (allocator.c:63-122).
IsFirstFit == Promise!Spec

\* A request is granted in blocks that hold it, also where the rounding
\* overflows a word (allocator.c:68, 77-83).
GrantHolds == pc = "mark" => need * BlockSize >= bytes

=============================================================================
