---------------------------- MODULE KernelStack ----------------------------
(***************************************************************************)
(* The stack of mod_05 (kernel_stack): a list of kmalloc'ed nodes and a    *)
(* count of them, used through the sysfs attributes push, pop, peek, size, *)
(* is_empty and clear, from module load to removal.                        *)
(*                                                                         *)
(* ks.lock is declared and never taken: nothing orders the callbacks of    *)
(* two tasks, and a step here is one access to the shared list or count.   *)
(* Writers may make every call; Readers only the two that follow no        *)
(* pointer, size_show and is_empty_show.                                   *)
(***************************************************************************)
EXTENDS Integers, Sequences, FiniteSets, Functions

CONSTANTS
  Writers, Readers,   \* the tasks that open the attributes
  Rmmod,              \* the task that removes the module
  Nodes,              \* stack_entries that kmalloc can hand out
  Values,             \* what push_store parses
  Elements,           \* st->elements
  SizeWord,           \* one more than the largest size_t; no node takes 0 bytes
  None                \* a poisoned pointer, or no value

ASSUME StackAssumption ==
  /\ IsFiniteSet(Nodes) /\ Elements \notin Nodes /\ None \notin Nodes \union {Elements} \union Values
  /\ Rmmod \notin Writers \union Readers
  /\ SizeWord \in Nat /\ SizeWord > Cardinality(Nodes)

Users == Writers \union Readers
Tasks == Users \union {Rmmod}
Cells == Nodes \union {Elements}

VARIABLES
  phase,        \* of the module: absent, registering, live, leaving, clearing, failed
  next, prev,   \* the list_heads, of the nodes and of st->elements
  data,         \* data of each node
  alive,        \* the nodes that are allocated
  size,         \* st->size
  pc,           \* pc[t]: program point of the callback of t
  loc           \* loc[t]: its operation, return code and locals

listVars == <<next, prev, data, alive>>
vars == <<phase, listVars, size, pc, loc>>

CallOf(op, rc, val) ==
  [op |-> op, rc |-> rc, val |-> val, node |-> None, entry |-> None, next |-> None, prev |-> None,
   size |-> 0]
NoCall == CallOf("none", "ok", None)

Init ==
  /\ phase = "absent"
  /\ next = [c \in Cells |-> None] /\ prev = [c \in Cells |-> None]
  /\ data = [n \in Nodes |-> None]
  /\ alive = {}
  /\ size = 0
  /\ pc = [t \in Tasks |-> "idle"]
  /\ loc = [t \in Tasks |-> NoCall]

Set(t, field, value) == loc' = [loc EXCEPT ![t][field] = value]
Goto(t, from, to) == pc[t] = from /\ pc' = [pc EXCEPT ![t] = to]
Answer(t, from, rc) == Goto(t, from, "done") /\ Set(t, "rc", rc)

NeverEmpty == FALSE   \* mutant of Empty

Empty == next[Elements] = Elements   \* stack_is_empty

-----------------------------------------------------------------------------
(***************************************************************************)
(* The module: my_module_init, init_sysfs, exit_sysfs, my_module_exit.     *)
(***************************************************************************)

\* stack_init.
StackInit ==
  /\ next' = [next EXCEPT ![Elements] = Elements] /\ prev' = [prev EXCEPT ![Elements] = Elements]
  /\ size' = 0

\* From here on the attributes appear, before sysfs_create_group returns.
Load ==
  /\ phase = "absent" /\ phase' = "registering"
  /\ StackInit
  /\ UNCHANGED <<data, alive, pc, loc>>

\* kobject_create_and_add fails: the module is not loaded.
LoadFails == phase = "absent" /\ StackInit /\ UNCHANGED <<phase, data, alive, pc, loc>>

Registered == phase = "registering" /\ phase' = "live" /\ UNCHANGED <<listVars, size, pc, loc>>

\* sysfs_create_group takes the attributes away again, which waits for the
\* callbacks in them, and init fails; the nodes already pushed stay behind.
RegisterFails ==
  /\ phase = "registering" /\ \A u \in Users : pc[u] = "idle"
  /\ phase' = "failed"
  /\ UNCHANGED <<listVars, size, pc, loc>>

\* sysfs_remove_group: no new callback from here on.
Remove == phase = "live" /\ phase' = "leaving" /\ UNCHANGED <<listVars, size, pc, loc>>

\* The last callback has left.
Drained == phase = "leaving" /\ \A u \in Users : pc[u] = "idle"

ExitClearsFirst ==   \* mutant of ExitClear: the group is removed after stack_clear
  /\ phase = "leaving" /\ phase' = "clearing"
  /\ Goto(Rmmod, "idle", "loop")
  /\ Set(Rmmod, "op", "clear")
  /\ UNCHANGED <<listVars, size>>

\* stack_clear in my_module_exit.
ExitClear ==
  /\ Drained
  /\ phase' = "clearing"
  /\ Goto(Rmmod, "idle", "loop")
  /\ Set(Rmmod, "op", "clear")
  /\ UNCHANGED <<listVars, size>>

Unloaded ==
  /\ phase = "clearing" /\ phase' = "absent"
  /\ Goto(Rmmod, "done", "idle")
  /\ loc' = [loc EXCEPT ![Rmmod] = NoCall]
  /\ UNCHANGED <<listVars, size>>

-----------------------------------------------------------------------------
(***************************************************************************)
(* The attributes (sysfs.c).                                               *)
(***************************************************************************)
Call(t, op, val, at) ==
  /\ phase \in {"registering", "live"}
  /\ Goto(t, "idle", at)
  /\ loc' = [loc EXCEPT ![t] = CallOf(op, "ok", val)]
  /\ UNCHANGED <<phase, listVars, size>>

PushStore(t, num) == Call(t, "push", num, "kmalloc")
PopShow(t) == Call(t, "pop", None, "test")
PeekShow(t) == Call(t, "peek", None, "test")
SizeShow(t) == Call(t, "size", None, "size_read")
IsEmptyShow(t) == Call(t, "is_empty", None, "test")
ClearStore(t) == Call(t, "clear", None, "loop")

\* clear_store of a number that is not 1.
ClearRefused(t) ==
  /\ phase \in {"registering", "live"}
  /\ Goto(t, "idle", "done")
  /\ loc' = [loc EXCEPT ![t] = CallOf("clear", "invalid", None)]
  /\ UNCHANGED <<phase, listVars, size>>

Return(t) ==
  /\ t \in Users
  /\ Goto(t, "done", "idle")
  /\ loc' = [loc EXCEPT ![t] = NoCall]
  /\ UNCHANGED <<phase, listVars, size>>

-----------------------------------------------------------------------------
(***************************************************************************)
(* The operations (stack_ops.c).  A task that follows a poisoned pointer,  *)
(* or that takes the head for a node, stops there: the kernel kills it.    *)
(***************************************************************************)
Kmalloc(t) ==
  /\ \E n \in Nodes \ alive :
       /\ alive' = alive \union {n}
       /\ data' = [data EXCEPT ![n] = loc[t].val]
       /\ Set(t, "node", n)
  /\ Goto(t, "kmalloc", "add")
  /\ UNCHANGED <<phase, next, prev, size>>

KmallocFails(t) ==
  /\ Answer(t, "kmalloc", "nomem")
  /\ UNCHANGED <<phase, listVars, size>>

\* list_add: reads the first node, makes it point back to the new one, the new
\* one to both of its neighbours, and the head to the new one.
ReadFirst(t) ==
  /\ Goto(t, "add", "link_back")
  /\ Set(t, "next", next[Elements])
  /\ UNCHANGED <<phase, listVars, size>>

LinkBack(t) ==
  /\ Goto(t, "link_back", "link_next")
  /\ loc[t].next \in Cells
  /\ prev' = [prev EXCEPT ![loc[t].next] = loc[t].node]
  /\ UNCHANGED <<phase, next, data, alive, size, loc>>

LinkNext(t) ==
  /\ Goto(t, "link_next", "link_prev")
  /\ next' = [next EXCEPT ![loc[t].node] = loc[t].next]
  /\ UNCHANGED <<phase, prev, data, alive, size, loc>>

LinkPrev(t) ==
  /\ Goto(t, "link_prev", "link_front")
  /\ prev' = [prev EXCEPT ![loc[t].node] = Elements]
  /\ UNCHANGED <<phase, next, data, alive, size, loc>>

LinkFront(t) ==
  /\ Goto(t, "link_front", "size_read")
  /\ next' = [next EXCEPT ![Elements] = loc[t].node]
  /\ UNCHANGED <<phase, prev, data, alive, size, loc>>

\* The loop of stack_clear.
LoopTest(t) ==
  /\ IF Empty THEN Answer(t, "loop", "ok") ELSE Goto(t, "loop", "test") /\ UNCHANGED loc
  /\ UNCHANGED <<phase, listVars, size>>

EmptyTest(t) ==
  /\ IF Empty THEN Answer(t, "test", IF loc[t].op = "is_empty" THEN "ok" ELSE "empty")
     ELSE Goto(t, "test", IF loc[t].op = "is_empty" THEN "done" ELSE "top") /\ UNCHANGED loc
  /\ UNCHANGED <<phase, listVars, size>>

ReadTop(t) ==
  /\ Goto(t, "top", "read")
  /\ Set(t, "node", next[Elements])
  /\ UNCHANGED <<phase, listVars, size>>

ReadData(t) ==
  /\ Goto(t, "read", IF loc[t].op = "peek" THEN "done" ELSE "del")
  /\ loc[t].node \in Nodes
  /\ Set(t, "val", data[loc[t].node])
  /\ UNCHANGED <<phase, listVars, size>>

\* list_del(st->elements.next): reads the head again, and of the entry that it
\* finds there both neighbours; joins these, and poisons the entry.
ReadEntry(t) ==
  /\ Goto(t, "del", "links")
  /\ Set(t, "entry", next[Elements])
  /\ UNCHANGED <<phase, listVars, size>>

ReadLinks(t) ==
  /\ Goto(t, "links", "unlink_back")
  /\ loc[t].entry \in Cells
  /\ loc' = [loc EXCEPT ![t] = [loc[t] EXCEPT !.next = next[loc[t].entry],
                                            !.prev = prev[loc[t].entry]]]
  /\ UNCHANGED <<phase, listVars, size>>

UnlinkBack(t) ==
  /\ Goto(t, "unlink_back", "unlink_front")
  /\ loc[t].next \in Cells
  /\ prev' = [prev EXCEPT ![loc[t].next] = loc[t].prev]
  /\ UNCHANGED <<phase, next, data, alive, size, loc>>

UnlinkNothing(t) ==   \* mutant of UnlinkFront: the head keeps the node
  /\ Goto(t, "unlink_front", "poison")
  /\ UNCHANGED <<phase, listVars, size, loc>>

UnlinkFront(t) ==
  /\ Goto(t, "unlink_front", "poison")
  /\ loc[t].prev \in Cells
  /\ next' = [next EXCEPT ![loc[t].prev] = loc[t].next]
  /\ UNCHANGED <<phase, prev, data, alive, size, loc>>

Poison(t) ==
  /\ Goto(t, "poison", "size_read")
  /\ next' = [next EXCEPT ![loc[t].entry] = None] /\ prev' = [prev EXCEPT ![loc[t].entry] = None]
  /\ UNCHANGED <<phase, data, alive, size, loc>>

\* st->size++ and st->size-- are a read and a write; stack_size only reads.
SizeRead(t) ==
  /\ Goto(t, "size_read", IF loc[t].op = "size" THEN "done" ELSE "size_write")
  /\ Set(t, "size", size)
  /\ UNCHANGED <<phase, listVars, size>>

AlwaysOneMore(t) == 1   \* mutant of Delta

Delta(t) == IF loc[t].op = "push" THEN 1 ELSE -1

SizeWrite(t) ==
  /\ Goto(t, "size_write", IF loc[t].op = "push" THEN "done" ELSE "kfree")
  /\ size' = (loc[t].size + Delta(t)) % SizeWord
  /\ UNCHANGED <<phase, listVars, loc>>

KFreeForgotten(t) ==   \* mutant of KFree
  /\ Goto(t, "kfree", IF loc[t].op = "clear" THEN "loop" ELSE "done")
  /\ UNCHANGED <<phase, listVars, size, loc>>

KFree(t) ==
  /\ Goto(t, "kfree", IF loc[t].op = "clear" THEN "loop" ELSE "done")
  /\ alive' = alive \ {loc[t].node}
  /\ UNCHANGED <<phase, next, prev, data, size, loc>>

-----------------------------------------------------------------------------
Step(t) ==
  \/ Kmalloc(t) \/ KmallocFails(t)
  \/ ReadFirst(t) \/ LinkBack(t) \/ LinkNext(t) \/ LinkPrev(t) \/ LinkFront(t)
  \/ LoopTest(t) \/ EmptyTest(t) \/ ReadTop(t) \/ ReadData(t)
  \/ ReadEntry(t) \/ ReadLinks(t) \/ UnlinkBack(t) \/ UnlinkFront(t) \/ Poison(t)
  \/ SizeRead(t) \/ SizeWrite(t) \/ KFree(t) \/ Return(t)

Module ==
  \/ Load \/ LoadFails \/ Registered \/ RegisterFails \/ Remove \/ ExitClear \/ Unloaded

Next ==
  \/ Module
  \/ \E t \in Users : SizeShow(t) \/ IsEmptyShow(t)
  \/ \E t \in Writers :
       \/ \E num \in Values : PushStore(t, num)
       \/ PopShow(t) \/ PeekShow(t) \/ ClearStore(t) \/ ClearRefused(t)
  \/ \E t \in Tasks : Step(t)

Spec == Init /\ [][Next]_vars

\* A callback and a removal that have begun are run to their ends.
FairSpec ==
  /\ Spec
  /\ \A t \in Tasks : WF_vars(Step(t))
  /\ WF_vars(ExitClear \/ Unloaded)

-----------------------------------------------------------------------------
\* The ways from the head back to it that meet no node twice.
Paths == {s \in UNION {[1 .. n -> Nodes] : n \in 0 .. Cardinality(Nodes)} :
            \A k, l \in DOMAIN s : s[k] = s[l] => k = l}
Rings == {<<Elements>> \o s \o <<Elements>> : s \in Paths}

Follows(link, p) == \A k \in 1 .. Len(p) - 1 : link[p[k]] = p[k + 1]

\* The nodes on the ring that the pointers make, in its order.
ListOf(link) ==
  IF \E p \in Rings : Follows(link, p)
  THEN LET ring == CHOOSE p \in Rings : Follows(link, p) IN SubSeq(ring, 2, Len(ring) - 1)
  ELSE <<>>
Listed == ListOf(next)

InList == Range(Listed)
Contents == LET s == Listed IN [k \in DOMAIN s |-> data[s[k]]]
Loaded == phase \in {"registering", "live", "leaving", "clearing"}

\* A node that no other task may touch: not linked yet, or not linked any more.
Held(t) ==
  \/ loc[t].op = "push" /\ pc[t] \in {"add", "link_back", "link_next", "link_prev", "link_front"}
  \/ loc[t].op \in {"pop", "clear"} /\ pc[t] \in {"poison", "size_read", "size_write", "kfree"}
InHand == {loc[t].node : t \in {u \in Tasks : Held(u)}}

TypeOK ==
  /\ phase \in {"absent", "registering", "live", "leaving", "clearing", "failed"}
  /\ next \in [Cells -> Cells \union {None}] /\ prev \in [Cells -> Cells \union {None}]
  /\ data \in [Nodes -> Values \union {None}]
  /\ alive \subseteq Nodes
  /\ size \in 0 .. Cardinality(Nodes)
  /\ pc \in [Tasks -> {"idle", "kmalloc", "add", "link_back", "link_next", "link_prev", "link_front",
                       "loop", "test", "top", "read", "del", "links", "unlink_back",
                       "unlink_front", "poison", "size_read", "size_write", "kfree", "done"}]
  /\ \A t \in Tasks :
       /\ loc[t].op \in {"none", "push", "pop", "peek", "size", "is_empty", "clear"}
       /\ loc[t].rc \in {"ok", "empty", "nomem", "invalid"}
       /\ loc[t].val \in Values \union {None} /\ loc[t].node \in Nodes \union {None}

\* The list is a ring of allocated nodes in both directions, but for the one
\* back pointer that list_add and list_del set ahead (stack_ops.c:48, 79).
ListSound ==
  Loaded =>
    /\ \E p \in Rings : Follows(next, p)
    /\ InList \subseteq alive
    /\ \A c \in InList \union {Elements} :
         \/ prev[next[c]] = c
         \/ \E t \in Tasks : /\ pc[t] \in {"link_next", "link_prev", "link_front", "unlink_front"}
                            /\ next[c] \in {loc[t].next, loc[t].node}

\* The tasks that have changed the list and not yet the count.
Late(ops) == {t \in Tasks : loc[t].op \in ops /\ pc[t] \in {"poison", "size_read", "size_write"}}

\* size is the number of nodes in the list, but for the operation that has
\* changed the one and not yet the other (stack_ops.c:48-49, 79-81).
SizeTracks ==
  Loaded => Len(Listed) = size + Cardinality(Late({"push"})) - Cardinality(Late({"pop", "clear"}))

\* Every allocated node is in the list or in the hands of one callback, so that
\* a removed module has freed them all (stack_ops.c:40-49, 77-82, main.c:42).
NothingLeaked ==
  /\ Loaded => alive = InList \union InHand
  /\ phase = "absent" => alive = {}

\* A node is allocated when a task reads, unlinks or frees it, and the one that
\* stack_pop unlinks is the one that it has read and will free
\* (stack_ops.c:77-82, 105-106).
NoStaleNode ==
  \A t \in Tasks :
    /\ pc[t] \in {"read", "del", "links", "unlink_back", "unlink_front", "poison", "kfree"} =>
         loc[t].node \in alive
    /\ pc[t] \in {"links", "unlink_back", "unlink_front", "poison"} => loc[t].entry = loc[t].node

\* What t wants to push, has popped, has looked at, and has not yet handed on.
Giving(t) ==
  IF loc[t].op = "push" /\ pc[t] \in {"kmalloc", "add", "link_back", "link_next", "link_prev", "link_front"}
  THEN loc[t].val ELSE None
Taken(t) ==
  IF \/ loc[t].op \in {"pop", "clear"} /\ pc[t] \in {"poison", "size_read", "size_write", "kfree"}
     \/ loc[t].op = "pop" /\ pc[t] = "done" /\ loc[t].rc = "ok"
  THEN loc[t].val ELSE None
Looked(t) == IF loc[t].op = "peek" /\ pc[t] = "done" THEN loc[t].val ELSE None

Promise == INSTANCE LifoStack WITH
  contents <- Contents,
  giving <- [t \in Tasks |-> Giving(t)],
  taken <- [t \in Tasks |-> Taken(t)],
  seen <- [t \in Tasks |-> Looked(t)]

\* The linked list implements a stack (stack_ops.c:30-111).
IsLifo == Promise!Spec

\* A removal that has begun ends: the callbacks leave, and stack_clear finds the
\* list empty in the end (sysfs.c:280, main.c:42, stack_ops.c:140).
RemovalEnds == phase = "leaving" ~> phase = "absent"

\* The documents' "current number of elements" (kernel_stack_task-510203-3aa787.md:62)
\* is what size holds whenever no operation is in progress.
SizeCurrent ==
  Loaded /\ (\A t \in Tasks : pc[t] = "idle") => size = Len(Listed)

=============================================================================
