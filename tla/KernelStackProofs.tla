------------------------- MODULE KernelStackProofs -------------------------
(***************************************************************************)
(* Proofs about KernelStack, for one writing task and any number of tasks  *)
(* that ask, of nodes and of values: the list is always a ring in the      *)
(* nodes that are allocated, size counts it, no node is lost or used after *)
(* it was freed, and the whole is a stack.                                 *)
(*                                                                         *)
(* At most one task changes or follows the list at a time: the writer, or  *)
(* the removal, which begins when the last callback is gone (Sole).  The   *)
(* invariant says of that task how far it is (Owed, WorkShape), and of the *)
(* list that its nodes are those that the task does not hold (ListShape).  *)
(***************************************************************************)
EXTENDS KernelStack, SequenceTheorems, BoundedInduction, TLAPS

\* One task pushes, pops, peeks and clears.
OneWriter == \A t, u \in Writers : t = u

Points == {"idle", "kmalloc", "add", "link_back", "link_next", "link_prev", "link_front",
           "loop", "test", "top", "read", "del", "links", "unlink_back", "unlink_front", "poison",
           "size_read", "size_write", "kfree", "done"}

CallRecord ==
  [op : {"none", "push", "pop", "peek", "size", "is_empty", "clear"},
   rc : {"ok", "empty", "nomem", "invalid"}, val : Values \union {None},
   node : Nodes \union {None}, entry : Cells \union {None}, next : Cells \union {None},
   prev : Cells \union {None}, size : Nat]

TypeShape ==
  /\ phase \in {"absent", "registering", "live", "leaving", "clearing", "failed"}
  /\ next \in [Cells -> Cells \union {None}] /\ prev \in [Cells -> Cells \union {None}]
  /\ data \in [Nodes -> Values \union {None}]
  /\ alive \subseteq Nodes /\ size \in Nat
  /\ pc \in [Tasks -> Points] /\ loc \in [Tasks -> CallRecord]

PointShape(t) ==
  /\ pc[t] = "idle" => loc[t] = NoCall
  /\ loc[t].op = "none" => pc[t] = "idle"
  /\ pc[t] \in {"kmalloc", "add", "link_back", "link_next", "link_prev", "link_front"} =>
       loc[t].op = "push"
  /\ loc[t].op = "push" => loc[t].val \in Values
  /\ pc[t] \in {"add", "link_back", "link_next", "link_prev", "link_front", "del", "links",
                "unlink_back", "unlink_front", "poison"} => loc[t].node \in Nodes
  /\ pc[t] = "loop" => loc[t].op = "clear"
  /\ pc[t] = "test" => loc[t].op \in {"pop", "peek", "clear", "is_empty"}
  /\ pc[t] \in {"top", "read"} => loc[t].op \in {"pop", "peek", "clear"}
  /\ pc[t] \in {"del", "links", "unlink_back", "unlink_front", "poison", "kfree"} =>
       loc[t].op \in {"pop", "clear"}
  /\ pc[t] = "size_read" => loc[t].op \in {"push", "pop", "clear", "size"}
  /\ pc[t] = "size_write" => loc[t].op \in {"push", "pop", "clear"}
  /\ loc[t].op \in {"push", "pop", "peek"} => t \in Writers
  /\ loc[t].op \in {"size", "is_empty"} => t \in Users
  /\ loc[t].op = "clear" => t \in Writers \union {Rmmod}
  /\ loc[t].op = "peek" /\ (pc[t] \in {"test", "top", "read"} \/ loc[t].rc # "ok") => loc[t].val = None
  /\ pc[t] # "done" => loc[t].rc = "ok"

ModuleShape ==
  /\ pc[Rmmod] # "idle" <=> phase = "clearing"
  /\ phase \in {"absent", "failed", "clearing"} => \A u \in Users : pc[u] = "idle"

BInv == TypeShape /\ (\A t \in Tasks : PointShape(t)) /\ ModuleShape

Working(t) == loc[t].op \in {"push", "pop", "peek", "clear"}
Sole(t) == \A u \in Tasks \ {t} : ~ Working(u)

\* The node or the head at position k of the ring that s makes with the head.
At(s, k) == IF k \in 1 .. Len(s) THEN s[k] ELSE Elements
Links(link, s) == \A k \in 0 .. Len(s) : link[At(s, k)] = At(s, k + 1)

\* What t has not yet taken from size, or added to it.
Owed(t) ==
  IF pc[t] \in {"poison", "size_read", "size_write"}
  THEN IF loc[t].op = "push" THEN -1 ELSE IF loc[t].op \in {"pop", "clear"} THEN 1 ELSE 0
  ELSE 0

ListShape(t) ==
  /\ \A k \in 1 .. Len(Listed) + 1 :
       \/ prev[At(Listed, k)] = At(Listed, k - 1)
       \/ pc[t] \in {"link_next", "link_prev", "link_front"} /\ k = 1
       \/ pc[t] = "unlink_front" /\ k = 2
  /\ alive = Range(Listed) \union (IF Held(t) THEN {loc[t].node} ELSE {})
  /\ \A n \in alive : data[n] \in Values
  /\ size = Len(Listed) + Owed(t)

WorkShape(t) ==
  /\ Held(t) => loc[t].node \in Nodes \ Range(Listed)
  /\ Held(t) /\ loc[t].op = "push" => data[loc[t].node] = loc[t].val
  /\ pc[t] \in {"link_back", "link_next", "link_prev", "link_front"} =>
       loc[t].next = At(Listed, 1)
  /\ pc[t] \in {"link_next", "link_prev", "link_front"} => prev[At(Listed, 1)] = loc[t].node
  /\ pc[t] \in {"link_prev", "link_front"} => next[loc[t].node] = At(Listed, 1)
  /\ pc[t] = "link_front" => prev[loc[t].node] = Elements
  /\ pc[t] = "top" => Listed # <<>>
  /\ pc[t] \in {"read", "del", "links", "unlink_back", "unlink_front"} =>
       Listed # <<>> /\ loc[t].node = Listed[1]
  /\ pc[t] \in {"del", "links", "unlink_back", "unlink_front"} => loc[t].val = data[loc[t].node]
  /\ pc[t] \in {"links", "unlink_back", "unlink_front", "poison"} => loc[t].entry = loc[t].node
  /\ pc[t] \in {"unlink_back", "unlink_front"} =>
       loc[t].next = At(Listed, 2) /\ loc[t].prev = Elements
  /\ pc[t] = "unlink_front" => prev[At(Listed, 2)] = Elements
  /\ Working(t) /\ pc[t] = "size_write" => loc[t].size = size
  /\ t = Rmmod /\ pc[t] = "done" => Listed = <<>>

RingShape ==
  IF phase = "absent" THEN Listed = <<>> /\ alive = {} /\ size = 0
  ELSE /\ Listed \in Paths /\ Links(next, Listed)
       /\ \E t \in Tasks : Sole(t) /\ ListShape(t) /\ WorkShape(t)

IInv == BInv /\ RingShape

-----------------------------------------------------------------------------
(***************************************************************************)
(* Lists and rings.                                                        *)
(***************************************************************************)
LEMMA PathFacts ==
  ASSUME NEW s \in Paths
  PROVE  /\ s \in Seq(Nodes) /\ Len(s) \in Nat /\ Len(s) <= Cardinality(Nodes)
         /\ DOMAIN s = 1 .. Len(s) /\ \A k \in 1 .. Len(s) : s[k] \in Nodes
         /\ \A k, l \in 1 .. Len(s) : s[k] = s[l] => k = l
<1>1. Cardinality(Nodes) \in Nat
  BY StackAssumption, FS_CardinalityType
<1>2. PICK n \in 0 .. Cardinality(Nodes) : s \in [1 .. n -> Nodes]
  BY DEF Paths
<1>3. n \in Nat /\ s \in Seq(Nodes)
  BY <1>1, <1>2
<1>4. Len(s) = n /\ DOMAIN s = 1 .. n
  BY <1>2, <1>3
<1>5. \A k, l \in DOMAIN s : s[k] = s[l] => k = l
  BY DEF Paths
<1> QED
  BY <1>1, <1>2, <1>3, <1>4, <1>5

LEMMA SequenceIsPath ==
  ASSUME NEW s \in Seq(Nodes), \A k, l \in 1 .. Len(s) : s[k] = s[l] => k = l
  PROVE  s \in Paths
<1>1. Cardinality(Nodes) \in Nat /\ IsFiniteSet(Nodes)
  BY StackAssumption, FS_CardinalityType
<1>2. Len(s) \in Nat /\ s \in [1 .. Len(s) -> Nodes] /\ DOMAIN s = 1 .. Len(s)
  BY LenProperties
<1>3. s \in Injection(1 .. Len(s), Nodes)
  BY <1>2 DEF Injection, IsInjective
<1>4. Cardinality(1 .. Len(s)) <= Cardinality(Nodes) /\ Cardinality(1 .. Len(s)) = Len(s)
  <2>1. Cardinality(1 .. Len(s)) <= Cardinality(Nodes)
    BY <1>1, <1>3, FS_Injection
  <2> QED
    BY <1>2, <2>1, FS_Interval
<1> QED
  BY <1>1, <1>2, <1>4 DEF Paths

LEMMA AtFacts ==
  ASSUME NEW s \in Paths
  PROVE  /\ At(s, 0) = Elements /\ At(s, Len(s) + 1) = Elements
         /\ \A k \in 1 .. Len(s) : At(s, k) = s[k] /\ At(s, k) \in Nodes
         /\ \A k \in Int : At(s, k) \in Cells
         /\ Elements \notin Nodes
BY PathFacts, StackAssumption DEF At, Cells

LEMMA RingFacts ==
  ASSUME NEW s \in Paths, NEW p, p = <<Elements>> \o s \o <<Elements>>
  PROVE  /\ Len(p) = Len(s) + 2 /\ \A k \in 0 .. Len(s) + 1 : p[k + 1] = At(s, k)
         /\ SubSeq(p, 2, Len(p) - 1) = s
<1>1. s \in Seq(Cells) /\ <<Elements>> \in Seq(Cells) /\ Len(<<Elements>>) = 1
  BY PathFacts DEF Cells
<1>2. Len(s) \in Nat
  BY PathFacts
<1> DEFINE q == <<Elements>> \o s
<1>3. q \in Seq(Cells) /\ Len(q) = Len(s) + 1 /\ q[1] = Elements
  BY <1>1, <1>2, ConcatProperties
<1>4. \A k \in 1 .. Len(s) : q[k + 1] = s[k]
  BY <1>1, <1>2, ConcatProperties
<1>5. p = q \o <<Elements>>
  OBVIOUS
<1> HIDE DEF q
<1>6. p \in Seq(Cells) /\ Len(p) = Len(s) + 2
  BY <1>1, <1>2, <1>3, <1>5, ConcatProperties
<1>7. \A k \in 1 .. Len(s) + 1 : p[k] = q[k]
  BY <1>1, <1>2, <1>3, <1>5, ConcatProperties
<1>8. p[Len(s) + 2] = Elements
  BY <1>1, <1>2, <1>3, <1>5, ConcatProperties
<1>9. \A k \in 0 .. Len(s) + 1 : p[k + 1] = At(s, k)
  BY <1>2, <1>3, <1>4, <1>7, <1>8 DEF At
<1>10. SubSeq(p, 2, Len(p) - 1) = s
  <2> DEFINE r == SubSeq(p, 2, Len(p) - 1)
  <2>1. r \in Seq(Cells) /\ Len(r) = Len(s) /\ \A k \in 1 .. Len(r) : r[k] = p[k + 1]
    BY <1>2, <1>6, SubSeqProperties
  <2>2. \A k \in 1 .. Len(s) : r[k] = s[k]
    BY <1>2, <1>9, <2>1 DEF At
  <2> HIDE DEF r
  <2>3. r = s
    BY <1>1, <2>1, <2>2, SeqEqual
  <2> QED
    BY <2>3 DEF r
<1> QED
  BY <1>6, <1>9, <1>10

LEMMA FollowsIs ==
  ASSUME NEW s \in Paths, NEW link
  PROVE  Follows(link, <<Elements>> \o s \o <<Elements>>) <=> Links(link, s)
<1> DEFINE p == <<Elements>> \o s \o <<Elements>>
<1>1. Len(p) = Len(s) + 2 /\ \A k \in 0 .. Len(s) + 1 : p[k + 1] = At(s, k)
  BY RingFacts
<1>2. Len(s) \in Nat
  BY PathFacts
<1> HIDE DEF p
<1>3. Follows(link, p) => Links(link, s)
  <2> SUFFICES ASSUME Follows(link, p), NEW k \in 0 .. Len(s) PROVE link[At(s, k)] = At(s, k + 1)
    BY DEF Links
  <2>1. link[p[k + 1]] = p[k + 2]
    BY <1>1, <1>2 DEF Follows
  <2> QED
    BY <1>1, <1>2, <2>1
<1>4. Links(link, s) => Follows(link, p)
  <2> SUFFICES ASSUME Links(link, s), NEW k \in 1 .. Len(p) - 1 PROVE link[p[k]] = p[k + 1]
    BY DEF Follows
  <2>1. k - 1 \in 0 .. Len(s) /\ k \in 0 .. Len(s) + 1
    BY <1>1, <1>2
  <2>2. p[k] = At(s, k - 1) /\ p[k + 1] = At(s, k) /\ link[At(s, k - 1)] = At(s, k)
    BY <1>1, <2>1 DEF Links
  <2> QED
    BY <2>2
<1> QED
  BY <1>3, <1>4 DEF p

\* The pointers make one ring at most.
LEMMA OneRing ==
  ASSUME NEW link, NEW r \in Paths, NEW s \in Paths, Links(link, r), Links(link, s),
         Len(r) <= Len(s)
  PROVE  r = s
<1>1. Len(r) \in Nat /\ Len(s) \in Nat
  BY PathFacts
<1> DEFINE Differ == {k \in 1 .. Len(r) : r[k] # s[k]}
<1>2. ASSUME Differ # {} PROVE FALSE
  <2>1. PICK m \in Differ : \A k \in Differ : m <= k
    <3>1. Differ \subseteq Nat
      BY <1>1
    <3> HIDE DEF Differ
    <3> QED
      BY <1>2, <3>1, Least
  <2>2. m - 1 \in 0 .. Len(r) /\ m - 1 \in 0 .. Len(s) /\ At(r, m - 1) = At(s, m - 1)
    BY <1>1, <2>1 DEF At
  <2>3. At(r, m) = At(s, m)
    BY <1>1, <2>1, <2>2 DEF Links
  <2> QED
    BY <1>1, <2>1, <2>3 DEF At
<1>3. \A k \in 0 .. Len(r) : At(r, k) = At(s, k)
  BY <1>1, <1>2 DEF At
<1>4. At(r, Len(r) + 1) = At(s, Len(r) + 1)
  BY <1>1, <1>3 DEF Links
<1>5. Len(r) = Len(s)
  BY <1>1, <1>4, AtFacts
<1> QED
  BY <1>2, <1>5, PathFacts, SeqEqual

LEMMA ListIs ==
  ASSUME NEW link, NEW s \in Paths, Links(link, s)
  PROVE  ListOf(link) = s /\ \E p \in Rings : Follows(link, p)
<1> DEFINE Ring(r) == <<Elements>> \o r \o <<Elements>>
<1>1. Ring(s) \in Rings /\ Follows(link, Ring(s))
  BY FollowsIs DEF Rings
<1> DEFINE p == CHOOSE p \in Rings : Follows(link, p)
<1>2. p \in Rings /\ Follows(link, p)
  BY <1>1
<1>3. PICK r \in Paths : p = Ring(r)
  BY <1>2 DEF Rings
<1>4. Links(link, r)
  BY <1>2, <1>3, FollowsIs
<1>5. r = s
  BY <1>4, OneRing, PathFacts
<1>6. SubSeq(p, 2, Len(p) - 1) = s
  BY <1>3, <1>5, RingFacts
<1>7. ListOf(link) = SubSeq(p, 2, Len(p) - 1)
  BY <1>1 DEF ListOf
<1> QED
  BY <1>1, <1>6, <1>7

LEMMA RangeFacts ==
  ASSUME NEW s \in Paths
  PROVE  /\ Range(s) \subseteq Nodes /\ Range(s) = {s[k] : k \in 1 .. Len(s)}
         /\ Elements \notin Range(s) /\ \A k \in 1 .. Len(s) : s[k] \in Range(s)
         /\ (s = <<>> <=> Len(s) = 0) /\ (s = <<>> <=> Range(s) = {})
<1>1. s \in Seq(Nodes) /\ Len(s) \in Nat /\ DOMAIN s = 1 .. Len(s)
      /\ \A k \in 1 .. Len(s) : s[k] \in Nodes
  BY PathFacts
<1>2. Range(s) = {s[k] : k \in 1 .. Len(s)}
  BY <1>1 DEF Range
<1>3. s = <<>> <=> Len(s) = 0
  BY <1>1, EmptySeq
<1>4. Len(s) # 0 => 1 \in 1 .. Len(s)
  BY <1>1
<1> QED
  BY <1>1, <1>2, <1>3, <1>4, StackAssumption

\* A list with a node put before it.
LEMMA Longer ==
  ASSUME NEW s \in Paths, NEW n \in Nodes \ Range(s)
  PROVE  /\ <<n>> \o s \in Paths /\ Len(<<n>> \o s) = Len(s) + 1
         /\ Len(s) + 1 <= Cardinality(Nodes)
         /\ At(<<n>> \o s, 1) = n
         /\ \A k \in 1 .. Len(s) + 1 : At(<<n>> \o s, k + 1) = At(s, k)
         /\ Range(<<n>> \o s) = Range(s) \union {n}
<1> DEFINE r == <<n>> \o s
<1>1. <<n>> \in Seq(Nodes) /\ Len(<<n>>) = 1 /\ s \in Seq(Nodes) /\ Len(s) \in Nat
      /\ \A k \in 1 .. Len(s) : s[k] \in Range(s)
  BY PathFacts, RangeFacts
<1>2. r \in Seq(Nodes) /\ Len(r) = Len(s) + 1 /\ r[1] = n
  BY <1>1, ConcatProperties
<1>3. \A k \in 1 .. Len(s) : r[k + 1] = s[k]
  BY <1>1, ConcatProperties
<1> HIDE DEF r
<1>4. \A k \in 2 .. Len(r) : k - 1 \in 1 .. Len(s) /\ r[k] = s[k - 1] /\ r[k] # n
  <2> SUFFICES ASSUME NEW k \in 2 .. Len(r)
               PROVE  k - 1 \in 1 .. Len(s) /\ r[k] = s[k - 1] /\ r[k] # n
    OBVIOUS
  <2>1. k - 1 \in 1 .. Len(s) /\ k = (k - 1) + 1
    BY <1>1, <1>2
  <2> QED
    BY <1>1, <1>3, <2>1
<1>5. ASSUME NEW k \in 1 .. Len(r), NEW l \in 1 .. Len(r), r[k] = r[l]
      PROVE  k = l
  <2>1. k \in 2 .. Len(r) /\ l \in 2 .. Len(r) => k - 1 = l - 1
    BY <1>4, <1>5, PathFacts
  <2>2. k = 1 \/ k \in 2 .. Len(r)
    BY <1>1, <1>2
  <2>3. l = 1 \/ l \in 2 .. Len(r)
    BY <1>1, <1>2
  <2> QED
    BY <1>2, <1>4, <1>5, <2>1, <2>2, <2>3
<1>6. r \in Paths
  BY <1>2, <1>5, SequenceIsPath
<1>7. At(r, 1) = n /\ \A k \in 1 .. Len(s) + 1 : At(r, k + 1) = At(s, k)
  BY <1>1, <1>2, <1>3 DEF At
<1>8. Range(r) = Range(s) \union {n}
  <2>1. Range(r) = {r[k] : k \in 1 .. Len(r)} /\ Range(s) = {s[k] : k \in 1 .. Len(s)}
    BY <1>6, RangeFacts
  <2>2. ASSUME NEW k \in 1 .. Len(r) PROVE r[k] \in Range(s) \union {n}
    <3>1. k = 1 \/ k \in 2 .. Len(r)
      BY <1>1, <1>2
    <3> QED
      BY <1>1, <1>2, <1>4, <3>1
  <2>3. n \in Range(r) /\ \A k \in 1 .. Len(s) : s[k] \in Range(r)
    <3>1. 1 \in 1 .. Len(r) /\ \A k \in 1 .. Len(s) : k + 1 \in 1 .. Len(r)
      BY <1>1, <1>2
    <3> QED
      BY <1>2, <1>3, <2>1, <3>1
  <2> QED
    BY <2>1, <2>2, <2>3
<1>9. Len(r) <= Cardinality(Nodes)
  BY <1>6, PathFacts
<1> QED
  BY <1>2, <1>6, <1>7, <1>8, <1>9 DEF r

\* A list without its first node.
LEMMA Shorter ==
  ASSUME NEW s \in Paths, s # <<>>
  PROVE  /\ Tail(s) \in Paths /\ Len(Tail(s)) = Len(s) - 1 /\ Len(s) >= 1 /\ s[1] \in Nodes
         /\ \A k \in 1 .. Len(s) : At(Tail(s), k) = At(s, k + 1)
         /\ Range(s) = Range(Tail(s)) \union {s[1]} /\ s[1] \notin Range(Tail(s))
<1> DEFINE r == Tail(s)
<1>1. s \in Seq(Nodes) /\ Len(s) \in Nat /\ Len(s) >= 1
  BY PathFacts, RangeFacts
<1>2. r \in Seq(Nodes) /\ Len(r) = Len(s) - 1
  BY <1>1, HeadTailProperties
<1>3. \A k \in 1 .. Len(r) : r[k] = s[k + 1] /\ k + 1 \in 1 .. Len(s)
  BY <1>1, <1>2, HeadTailProperties
<1> HIDE DEF r
<1>4. \A k, l \in 1 .. Len(r) : r[k] = r[l] => k = l
  <2> SUFFICES ASSUME NEW k \in 1 .. Len(r), NEW l \in 1 .. Len(r), r[k] = r[l] PROVE k = l
    OBVIOUS
  <2>1. k + 1 = l + 1
    BY <1>3, PathFacts
  <2> QED
    BY <2>1
<1>5. r \in Paths
  BY <1>2, <1>4, SequenceIsPath
<1>6. \A k \in 1 .. Len(s) : At(r, k) = At(s, k + 1)
  BY <1>1, <1>2, <1>3 DEF At
<1>7. Range(r) = {r[k] : k \in 1 .. Len(r)} /\ Range(s) = {s[k] : k \in 1 .. Len(s)}
  BY <1>5, RangeFacts
<1>8. Range(s) \subseteq Range(r) \union {s[1]}
  <2> SUFFICES ASSUME NEW k \in 1 .. Len(s), k # 1 PROVE s[k] \in Range(r)
    BY <1>1, <1>7
  <2>1. k - 1 \in 1 .. Len(r) /\ k = (k - 1) + 1
    BY <1>1, <1>2
  <2>2. r[k - 1] = s[k]
    BY <1>3, <2>1
  <2> QED
    BY <1>7, <2>1, <2>2
<1>9. s[1] \notin Range(r)
  <2> SUFFICES ASSUME NEW k \in 1 .. Len(r), r[k] = s[1] PROVE FALSE
    BY <1>7
  <2>1. k + 1 = 1
    BY <1>1, <1>3, PathFacts
  <2> QED
    BY <2>1
<1>10. Range(r) \subseteq Range(s) /\ s[1] \in Range(s) /\ s[1] \in Nodes
  BY <1>1, <1>3, <1>7, PathFacts
<1> QED
  BY <1>1, <1>2, <1>5, <1>6, <1>8, <1>9, <1>10 DEF r

\* Which changes of the pointers make which list.
LEMMA LinksElsewhere ==
  ASSUME NEW link \in [Cells -> Cells \union {None}], NEW s \in Paths, Links(link, s),
         NEW n \in Nodes \ Range(s), NEW c
  PROVE  Links([link EXCEPT ![n] = c], s)
<1> SUFFICES ASSUME NEW k \in 0 .. Len(s)
             PROVE  [link EXCEPT ![n] = c][At(s, k)] = At(s, k + 1)
  BY DEF Links
<1>1. Len(s) \in Nat
  BY PathFacts
<1>2. At(s, k) \in Range(s) \union {Elements} /\ At(s, k) \in Cells
  BY <1>1, RangeFacts, AtFacts DEF At
<1>3. At(s, k) # n
  BY <1>2, AtFacts
<1> QED
  BY <1>2, <1>3 DEF Links

LEMMA LinksLonger ==
  ASSUME NEW link \in [Cells -> Cells \union {None}], NEW s \in Paths, Links(link, s),
         NEW n \in Nodes \ Range(s), link[n] = At(s, 1)
  PROVE  Links([link EXCEPT ![Elements] = n], <<n>> \o s)
<1> DEFINE r == <<n>> \o s
           new == [link EXCEPT ![Elements] = n]
<1>1. /\ Len(r) = Len(s) + 1 /\ At(r, 1) = n /\ \A k \in 1 .. Len(s) + 1 : At(r, k + 1) = At(s, k)
      /\ At(r, 0) = Elements
  BY Longer, AtFacts
<1>2. Len(s) \in Nat /\ Elements \in Cells /\ n \in Cells /\ Elements # n
  BY PathFacts, AtFacts DEF Cells
<1>3. \A k \in 1 .. Len(s) : At(s, k) \in Cells /\ At(s, k) # Elements
  BY AtFacts
<1> HIDE DEF r
<1> SUFFICES ASSUME NEW k \in 0 .. Len(r) PROVE new[At(r, k)] = At(r, k + 1)
  BY DEF Links, r
<1>4. CASE k = 0
  BY <1>1, <1>2, <1>4
<1>5. CASE k = 1
  BY <1>1, <1>2, <1>5
<1>6. CASE k \in 2 .. Len(r)
  <2>1. k - 1 \in 1 .. Len(s) /\ k - 1 \in 0 .. Len(s) /\ k = (k - 1) + 1 /\ k \in 1 .. Len(s) + 1
    BY <1>1, <1>2, <1>6
  <2>2. At(r, k) = At(s, k - 1) /\ At(r, k + 1) = At(s, k)
    BY <1>1, <2>1
  <2>3. link[At(s, k - 1)] = At(s, k)
    BY <2>1 DEF Links
  <2> QED
    BY <1>3, <2>1, <2>2, <2>3
<1> QED
  BY <1>1, <1>2, <1>4, <1>5, <1>6

LEMMA LinksShorter ==
  ASSUME NEW link \in [Cells -> Cells \union {None}], NEW s \in Paths, Links(link, s), s # <<>>
  PROVE  Links([link EXCEPT ![Elements] = At(s, 2)], Tail(s))
<1> DEFINE r == Tail(s)
           new == [link EXCEPT ![Elements] = At(s, 2)]
<1>1. /\ r \in Paths /\ Len(r) = Len(s) - 1 /\ Len(s) \in Nat /\ Len(s) >= 1
      /\ \A k \in 1 .. Len(s) : At(r, k) = At(s, k + 1)
      /\ s[1] \in Nodes /\ s[1] \notin Range(r)
  BY Shorter, PathFacts
<1> HIDE DEF r
<1>2. At(r, 0) = Elements /\ Elements \in Cells /\ Elements \notin Nodes
  BY <1>1, AtFacts DEF Cells
<1>3. \A k \in 1 .. Len(r) : At(r, k) \in Nodes /\ At(r, k) # s[1]
  <2> SUFFICES ASSUME NEW k \in 1 .. Len(r) PROVE At(r, k) \in Nodes /\ At(r, k) # s[1]
    OBVIOUS
  <2>1. At(r, k) = r[k] /\ At(r, k) \in Nodes /\ r[k] \in Range(r)
    BY <1>1, AtFacts, RangeFacts
  <2> QED
    BY <1>1, <2>1
<1> SUFFICES ASSUME NEW k \in 0 .. Len(r) PROVE new[At(r, k)] = At(r, k + 1)
  BY DEF Links, r
<1>4. CASE k = 0
  <2>1. At(r, 1) = At(s, 2)
    BY <1>1
  <2> QED
    BY <1>1, <1>2, <1>4, <2>1
<1>5. CASE k \in 1 .. Len(r)
  <2>1. k + 1 \in 1 .. Len(s) /\ k \in 1 .. Len(s) /\ k + 1 \in 0 .. Len(s)
    BY <1>1, <1>5
  <2>2. At(r, k) = At(s, k + 1) /\ At(r, k + 1) = At(s, k + 2) /\ link[At(s, k + 1)] = At(s, k + 2)
    BY <1>1, <2>1 DEF Links
  <2> QED
    BY <1>2, <1>3, <1>5, <2>2 DEF Cells
<1> QED
  BY <1>1, <1>4, <1>5


-----------------------------------------------------------------------------
(***************************************************************************)
(* The types, and what each task holds at its program points.              *)
(***************************************************************************)
LEMMA Remainder ==
  ASSUME NEW W \in Nat \ {0}, NEW a \in Int
  PROVE  a % W \in 0 .. W - 1 /\ (a \in 0 .. W - 1 => a % W = a)
BY SMTT(30)

LEMMA SizeFacts ==
  /\ Cardinality(Nodes) \in Nat /\ SizeWord \in Nat \ {0} /\ Cardinality(Nodes) < SizeWord
  /\ Elements \notin Nodes /\ None \notin Cells /\ Rmmod \notin Users
BY StackAssumption, FS_CardinalityType DEF Cells, Users

LEMMA InitBase == Init => BInv
<1> SUFFICES ASSUME Init PROVE BInv
  OBVIOUS
<1>1. TypeShape
  BY DEF Init, TypeShape, NoCall, CallOf, CallRecord, Points
<1>2. (\A t \in Tasks : PointShape(t)) /\ ModuleShape
  BY SizeFacts DEF Init, PointShape, ModuleShape, NoCall, CallOf, Tasks
<1> QED
  BY <1>1, <1>2 DEF BInv

LEMMA ModuleBase == BInv /\ Module => BInv'
<1> SUFFICES ASSUME BInv, Module PROVE BInv'
  OBVIOUS
<1> USE DEF BInv, listVars
<1>1. CASE Load \/ LoadFails \/ Registered \/ RegisterFails \/ Remove
  <2>1. TypeShape'
    BY <1>1 DEF Load, LoadFails, Registered, RegisterFails, Remove, StackInit, TypeShape, Cells
  <2>2. pc' = pc /\ loc' = loc
    BY <1>1 DEF Load, LoadFails, Registered, RegisterFails, Remove
  <2>3. \A t \in Tasks : PointShape(t)'
    BY <2>2 DEF PointShape
  <2>4. ModuleShape'
    BY <1>1, <2>2 DEF Load, LoadFails, Registered, RegisterFails, Remove, ModuleShape
  <2> QED
    BY <2>1, <2>3, <2>4
<1>2. CASE ExitClear
  <2>1. /\ phase' = "clearing" /\ Drained /\ pc[Rmmod] = "idle" /\ Rmmod \in Tasks
        /\ pc' = [pc EXCEPT ![Rmmod] = "loop"] /\ loc' = [loc EXCEPT ![Rmmod].op = "clear"]
        /\ UNCHANGED <<next, prev, data, alive, size>>
    BY <1>2 DEF ExitClear, Goto, Set, Tasks
  <2>2. loc[Rmmod] = NoCall
    BY <2>1 DEF PointShape
  <2>3. TypeShape'
    BY <2>1 DEF TypeShape, Points, CallRecord
  <2>4. \A t \in Tasks : PointShape(t)'
    BY <2>1, <2>2, SizeFacts DEF PointShape, TypeShape, NoCall, CallOf, CallRecord
  <2>5. ModuleShape'
    BY <2>1, SizeFacts DEF ModuleShape, Drained, TypeShape, Tasks
  <2> QED
    BY <2>3, <2>4, <2>5
<1>3. CASE Unloaded
  <2>1. /\ phase = "clearing" /\ phase' = "absent" /\ Rmmod \in Tasks
        /\ pc' = [pc EXCEPT ![Rmmod] = "idle"] /\ loc' = [loc EXCEPT ![Rmmod] = NoCall]
        /\ UNCHANGED <<next, prev, data, alive, size>>
    BY <1>3 DEF Unloaded, Goto, Tasks
  <2>2. TypeShape'
    BY <2>1 DEF TypeShape, Points, CallRecord, NoCall, CallOf
  <2>3. \A t \in Tasks : PointShape(t)'
    BY <2>1, SizeFacts DEF PointShape, TypeShape, NoCall, CallOf
  <2>4. ModuleShape'
    BY <2>1, SizeFacts DEF ModuleShape, TypeShape, Tasks
  <2> QED
    BY <2>2, <2>3, <2>4
<1> QED
  BY <1>1, <1>2, <1>3 DEF Module

\* How a callback begins.
Begins(t, op, rc, val, at) ==
  \/ op = "push" /\ t \in Writers /\ val \in Values /\ at = "kmalloc" /\ rc = "ok"
  \/ op \in {"pop", "peek"} /\ t \in Writers /\ val = None /\ at = "test" /\ rc = "ok"
  \/ op = "size" /\ t \in Users /\ val = None /\ at = "size_read" /\ rc = "ok"
  \/ op = "is_empty" /\ t \in Users /\ val = None /\ at = "test" /\ rc = "ok"
  \/ op = "clear" /\ t \in Writers /\ val = None /\ at = "loop" /\ rc = "ok"
  \/ op = "clear" /\ t \in Writers /\ val = None /\ at = "done" /\ rc = "invalid"

Begun(t, op, rc, val, at) ==
  /\ phase \in {"registering", "live"} /\ pc[t] = "idle" /\ loc[t] = NoCall
  /\ pc' = [pc EXCEPT ![t] = at]
  /\ loc' = [loc EXCEPT ![t] = CallOf(op, rc, val)]
  /\ UNCHANGED <<phase, next, prev, data, alive, size>>

LEMMA CallBegun ==
  ASSUME BInv, NEW t \in Tasks,
         \/ t \in Users /\ (SizeShow(t) \/ IsEmptyShow(t))
         \/ /\ t \in Writers
            /\ \/ \E num \in Values : PushStore(t, num)
               \/ PopShow(t) \/ PeekShow(t) \/ ClearStore(t) \/ ClearRefused(t)
  PROVE  \E op, rc, val, at : Begins(t, op, rc, val, at) /\ Begun(t, op, rc, val, at)
<1>1. ASSUME NEW op, NEW val, NEW at, Call(t, op, val, at)
      PROVE  Begun(t, op, "ok", val, at)
  <2>1. pc[t] = "idle" /\ loc[t] = NoCall
    BY <1>1 DEF Call, Goto, BInv, PointShape
  <2> QED
    BY <1>1, <2>1 DEF Call, Goto, Begun, listVars
<1>2. ASSUME ClearRefused(t) PROVE Begun(t, "clear", "invalid", None, "done")
  <2>1. pc[t] = "idle" /\ loc[t] = NoCall
    BY <1>2 DEF ClearRefused, Goto, BInv, PointShape
  <2> QED
    BY <1>2, <2>1 DEF ClearRefused, Goto, Begun, listVars
<1>3. ASSUME NEW num \in Values, PushStore(t, num), t \in Writers
      PROVE  Begins(t, "push", "ok", num, "kmalloc") /\ Begun(t, "push", "ok", num, "kmalloc")
  BY <1>1, <1>3 DEF PushStore, Begins
<1>4. ASSUME PopShow(t), t \in Writers
      PROVE  Begins(t, "pop", "ok", None, "test") /\ Begun(t, "pop", "ok", None, "test")
  BY <1>1, <1>4 DEF PopShow, Begins
<1>5. ASSUME PeekShow(t), t \in Writers
      PROVE  Begins(t, "peek", "ok", None, "test") /\ Begun(t, "peek", "ok", None, "test")
  BY <1>1, <1>5 DEF PeekShow, Begins
<1>6. ASSUME ClearStore(t), t \in Writers
      PROVE  Begins(t, "clear", "ok", None, "loop") /\ Begun(t, "clear", "ok", None, "loop")
  BY <1>1, <1>6 DEF ClearStore, Begins
<1>7. ASSUME ClearRefused(t), t \in Writers
      PROVE  /\ Begins(t, "clear", "invalid", None, "done")
             /\ Begun(t, "clear", "invalid", None, "done")
  BY <1>2, <1>7 DEF Begins
<1>8. ASSUME SizeShow(t), t \in Users
      PROVE  Begins(t, "size", "ok", None, "size_read") /\ Begun(t, "size", "ok", None, "size_read")
  BY <1>1, <1>8 DEF SizeShow, Begins
<1>9. ASSUME IsEmptyShow(t), t \in Users
      PROVE  Begins(t, "is_empty", "ok", None, "test") /\ Begun(t, "is_empty", "ok", None, "test")
  BY <1>1, <1>9 DEF IsEmptyShow, Begins
<1> QED
  BY <1>3, <1>4, <1>5, <1>6, <1>7, <1>8, <1>9

LEMMA CallBase ==
  ASSUME BInv, NEW t \in Tasks, NEW op, NEW rc, NEW val, NEW at,
         Begins(t, op, rc, val, at), Begun(t, op, rc, val, at)
  PROVE  BInv'
<1> USE DEF BInv
<1> DEFINE L == CallOf(op, rc, val)
<1>1. /\ pc' = [pc EXCEPT ![t] = at] /\ loc' = [loc EXCEPT ![t] = L]
      /\ L.op = op /\ L.rc = rc /\ L.val = val /\ L.node = None
      /\ UNCHANGED <<phase, next, prev, data, alive, size>>
  BY DEF Begun, CallOf
<1>2. L \in CallRecord /\ at \in Points
  BY DEF Begins, CallRecord, CallOf, Points
<1> HIDE DEF L
<1>3. TypeShape'
  BY <1>1, <1>2 DEF TypeShape
<1>4. pc'[t] = at /\ loc'[t] = L /\ \A u \in Tasks \ {t} : pc'[u] = pc[u] /\ loc'[u] = loc[u]
  BY <1>1 DEF TypeShape
<1>5. PointShape(t)'
  BY <1>1, <1>4 DEF PointShape, Begins
<1>6. \A u \in Tasks \ {t} : PointShape(u)'
  BY <1>4 DEF PointShape
<1>7. t # Rmmod
  BY SizeFacts DEF Begins, Users
<1>8. ModuleShape'
  BY <1>1, <1>4, <1>7 DEF ModuleShape, Begun, Tasks
<1> QED
  BY <1>3, <1>5, <1>6, <1>8

-----------------------------------------------------------------------------
(***************************************************************************)
(* A step of a callback keeps the types, leaves the other callbacks alone, *)
(* and leaves its own with what the next program point needs.              *)
(***************************************************************************)
LEMMA SetTypes ==
  ASSUME TypeShape, NEW t \in Tasks
  PROVE  /\ \A x \in {"ok", "empty", "nomem", "invalid"} : Set(t, "rc", x) =>
              loc' \in [Tasks -> CallRecord] /\ \A u \in Tasks \ {t} : loc'[u] = loc[u]
         /\ \A x \in Values \union {None} : Set(t, "val", x) =>
              loc' \in [Tasks -> CallRecord] /\ \A u \in Tasks \ {t} : loc'[u] = loc[u]
         /\ \A x \in Nodes \union {None} : Set(t, "node", x) =>
              loc' \in [Tasks -> CallRecord] /\ \A u \in Tasks \ {t} : loc'[u] = loc[u]
         /\ \A x \in Cells \union {None} : Set(t, "next", x) \/ Set(t, "entry", x) =>
              loc' \in [Tasks -> CallRecord] /\ \A u \in Tasks \ {t} : loc'[u] = loc[u]
         /\ \A x \in Nat : Set(t, "size", x) =>
              loc' \in [Tasks -> CallRecord] /\ \A u \in Tasks \ {t} : loc'[u] = loc[u]
<1>1. loc \in [Tasks -> CallRecord]
  BY DEF TypeShape
<1>2. ASSUME NEW x \in {"ok", "empty", "nomem", "invalid"}, Set(t, "rc", x)
      PROVE  loc' \in [Tasks -> CallRecord] /\ \A u \in Tasks \ {t} : loc'[u] = loc[u]
  BY <1>1, <1>2 DEF Set, CallRecord
<1>3. ASSUME NEW x \in Values \union {None}, Set(t, "val", x)
      PROVE  loc' \in [Tasks -> CallRecord] /\ \A u \in Tasks \ {t} : loc'[u] = loc[u]
  BY <1>1, <1>3 DEF Set, CallRecord
<1>4. ASSUME NEW x \in Nodes \union {None}, Set(t, "node", x)
      PROVE  loc' \in [Tasks -> CallRecord] /\ \A u \in Tasks \ {t} : loc'[u] = loc[u]
  BY <1>1, <1>4 DEF Set, CallRecord
<1>5. ASSUME NEW x \in Cells \union {None}, Set(t, "next", x) \/ Set(t, "entry", x)
      PROVE  loc' \in [Tasks -> CallRecord] /\ \A u \in Tasks \ {t} : loc'[u] = loc[u]
  BY <1>1, <1>5 DEF Set, CallRecord
<1>6. ASSUME NEW x \in Nat, Set(t, "size", x)
      PROVE  loc' \in [Tasks -> CallRecord] /\ \A u \in Tasks \ {t} : loc'[u] = loc[u]
  BY <1>1, <1>6 DEF Set, CallRecord
<1> QED
  BY <1>2, <1>3, <1>4, <1>5, <1>6

LEMMA LinksTypes ==
  ASSUME NEW call \in CallRecord, NEW a \in Cells \union {None}, NEW b \in Cells \union {None}
  PROVE  [call EXCEPT !.next = a, !.prev = b] \in CallRecord
BY DEF CallRecord

LEMMA StepTypes ==
  ASSUME BInv, NEW t \in Tasks, Step(t), pc[t] = "top" => next[Elements] \in Nodes
  PROVE  /\ TypeShape' /\ phase' = phase
         /\ \A u \in Tasks \ {t} : pc'[u] = pc[u] /\ loc'[u] = loc[u]
<1>1. TypeShape /\ PointShape(t)
  BY DEF BInv
<1> USE <1>1 DEF listVars, Points
<1>a. CASE Kmalloc(t)
  <2>1. loc[t].val \in Values
    BY <1>a DEF Kmalloc, Goto, PointShape
  <2> QED
    BY <1>a, <2>1, SetTypes DEF Kmalloc, Goto, TypeShape
<1>b. CASE KmallocFails(t)
  BY <1>b, SetTypes DEF KmallocFails, Answer, Goto, TypeShape
<1>c. CASE ReadFirst(t)
  <2>1. next[Elements] \in Cells \union {None}
    BY DEF TypeShape, Cells
  <2> QED
    BY <1>c, <2>1, SetTypes DEF ReadFirst, Goto, TypeShape
<1>d. CASE LinkBack(t)
  <2>1. loc[t].node \in Nodes
    BY <1>d DEF LinkBack, Goto, PointShape
  <2> QED
    BY <1>d, <2>1 DEF LinkBack, Goto, TypeShape, Cells
<1>e. CASE LinkFront(t)
  <2>1. loc[t].node \in Nodes
    BY <1>e DEF LinkFront, Goto, PointShape
  <2> QED
    BY <1>e, <2>1 DEF LinkFront, Goto, TypeShape, Cells
<1>f. CASE LoopTest(t)
  <2>1. CASE Empty
    BY <1>f, <2>1, SetTypes DEF LoopTest, Answer, Goto, TypeShape
  <2>2. CASE ~ Empty
    BY <1>f, <2>2 DEF LoopTest, Goto, TypeShape
  <2> QED
    BY <2>1, <2>2
<1>g. CASE EmptyTest(t)
  <2>1. CASE Empty
    <3>1. Answer(t, "test", "ok") \/ Answer(t, "test", "empty")
      BY <1>g, <2>1 DEF EmptyTest
    <3> QED
      BY <1>g, <3>1, SetTypes DEF EmptyTest, Answer, Goto, TypeShape
  <2>2. CASE ~ Empty
    BY <1>g, <2>2 DEF EmptyTest, Goto, TypeShape
  <2> QED
    BY <2>1, <2>2
<1>h. CASE ReadTop(t)
  <2>1. next[Elements] \in Nodes \union {None}
    BY <1>h DEF ReadTop, Goto
  <2> QED
    BY <1>h, <2>1, SetTypes DEF ReadTop, Goto, TypeShape
<1>i. CASE ReadData(t)
  <2>1. data[loc[t].node] \in Values \union {None}
    BY <1>i DEF ReadData, TypeShape
  <2> QED
    BY <1>i, <2>1, SetTypes DEF ReadData, Goto, TypeShape
<1>j. CASE ReadLinks(t)
  <2>1. loc[t].entry \in Cells /\ loc[t] \in CallRecord
    BY <1>j DEF ReadLinks, TypeShape
  <2>2. next[loc[t].entry] \in Cells \union {None} /\ prev[loc[t].entry] \in Cells \union {None}
    BY <2>1 DEF TypeShape
  <2>3. [loc[t] EXCEPT !.next = next[loc[t].entry], !.prev = prev[loc[t].entry]] \in CallRecord
    BY <2>1, <2>2, LinksTypes
  <2> QED
    BY <1>j, <2>3 DEF ReadLinks, Goto, TypeShape
<1>k. CASE UnlinkBack(t)
  <2>1. loc[t].prev \in Cells \union {None}
    BY DEF TypeShape, CallRecord
  <2> QED
    BY <1>k, <2>1 DEF UnlinkBack, Goto, TypeShape
<1>l. CASE UnlinkFront(t)
  <2>1. loc[t].next \in Cells \union {None}
    BY DEF TypeShape, CallRecord
  <2> QED
    BY <1>l, <2>1 DEF UnlinkFront, Goto, TypeShape
<1>m. CASE SizeRead(t)
  <2>1. size \in Nat
    BY DEF TypeShape
  <2> QED
    BY <1>m, <2>1, SetTypes DEF SizeRead, Goto, TypeShape
<1>n. CASE SizeWrite(t)
  <2>1. loc[t].size + Delta(t) \in Int
    BY DEF TypeShape, CallRecord, Delta
  <2>2. size' \in Nat
    <3>1. (loc[t].size + Delta(t)) % SizeWord \in 0 .. SizeWord - 1
      BY <2>1, Remainder, SizeFacts
    <3> QED
      BY <1>n, <3>1 DEF SizeWrite
  <2> QED
    BY <1>n, <2>2 DEF SizeWrite, Goto, TypeShape
<1>o. CASE KFree(t)
  BY <1>o DEF KFree, Goto, TypeShape
<1>p. CASE Return(t)
  <2>1. NoCall \in CallRecord
    BY DEF NoCall, CallOf, CallRecord
  <2> QED
    BY <1>p, <2>1 DEF Return, Goto, TypeShape
<1>q. CASE LinkNext(t) \/ LinkPrev(t)
  <2>1. loc[t].node \in Nodes /\ loc[t].next \in Cells \union {None}
    BY <1>q DEF LinkNext, LinkPrev, Goto, PointShape, TypeShape, CallRecord
  <2> QED
    BY <1>q, <2>1 DEF LinkNext, LinkPrev, Goto, TypeShape, Cells
<1>r. CASE ReadEntry(t)
  <2>1. next[Elements] \in Cells \union {None}
    BY DEF TypeShape, Cells
  <2> QED
    BY <1>r, <2>1, SetTypes DEF ReadEntry, Goto, TypeShape
<1>s. CASE Poison(t)
  BY <1>s DEF Poison, Goto, TypeShape
<1> QED
  BY <1>a, <1>b, <1>c, <1>d, <1>e, <1>f, <1>g, <1>h, <1>i, <1>j, <1>k, <1>l, <1>m, <1>n, <1>o,
     <1>p, <1>q, <1>r, <1>s DEF Step

LEMMA StepPoint ==
  ASSUME BInv, NEW t \in Tasks, Step(t), pc[t] = "top" => next[Elements] \in Nodes
  PROVE  PointShape(t)'
<1>1. PointShape(t)
  BY DEF BInv
<1> USE <1>1 DEF PointShape, BInv, TypeShape, listVars, CallRecord
<1>a. CASE Kmalloc(t)
  BY <1>a DEF Kmalloc, Goto, Set
<1>b. CASE KmallocFails(t)
  BY <1>b DEF KmallocFails, Answer, Goto, Set
<1>c. CASE ReadFirst(t)
  BY <1>c DEF ReadFirst, Goto, Set
<1>d. CASE LinkBack(t)
  BY <1>d DEF LinkBack, Goto
<1>e. CASE LinkFront(t)
  BY <1>e DEF LinkFront, Goto
<1>f. CASE LoopTest(t)
  BY <1>f DEF LoopTest, Answer, Goto, Set
<1>g. CASE EmptyTest(t)
  BY <1>g DEF EmptyTest, Answer, Goto, Set
<1>h. CASE ReadTop(t)
  BY <1>h DEF ReadTop, Goto, Set
<1>i. CASE ReadData(t)
  BY <1>i DEF ReadData, Goto, Set
<1>j. CASE ReadLinks(t)
  BY <1>j DEF ReadLinks, Goto
<1>k. CASE UnlinkBack(t)
  BY <1>k DEF UnlinkBack, Goto
<1>l. CASE UnlinkFront(t)
  BY <1>l DEF UnlinkFront, Goto
<1>m. CASE SizeRead(t)
  BY <1>m DEF SizeRead, Goto, Set
<1>n. CASE SizeWrite(t)
  BY <1>n DEF SizeWrite, Goto
<1>o. CASE KFree(t)
  BY <1>o DEF KFree, Goto
<1>p. CASE Return(t)
  BY <1>p DEF Return, Goto, NoCall, CallOf
<1>q. CASE LinkNext(t) \/ LinkPrev(t)
  BY <1>q DEF LinkNext, LinkPrev, Goto
<1>r. CASE ReadEntry(t)
  BY <1>r DEF ReadEntry, Goto, Set
<1>s. CASE Poison(t)
  BY <1>s DEF Poison, Goto
<1> QED
  BY <1>a, <1>b, <1>c, <1>d, <1>e, <1>f, <1>g, <1>h, <1>i, <1>j, <1>k, <1>l, <1>m, <1>n, <1>o,
     <1>p, <1>q, <1>r, <1>s DEF Step

\* Where a callback works, and where the removal's clearing ends.
LEMMA StepStays ==
  ASSUME BInv, NEW t \in Tasks, Step(t)
  PROVE  /\ pc[t] # "idle" /\ UNCHANGED phase /\ (t = Rmmod => pc'[t] # "idle")
         /\ phase \in {"registering", "live", "leaving", "clearing"}
<1>1. pc[t] # "idle" /\ UNCHANGED phase
  BY DEF Step, Kmalloc, KmallocFails, ReadFirst, LinkBack, LinkNext, LinkPrev, LinkFront, LoopTest,
     EmptyTest, ReadTop, ReadData, ReadEntry, ReadLinks, UnlinkBack, UnlinkFront, Poison, SizeRead,
     SizeWrite, KFree, Return, Answer, Goto
<1>2. t = Rmmod => pc'[t] # "idle"
  BY SizeFacts DEF Step, Kmalloc, KmallocFails, ReadFirst, LinkBack, LinkNext, LinkPrev, LinkFront,
     LoopTest, EmptyTest, ReadTop, ReadData, ReadEntry, ReadLinks, UnlinkBack, UnlinkFront, Poison,
     SizeRead, SizeWrite, KFree, Return, Answer, Goto, BInv, TypeShape
<1>3. phase \in {"registering", "live", "leaving", "clearing"}
  BY <1>1 DEF BInv, ModuleShape, TypeShape, Tasks
<1> QED
  BY <1>1, <1>2, <1>3

LEMMA StepBase ==
  ASSUME BInv, NEW t \in Tasks, Step(t), pc[t] = "top" => next[Elements] \in Nodes
  PROVE  BInv'
<1>1. /\ TypeShape' /\ phase' = phase
      /\ \A u \in Tasks \ {t} : pc'[u] = pc[u] /\ loc'[u] = loc[u]
  BY StepTypes
<1>2. \A u \in Tasks : PointShape(u)'
  <2>1. PointShape(t)'
    BY StepPoint
  <2>2. ASSUME NEW u \in Tasks \ {t} PROVE PointShape(u)'
    BY <1>1, <2>2 DEF PointShape, BInv
  <2> QED
    BY <2>1, <2>2
<1>3. ModuleShape'
  BY <1>1, StepStays, SizeFacts DEF ModuleShape, BInv, Tasks
<1> QED
  BY <1>1, <1>2, <1>3 DEF BInv

-----------------------------------------------------------------------------
(***************************************************************************)
(* Who works on the list.                                                  *)
(***************************************************************************)
LEMMA Alone ==
  ASSUME RingShape, phase # "absent", NEW t \in Tasks, Working(t)
  PROVE  Sole(t)
<1>1. PICK u \in Tasks : Sole(u)
  BY DEF RingShape
<1>2. u = t
  BY <1>1 DEF Sole
<1> QED
  BY <1>1, <1>2

\* No task works on the list but t, if any: what the list is, is told of t.
LEMMA Focus ==
  ASSUME BInv, RingShape, phase # "absent", NEW t \in Tasks, Sole(t)
  PROVE  ListShape(t) /\ WorkShape(t)
<1>1. PICK u \in Tasks : Sole(u) /\ ListShape(u) /\ WorkShape(u)
  BY DEF RingShape
<1>2. CASE u = t
  BY <1>1, <1>2
<1>3. CASE u # t
  <2>1. ~ Working(u) /\ ~ Working(t)
    BY <1>1, <1>3 DEF Sole
  <2>2. PointShape(t) /\ PointShape(u)
    BY DEF BInv
  <2>3. /\ ~ Held(t) /\ ~ Held(u) /\ Owed(t) = 0 /\ Owed(u) = 0
        /\ \A w \in {t, u} : pc[w] \notin {"link_back", "link_next", "link_prev", "link_front", "top",
                                            "read", "del", "links", "unlink_back", "unlink_front",
                                            "poison"}
    BY <2>1, <2>2 DEF Held, Owed, Working, PointShape
  <2>4. ~ (t = Rmmod /\ pc[t] = "done")
    <3>1. pc[t] = "done" => loc[t].op # "none"
      BY <2>2 DEF PointShape, NoCall, CallOf, BInv, TypeShape
    <3>2. loc[t] \in CallRecord
      BY DEF BInv, TypeShape
    <3>3. loc[t].op \in {"none", "size", "is_empty"}
      BY <2>1, <3>2 DEF CallRecord, Working
    <3> QED
      BY <2>2, <3>1, <3>3, SizeFacts DEF PointShape
  <2>5. ListShape(t)
    BY <1>1, <2>3 DEF ListShape
  <2>6. WorkShape(t)
    BY <2>1, <2>3, <2>4 DEF WorkShape
  <2> QED
    BY <2>5, <2>6
<1> QED
  BY <1>2, <1>3

\* The task that works on the list is alone, and the list is as it knows it.
LEMMA Worker ==
  ASSUME IInv, NEW t \in Tasks, Step(t), Working(t)
  PROVE  /\ phase # "absent" /\ phase' = phase /\ Sole(t) /\ ListShape(t) /\ WorkShape(t)
         /\ Listed \in Paths /\ Links(next, Listed) /\ PointShape(t)
<1>1. phase # "absent" /\ phase' = phase
  BY StepStays DEF IInv
<1>2. Sole(t)
  BY <1>1, Alone DEF IInv
<1>3. ListShape(t) /\ WorkShape(t)
  BY <1>1, <1>2, Focus DEF IInv
<1> QED
  BY <1>1, <1>2, <1>3 DEF IInv, RingShape, BInv

LEMMA ListStays ==
  ASSUME UNCHANGED next
  PROVE  Listed' = Listed /\ (Links(next, Listed) => Links(next, Listed)')
BY DEF Listed, Links

LEMMA ListBecomes ==
  ASSUME NEW s \in Paths, Links(next', s)
  PROVE  Listed' = s
BY ListIs DEF Listed

\* A step that leaves the list alone, of a task that does not work on it.
LEMMA Beside ==
  ASSUME IInv, phase # "absent", phase' # "absent", NEW t \in Tasks,
         UNCHANGED <<next, prev, data, alive, size>>, ~ Working(t), ~ Working(t)', BInv',
         \A u \in Tasks \ {t} : pc'[u] = pc[u] /\ loc'[u] = loc[u]
  PROVE  RingShape'
<1>1. PICK u \in Tasks : Sole(u) /\ ListShape(u) /\ WorkShape(u)
  BY DEF IInv, RingShape
<1>2. Listed' = Listed /\ Listed \in Paths /\ Links(next, Listed)'
  BY ListStays DEF IInv, RingShape
<1>3. Sole(u)'
  <2> SUFFICES ASSUME NEW w \in Tasks \ {u}, Working(w)' PROVE FALSE
    BY DEF Sole
  <2>1. w # t /\ Working(w)
    BY DEF Working
  <2> QED
    BY <1>1, <2>1 DEF Sole
<1>4. CASE u # t
  <2>1. pc'[u] = pc[u] /\ loc'[u] = loc[u]
    BY <1>4
  <2>2. ListShape(u)'
    BY <1>1, <1>2, <2>1 DEF ListShape, Held, Owed, At
  <2>3. WorkShape(u)'
    BY <1>1, <1>2, <2>1 DEF WorkShape, Held, At, Working
  <2> QED
    BY <1>2, <1>3, <2>2, <2>3 DEF RingShape
<1>5. CASE u = t
  <2>1. PointShape(t) /\ PointShape(t)' /\ loc'[t] \in CallRecord
    BY DEF IInv, BInv, TypeShape
  <2>2. /\ ~ Held(t) /\ ~ Held(t)' /\ Owed(t) = 0 /\ Owed(t)' = 0
        /\ pc[t] \notin {"link_next", "link_prev", "link_front", "unlink_front"}
        /\ pc'[t] \notin {"link_back", "link_next", "link_prev", "link_front", "top", "read", "del",
                           "links", "unlink_back", "unlink_front", "poison"}
    BY <2>1 DEF Held, Owed, Working, PointShape
  <2>3. ~ (t = Rmmod /\ pc'[t] = "done")
    <3>1. loc'[t].op \in {"none", "size", "is_empty"}
      BY <2>1 DEF CallRecord, Working
    <3> QED
      BY <2>1, <3>1, SizeFacts DEF PointShape
  <2>4. ListShape(t)'
    BY <1>1, <1>2, <1>5, <2>2 DEF ListShape, At
  <2>5. WorkShape(t)'
    BY <1>2, <2>2, <2>3 DEF WorkShape
  <2> QED
    BY <1>2, <1>3, <1>5, <2>4, <2>5 DEF RingShape
<1> QED
  BY <1>4, <1>5

\* What is left to show of a step of the task that works on the list.
LEMMA Works ==
  ASSUME NEW t \in Tasks, Sole(t), phase' # "absent",
         \A u \in Tasks \ {t} : pc'[u] = pc[u] /\ loc'[u] = loc[u],
         NEW s \in Paths, Links(next', s), ListShape(t)', WorkShape(t)'
  PROVE  RingShape'
<1>1. Sole(t)'
  BY DEF Sole, Working
<1>2. Listed' = s
  BY ListBecomes
<1> QED
  BY <1>1, <1>2 DEF RingShape

-----------------------------------------------------------------------------
(***************************************************************************)
(* The steps of the task that works on the list.                           *)
(***************************************************************************)
LEMMA AtDistinct ==
  ASSUME NEW s \in Paths, NEW k \in 1 .. Len(s) + 1, NEW l \in 1 .. Len(s) + 1, At(s, k) = At(s, l)
  PROVE  k = l
BY PathFacts, AtFacts DEF At

LEMMA Front ==
  ASSUME NEW s \in Paths, NEW link, Links(link, s)
  PROVE  /\ link[Elements] = At(s, 1) /\ At(s, 1) \in Cells /\ At(s, 2) \in Cells
         /\ link[Elements] = Elements <=> s = <<>>
         /\ s # <<>> => /\ At(s, 1) = s[1] /\ s[1] \in Nodes /\ link[s[1]] = At(s, 2)
                        /\ s[1] \in Range(s) /\ Len(s) >= 1
<1>1. Len(s) \in Nat /\ At(s, 0) = Elements /\ (s = <<>> <=> Len(s) = 0)
  BY PathFacts, AtFacts, RangeFacts
<1>2. link[At(s, 0)] = At(s, 0 + 1) /\ 0 + 1 = 1
  BY <1>1 DEF Links
<1>3. Len(s) # 0 => 1 \in 1 .. Len(s) /\ 1 \in 0 .. Len(s)
  BY <1>1
<1>4. Len(s) # 0 => /\ At(s, 1) = s[1] /\ s[1] \in Nodes /\ link[At(s, 1)] = At(s, 1 + 1)
                    /\ 1 + 1 = 2 /\ s[1] \in Range(s) /\ Elements \notin Nodes
  BY <1>3, AtFacts, RangeFacts DEF Links
<1>5. Len(s) = 0 => At(s, 1) = Elements
  BY AtFacts
<1> QED
  BY <1>1, <1>2, <1>3, <1>4, <1>5, AtFacts

\* A step that changes neither the list nor the count.
LEMMA WorkerReads ==
  ASSUME IInv, BInv', NEW t \in Tasks, Working(t),
         \/ KmallocFails(t) \/ ReadFirst(t) \/ LoopTest(t) \/ EmptyTest(t) \/ ReadTop(t)
         \/ ReadData(t) \/ ReadEntry(t) \/ ReadLinks(t) \/ SizeRead(t) \/ Return(t)
  PROVE  ListShape(t)' /\ WorkShape(t)' /\ Links(next, Listed)'
<1>1. Step(t) /\ UNCHANGED <<next, prev, data, alive, size>>
  BY DEF Step, KmallocFails, ReadFirst, LoopTest, EmptyTest, ReadTop, ReadData, ReadEntry, ReadLinks,
         SizeRead, Return, listVars
<1>2. /\ ListShape(t) /\ WorkShape(t) /\ Listed \in Paths /\ Links(next, Listed) /\ PointShape(t)
      /\ TypeShape /\ TypeShape'
  BY <1>1, Worker DEF IInv, BInv
<1>3. Listed' = Listed /\ Links(next, Listed)'
  BY <1>1, <1>2, ListStays
<1>4. /\ next[Elements] = At(Listed, 1) /\ At(Listed, 1) \in Cells /\ At(Listed, 2) \in Cells
      /\ Empty <=> Listed = <<>>
      /\ Listed # <<>> => /\ At(Listed, 1) = Listed[1] /\ Listed[1] \in Nodes
                          /\ next[Listed[1]] = At(Listed, 2) /\ Len(Listed) >= 1
  BY <1>2, Front DEF Empty
<1>5. \A k \in Int : At(Listed, k)' = At(Listed, k)
  BY <1>3 DEF At
<1> SUFFICES ListShape(t)' /\ WorkShape(t)'
  BY <1>3
<1> HIDE DEF Listed
<1> USE <1>1, <1>2, <1>3 DEF PointShape, TypeShape, CallRecord, Held, Owed, Working
<1>a. CASE KmallocFails(t)
  <2>1. /\ pc[t] = "kmalloc" /\ pc'[t] = "done" /\ loc'[t].op = loc[t].op /\ loc[t].op = "push"
        /\ t # Rmmod
    BY <1>a, SizeFacts DEF KmallocFails, Answer, Goto, Set, Users
  <2>2. ListShape(t)'
    BY <2>1 DEF ListShape, At
  <2>3. WorkShape(t)'
    BY <2>1 DEF WorkShape
  <2> QED
    BY <2>2, <2>3
<1>b. CASE ReadFirst(t)
  BY <1>b, <1>4 DEF ReadFirst, Goto, Set, ListShape, WorkShape, At
<1>c. CASE LoopTest(t)
  BY <1>c, <1>4 DEF LoopTest, Answer, Goto, Set, ListShape, WorkShape, At
<1>d. CASE EmptyTest(t)
  BY <1>d, <1>4 DEF EmptyTest, Answer, Goto, Set, ListShape, WorkShape, At
<1>e. CASE ReadTop(t)
  BY <1>e, <1>4 DEF ReadTop, Goto, Set, ListShape, WorkShape, At
<1>f. CASE ReadData(t)
  <2>1. /\ pc[t] = "read" /\ pc'[t] \in {"done", "del"} /\ loc'[t].op = loc[t].op
        /\ loc'[t].node = loc[t].node /\ loc'[t].val = data[loc[t].node]
        /\ loc[t].op = "clear" => pc'[t] = "del"
    BY <1>f DEF ReadData, Goto, Set
  <2>2. ListShape(t)'
    BY <2>1 DEF ListShape, At
  <2>3. t = Rmmod => pc'[t] = "del"
    BY <2>1, SizeFacts DEF Users
  <2>4. WorkShape(t)'
    BY <2>1, <2>3 DEF WorkShape
  <2> QED
    BY <2>2, <2>4
<1>g. CASE ReadLinks(t)
  <2>1. /\ pc[t] = "links" /\ pc'[t] = "unlink_back" /\ loc'[t].op = loc[t].op
        /\ loc'[t].node = loc[t].node /\ loc'[t].val = loc[t].val /\ loc'[t].entry = loc[t].entry
        /\ loc'[t].next = next[loc[t].entry] /\ loc'[t].prev = prev[loc[t].entry]
    BY <1>g DEF ReadLinks, Goto
  <2>2. /\ Listed # <<>> /\ loc[t].node = Listed[1] /\ loc[t].val = data[loc[t].node]
        /\ loc[t].entry = Listed[1]
    BY <2>1 DEF WorkShape
  <2>3. prev[At(Listed, 1)] = At(Listed, 0) /\ At(Listed, 0) = Elements
    BY <2>1, <2>2, AtFacts, PathFacts DEF ListShape
  <2>4. ListShape(t)'
    BY <2>1 DEF ListShape, At
  <2>5. WorkShape(t)'
    BY <2>1, <2>2, <2>3, <1>4 DEF WorkShape, At
  <2> QED
    BY <2>4, <2>5
<1>j. CASE ReadEntry(t)
  <2>1. /\ pc[t] = "del" /\ pc'[t] = "links" /\ loc'[t].op = loc[t].op
        /\ loc'[t].node = loc[t].node /\ loc'[t].val = loc[t].val /\ loc'[t].entry = next[Elements]
    BY <1>j DEF ReadEntry, Goto, Set
  <2>2. Listed # <<>> /\ loc[t].node = Listed[1] /\ loc[t].val = data[loc[t].node]
    BY <2>1 DEF WorkShape
  <2>3. loc'[t].entry = loc'[t].node
    BY <2>1, <2>2, <1>4
  <2>4. ListShape(t)'
    BY <2>1 DEF ListShape, At
  <2>5. WorkShape(t)'
    BY <2>1, <2>2, <2>3 DEF WorkShape
  <2> QED
    BY <2>4, <2>5
<1>h. CASE SizeRead(t)
  <2>1. /\ pc[t] = "size_read" /\ pc'[t] = "size_write" /\ loc'[t].op = loc[t].op
        /\ loc[t].op \in {"push", "pop", "clear"} /\ loc'[t].size = size
        /\ loc'[t].node = loc[t].node /\ loc'[t].val = loc[t].val
    BY <1>h DEF SizeRead, Goto, Set
  <2>2. ListShape(t)'
    BY <2>1 DEF ListShape, At
  <2>3. WorkShape(t)'
    BY <2>1 DEF WorkShape
  <2> QED
    BY <2>2, <2>3
<1>i. CASE Return(t)
  BY <1>i, SizeFacts DEF Return, Goto, ListShape, WorkShape, At, NoCall, CallOf
<1> QED
  BY <1>a, <1>b, <1>c, <1>d, <1>e, <1>f, <1>g, <1>h, <1>i, <1>j

\* kmalloc hands out a node that is not in the list.
LEMMA WorkerKmalloc ==
  ASSUME IInv, BInv', NEW t \in Tasks, Working(t), Kmalloc(t)
  PROVE  ListShape(t)' /\ WorkShape(t)' /\ Links(next, Listed)'
<1>1. Step(t) /\ UNCHANGED <<next, prev, size>>
  BY DEF Step, Kmalloc
<1>2. /\ ListShape(t) /\ WorkShape(t) /\ Listed \in Paths /\ Links(next, Listed) /\ PointShape(t)
      /\ TypeShape /\ TypeShape'
  BY <1>1, Worker DEF IInv, BInv
<1>3. Listed' = Listed /\ Links(next, Listed)'
  BY <1>1, <1>2, ListStays
<1>4. PICK n \in Nodes \ alive :
        /\ alive' = alive \union {n} /\ data' = [data EXCEPT ![n] = loc[t].val]
        /\ Set(t, "node", n)
  BY DEF Kmalloc
<1>5. /\ pc[t] = "kmalloc" /\ pc'[t] = "add" /\ loc[t].op = "push" /\ loc'[t].op = "push"
      /\ loc'[t].node = n /\ loc'[t].val = loc[t].val /\ loc[t].val \in Values
  BY <1>2, <1>4 DEF Kmalloc, Goto, Set, PointShape, TypeShape, CallRecord
<1>6. alive = Range(Listed) /\ ~ Held(t) /\ Held(t)' /\ n \notin Range(Listed)
  BY <1>2, <1>4, <1>5 DEF ListShape, Held
<1>7. data'[n] = loc[t].val /\ \A m \in alive : data'[m] = data[m]
  BY <1>2, <1>4 DEF TypeShape
<1>8. ListShape(t)'
  BY <1>1, <1>2, <1>3, <1>4, <1>5, <1>6, <1>7 DEF ListShape, At, Owed
<1>9. WorkShape(t)'
  BY <1>3, <1>5, <1>6, <1>7 DEF WorkShape, Held
<1> QED
  BY <1>3, <1>8, <1>9

LEMMA WorkerLinkBack ==
  ASSUME IInv, BInv', NEW t \in Tasks, Working(t), LinkBack(t)
  PROVE  ListShape(t)' /\ WorkShape(t)' /\ Links(next, Listed)'
<1> DEFINE n == loc[t].node
           s == Listed
<1>1. Step(t) /\ UNCHANGED <<next, data, alive, size, loc>>
  BY DEF Step, LinkBack
<1>2. /\ ListShape(t) /\ WorkShape(t) /\ s \in Paths /\ Links(next, s) /\ PointShape(t)
      /\ TypeShape /\ TypeShape'
  BY <1>1, Worker DEF IInv, BInv
<1>3. /\ pc[t] = "link_back" /\ pc'[t] = "link_next" /\ loc[t].op = "push"
      /\ loc[t].next = At(s, 1) /\ Held(t) /\ Held(t)' /\ n \in Nodes \ Range(s)
  BY <1>2 DEF LinkBack, Goto, PointShape, WorkShape, TypeShape, Held
<1>4. prev' = [prev EXCEPT ![At(s, 1)] = n] /\ At(s, 1) \in Cells
  BY <1>2, <1>3, AtFacts DEF LinkBack
<1>5. prev'[At(s, 1)] = n
  BY <1>2, <1>4 DEF TypeShape
<1>6. Listed' = s /\ Links(next, Listed)'
  BY <1>1, <1>2, ListStays
<1>7. \A k \in 2 .. Len(s) + 1 : prev'[At(s, k)] = At(s, k - 1)
  <2> SUFFICES ASSUME NEW k \in 2 .. Len(s) + 1 PROVE prev'[At(s, k)] = At(s, k - 1)
    OBVIOUS
  <2>1. k \in 1 .. Len(s) + 1 /\ 1 \in 1 .. Len(s) + 1 /\ k # 1
    BY <1>2, PathFacts
  <2>2. At(s, k) # At(s, 1) /\ At(s, k) \in Cells
    BY <1>2, <2>1, AtDistinct, AtFacts
  <2>3. prev[At(s, k)] = At(s, k - 1)
    BY <1>2, <1>3, <2>1 DEF ListShape
  <2> QED
    BY <1>2, <1>4, <2>2, <2>3 DEF TypeShape
<1> HIDE DEF s, n
<1>8. ListShape(t)'
  <2>1. \A k \in 1 .. Len(s) + 1 : k = 1 \/ k \in 2 .. Len(s) + 1
    BY <1>2, PathFacts
  <2>2. (\A k \in 1 .. Len(Listed) + 1 :
           \/ prev[At(Listed, k)] = At(Listed, k - 1)
           \/ pc[t] \in {"link_next", "link_prev", "link_front"} /\ k = 1
           \/ pc[t] = "unlink_front" /\ k = 2)'
    BY <1>3, <1>6, <1>7, <2>1 DEF At
  <2>3. alive = Range(s) \union {n} /\ size = Len(s) + 0 /\ \A m \in alive : data[m] \in Values
    BY <1>2, <1>3 DEF ListShape, Owed, s, n
  <2>4. (alive = Range(Listed) \union (IF Held(t) THEN {loc[t].node} ELSE {}))'
    BY <1>1, <1>3, <1>6, <2>3 DEF n
  <2>5. (size = Len(Listed) + Owed(t))'
    BY <1>1, <1>3, <1>6, <2>3 DEF Owed
  <2> QED
    BY <1>1, <2>2, <2>3, <2>4, <2>5 DEF ListShape
<1>9. WorkShape(t)'
  BY <1>1, <1>2, <1>3, <1>5, <1>6 DEF WorkShape, Held, At, s, n
<1> QED
  BY <1>6, <1>8, <1>9

\* A step that changes the pointers of the node that t holds, which the list
\* does not reach.
LEMMA HeldNode ==
  ASSUME IInv, NEW t \in Tasks, Working(t), Step(t), Held(t), UNCHANGED <<data, alive, size, loc>>,
         Held(t)', Owed(t)' = Owed(t),
         NEW a, NEW b, next' = [next EXCEPT ![loc[t].node] = a],
         prev' = [prev EXCEPT ![loc[t].node] = b],
         pc[t] \in {"link_next", "link_prev"} => pc'[t] \in {"link_prev", "link_front"},
         pc[t] \in {"link_next", "link_prev", "poison"}
  PROVE  /\ ListShape(t)' /\ Links(next', Listed) /\ Listed' = Listed
         /\ prev'[At(Listed, 1)] = prev[At(Listed, 1)]
<1> DEFINE n == loc[t].node
           s == Listed
<1>1. /\ ListShape(t) /\ WorkShape(t) /\ s \in Paths /\ Links(next, s) /\ TypeShape
  BY Worker DEF IInv, BInv
<1>2. n \in Nodes \ Range(s)
  BY <1>1 DEF WorkShape
<1>3. Links(next', s)
  BY <1>1, <1>2, LinksElsewhere DEF TypeShape
<1>4. Listed' = s
  BY <1>1, <1>3, ListBecomes
<1>5. \A k \in 1 .. Len(s) + 1 : At(s, k) \in Cells /\ At(s, k) # n
  BY <1>1, <1>2, PathFacts, AtFacts, RangeFacts DEF At
<1>6. \A k \in 1 .. Len(s) + 1 : prev'[At(s, k)] = prev[At(s, k)]
  BY <1>1, <1>5 DEF TypeShape
<1>7. 1 \in 1 .. Len(s) + 1
  BY <1>1, PathFacts
<1> HIDE DEF s, n
<1>8. ListShape(t)'
  <2>1. (\A k \in 1 .. Len(Listed) + 1 :
           \/ prev[At(Listed, k)] = At(Listed, k - 1)
           \/ pc[t] \in {"link_next", "link_prev", "link_front"} /\ k = 1
           \/ pc[t] = "unlink_front" /\ k = 2)'
    BY <1>1, <1>4, <1>6 DEF ListShape, At, s
  <2>2. (alive = Range(Listed) \union (IF Held(t) THEN {loc[t].node} ELSE {}))'
    BY <1>1, <1>4 DEF ListShape, s
  <2>3. (size = Len(Listed) + Owed(t))'
    BY <1>1, <1>4 DEF ListShape, s
  <2> QED
    BY <1>1, <2>1, <2>2, <2>3 DEF ListShape
<1> QED
  BY <1>3, <1>4, <1>6, <1>7, <1>8 DEF s

LEMMA WorkerLinkNext ==
  ASSUME IInv, BInv', NEW t \in Tasks, Working(t), LinkNext(t)
  PROVE  ListShape(t)' /\ WorkShape(t)' /\ Links(next', Listed) /\ Listed' = Listed
<1> DEFINE n == loc[t].node
<1>1. Step(t) /\ UNCHANGED <<prev, data, alive, size, loc>>
  BY DEF Step, LinkNext
<1>2. WorkShape(t) /\ PointShape(t) /\ TypeShape
  BY <1>1, Worker DEF IInv, BInv
<1>3. /\ pc[t] = "link_next" /\ pc'[t] = "link_prev" /\ loc[t].op = "push" /\ Held(t) /\ Held(t)'
      /\ loc[t].next = At(Listed, 1) /\ prev[At(Listed, 1)] = n /\ n \in Nodes \ Range(Listed)
      /\ Owed(t) = 0 /\ Owed(t)' = 0
  BY <1>1, <1>2 DEF LinkNext, Goto, PointShape, WorkShape, TypeShape, Held, Owed
<1>4. next' = [next EXCEPT ![n] = At(Listed, 1)] /\ prev' = [prev EXCEPT ![n] = prev[n]]
  BY <1>1, <1>2, <1>3 DEF LinkNext, TypeShape
<1>5. ListShape(t)' /\ Links(next', Listed) /\ Listed' = Listed
  BY <1>1, <1>3, <1>4, HeldNode
<1>6. next'[n] = At(Listed, 1)
  BY <1>2, <1>3, <1>4 DEF TypeShape, Cells
<1>7. WorkShape(t)'
  BY <1>1, <1>2, <1>3, <1>5, <1>6 DEF WorkShape, Held, At
<1> QED
  BY <1>5, <1>7

LEMMA WorkerLinkPrev ==
  ASSUME IInv, BInv', NEW t \in Tasks, Working(t), LinkPrev(t)
  PROVE  ListShape(t)' /\ WorkShape(t)' /\ Links(next, Listed)'
<1> DEFINE n == loc[t].node
<1>1. Step(t) /\ UNCHANGED <<next, data, alive, size, loc>>
  BY DEF Step, LinkPrev
<1>2. WorkShape(t) /\ PointShape(t) /\ TypeShape /\ Listed \in Paths /\ Links(next, Listed)
  BY <1>1, Worker DEF IInv, BInv
<1>3. /\ pc[t] = "link_prev" /\ pc'[t] = "link_front" /\ loc[t].op = "push" /\ Held(t) /\ Held(t)'
      /\ loc[t].next = At(Listed, 1) /\ prev[At(Listed, 1)] = n /\ next[n] = At(Listed, 1)
      /\ n \in Nodes \ Range(Listed) /\ Owed(t) = 0 /\ Owed(t)' = 0
  BY <1>1, <1>2 DEF LinkPrev, Goto, PointShape, WorkShape, TypeShape, Held, Owed
<1>4. prev' = [prev EXCEPT ![n] = Elements] /\ next' = [next EXCEPT ![n] = next[n]]
  BY <1>1, <1>2, <1>3 DEF LinkPrev, TypeShape
<1>5. ListShape(t)' /\ Listed' = Listed /\ prev'[At(Listed, 1)] = prev[At(Listed, 1)]
  BY <1>1, <1>3, <1>4, HeldNode
<1>6. prev'[n] = Elements
  BY <1>2, <1>3, <1>4 DEF TypeShape, Cells
<1>7. WorkShape(t)'
  BY <1>1, <1>2, <1>3, <1>5, <1>6 DEF WorkShape, Held, At
<1>8. Links(next, Listed)'
  BY <1>1, <1>2, ListStays
<1> QED
  BY <1>5, <1>7, <1>8

LEMMA WorkerLinkFront ==
  ASSUME IInv, BInv', NEW t \in Tasks, Working(t), LinkFront(t)
  PROVE  /\ ListShape(t)' /\ WorkShape(t)' /\ \E r \in Paths : Links(next', r)
         /\ Listed' = <<loc[t].node>> \o Listed
<1> DEFINE n == loc[t].node
           s == Listed
           r == <<n>> \o s
<1>1. Step(t) /\ UNCHANGED <<prev, data, alive, size, loc>>
  BY DEF Step, LinkFront
<1>2. /\ ListShape(t) /\ WorkShape(t) /\ s \in Paths /\ Links(next, s) /\ PointShape(t)
      /\ TypeShape /\ TypeShape'
  BY <1>1, Worker DEF IInv, BInv
<1>3. /\ pc[t] = "link_front" /\ pc'[t] = "size_read" /\ loc[t].op = "push"
      /\ next[n] = At(s, 1) /\ prev[n] = Elements /\ prev[At(s, 1)] = n
      /\ Held(t) /\ ~ Held(t)' /\ n \in Nodes \ Range(s)
  BY <1>1, <1>2 DEF LinkFront, Goto, PointShape, WorkShape, TypeShape, Held
<1>4. Links(next', r)
  BY <1>2, <1>3, LinksLonger DEF LinkFront, TypeShape
<1>5. /\ r \in Paths /\ Len(r) = Len(s) + 1 /\ At(r, 0) = Elements /\ At(r, 1) = n
      /\ \A k \in 1 .. Len(s) + 1 : At(r, k + 1) = At(s, k)
      /\ Range(r) = Range(s) \union {n} /\ Len(s) \in Nat
  BY <1>2, <1>3, Longer, AtFacts, PathFacts
<1> HIDE DEF r
<1>6. Listed' = r
  BY <1>4, <1>5, ListBecomes
<1>7. \A k \in 1 .. Len(r) + 1 : prev[At(r, k)] = At(r, k - 1)
  <2> SUFFICES ASSUME NEW k \in 1 .. Len(r) + 1 PROVE prev[At(r, k)] = At(r, k - 1)
    OBVIOUS
  <2>1. CASE k = 1
    BY <1>3, <1>5, <2>1
  <2>2. CASE k = 2
    <3>1. At(r, 2) = At(s, 1)
      BY <1>5
    <3> QED
      BY <1>3, <1>5, <2>2, <3>1
  <2>3. CASE k \in 3 .. Len(r) + 1
    <3>1. /\ k - 1 \in 1 .. Len(s) + 1 /\ k - 2 \in 1 .. Len(s) + 1 /\ k - 1 # 1
          /\ k = (k - 1) + 1 /\ k - 1 = (k - 2) + 1 /\ (k - 1) - 1 = k - 2
      BY <1>5, <2>3
    <3>2. At(r, k) = At(s, k - 1) /\ At(r, k - 1) = At(s, k - 2)
      BY <1>5, <3>1
    <3>3. prev[At(s, k - 1)] = At(s, k - 2)
      BY <1>2, <1>3, <3>1 DEF ListShape
    <3> QED
      BY <3>2, <3>3
  <2> QED
    BY <1>5, <2>1, <2>2, <2>3
<1> HIDE DEF s, n
<1>8. ListShape(t)'
  <2>1. (\A k \in 1 .. Len(Listed) + 1 : prev[At(Listed, k)] = At(Listed, k - 1))'
    BY <1>1, <1>6, <1>7 DEF At
  <2>2. alive = Range(s) \union {n} /\ size = Len(s) /\ \A m \in alive : data[m] \in Values
    BY <1>2, <1>3, <1>5 DEF ListShape, Owed, s, n
  <2>3. (alive = Range(Listed) \union (IF Held(t) THEN {loc[t].node} ELSE {}))'
    BY <1>1, <1>3, <1>5, <1>6, <2>2
  <2>4. (size = Len(Listed) + Owed(t))'
    BY <1>1, <1>3, <1>5, <1>6, <2>2 DEF Owed
  <2> QED
    BY <1>1, <2>1, <2>2, <2>3, <2>4 DEF ListShape
<1>9. WorkShape(t)'
  BY <1>1, <1>3 DEF WorkShape
<1> QED
  BY <1>4, <1>5, <1>6, <1>8, <1>9 DEF r, s, n

LEMMA WorkerUnlinkBack ==
  ASSUME IInv, BInv', NEW t \in Tasks, Working(t), UnlinkBack(t)
  PROVE  ListShape(t)' /\ WorkShape(t)' /\ Links(next, Listed)'
<1> DEFINE s == Listed
<1>1. Step(t) /\ UNCHANGED <<next, data, alive, size, loc>>
  BY DEF Step, UnlinkBack
<1>2. /\ ListShape(t) /\ WorkShape(t) /\ s \in Paths /\ Links(next, s) /\ PointShape(t)
      /\ TypeShape /\ TypeShape'
  BY <1>1, Worker DEF IInv, BInv
<1>3. Listed' = s /\ Links(next, Listed)'
  BY <1>1, <1>2, ListStays
<1>4. /\ pc[t] = "unlink_back" /\ pc'[t] = "unlink_front" /\ loc[t].op \in {"pop", "clear"}
      /\ s # <<>> /\ loc[t].node = s[1] /\ loc[t].val = data[loc[t].node]
      /\ loc[t].entry = loc[t].node
      /\ loc[t].next = At(s, 2) /\ loc[t].prev = Elements /\ ~ Held(t) /\ ~ Held(t)'
  BY <1>1, <1>2 DEF UnlinkBack, Goto, PointShape, WorkShape, TypeShape, Held
<1>5. prev' = [prev EXCEPT ![At(s, 2)] = Elements] /\ At(s, 2) \in Cells
  BY <1>2, <1>4, AtFacts DEF UnlinkBack
<1>6. prev'[At(s, 2)] = Elements
  BY <1>2, <1>5 DEF TypeShape
<1>7. Len(s) \in Nat /\ Len(s) >= 1
  BY <1>2, <1>4, Front
<1>8. \A k \in 1 .. Len(s) + 1 : k # 2 => prev'[At(s, k)] = At(s, k - 1)
  <2> SUFFICES ASSUME NEW k \in 1 .. Len(s) + 1, k # 2 PROVE prev'[At(s, k)] = At(s, k - 1)
    OBVIOUS
  <2>1. At(s, k) # At(s, 2) /\ At(s, k) \in Cells
    <3>1. 2 \in 1 .. Len(s) + 1
      BY <1>7
    <3> QED
      BY <1>2, <3>1, AtDistinct, AtFacts
  <2>2. prev[At(s, k)] = At(s, k - 1)
    BY <1>2, <1>4 DEF ListShape
  <2> QED
    BY <1>2, <1>5, <2>1, <2>2 DEF TypeShape
<1> HIDE DEF s
<1>9. ListShape(t)'
  <2>1. (\A k \in 1 .. Len(Listed) + 1 :
           \/ prev[At(Listed, k)] = At(Listed, k - 1)
           \/ pc[t] \in {"link_next", "link_prev", "link_front"} /\ k = 1
           \/ pc[t] = "unlink_front" /\ k = 2)'
    BY <1>3, <1>4, <1>8 DEF At
  <2>2. alive = Range(s) /\ size = Len(s) /\ \A m \in alive : data[m] \in Values
    BY <1>2, <1>4, <1>7 DEF ListShape, Owed, s
  <2>3. (alive = Range(Listed) \union (IF Held(t) THEN {loc[t].node} ELSE {}))'
    BY <1>1, <1>3, <1>4, <2>2
  <2>4. (size = Len(Listed) + Owed(t))'
    BY <1>1, <1>3, <1>4, <1>7, <2>2 DEF Owed
  <2> QED
    BY <1>1, <2>1, <2>2, <2>3, <2>4 DEF ListShape
<1>10. WorkShape(t)'
  BY <1>1, <1>3, <1>4, <1>6 DEF WorkShape, At
<1> QED
  BY <1>3, <1>9, <1>10

LEMMA WorkerUnlinkFront ==
  ASSUME IInv, BInv', NEW t \in Tasks, Working(t), UnlinkFront(t)
  PROVE  /\ ListShape(t)' /\ WorkShape(t)' /\ \E r \in Paths : Links(next', r)
         /\ Listed' = Tail(Listed) /\ Listed # <<>> /\ loc[t].node = Listed[1]
<1> DEFINE s == Listed
           r == Tail(s)
<1>1. Step(t) /\ UNCHANGED <<prev, data, alive, size, loc>>
  BY DEF Step, UnlinkFront
<1>2. /\ ListShape(t) /\ WorkShape(t) /\ s \in Paths /\ Links(next, s) /\ PointShape(t)
      /\ TypeShape /\ TypeShape'
  BY <1>1, Worker DEF IInv, BInv
<1>3. /\ pc[t] = "unlink_front" /\ pc'[t] = "poison" /\ loc[t].op \in {"pop", "clear"}
      /\ loc[t].entry = loc[t].node
      /\ s # <<>> /\ loc[t].node = s[1] /\ loc[t].next = At(s, 2) /\ loc[t].prev = Elements
      /\ prev[At(s, 2)] = Elements /\ ~ Held(t) /\ Held(t)'
  BY <1>1, <1>2 DEF UnlinkFront, Goto, PointShape, WorkShape, TypeShape, Held
<1>4. next' = [next EXCEPT ![Elements] = At(s, 2)]
  BY <1>3 DEF UnlinkFront
<1>5. Links(next', r)
  BY <1>2, <1>3, <1>4, LinksShorter DEF TypeShape
<1>6. /\ r \in Paths /\ Len(r) = Len(s) - 1 /\ Len(s) >= 1 /\ s[1] \in Nodes
      /\ \A k \in 1 .. Len(s) : At(r, k) = At(s, k + 1)
      /\ Range(s) = Range(r) \union {s[1]} /\ s[1] \notin Range(r)
      /\ At(r, 0) = Elements /\ Len(s) \in Nat /\ At(s, 1) = s[1]
  BY <1>2, <1>3, Shorter, AtFacts, PathFacts, Front
<1> HIDE DEF r
<1>7. Listed' = r
  BY <1>5, <1>6, ListBecomes
<1>8. \A k \in 1 .. Len(r) + 1 : prev'[At(r, k)] = At(r, k - 1)
  <2> SUFFICES ASSUME NEW k \in 1 .. Len(r) + 1 PROVE prev'[At(r, k)] = At(r, k - 1)
    OBVIOUS
  <2>1. /\ k \in 1 .. Len(s) /\ k + 1 \in 1 .. Len(s) + 1 /\ 1 \in 1 .. Len(s) + 1
        /\ (k + 1) - 1 = k /\ k + 1 # 1
    BY <1>6
  <2>2. At(r, k) = At(s, k + 1) /\ At(s, k + 1) \in Cells /\ At(s, k + 1) # s[1]
    <3>1. At(s, k + 1) # At(s, 1)
      BY <1>2, <2>1, AtDistinct
    <3> QED
      BY <1>2, <1>6, <2>1, <3>1, AtFacts
  <2>3. prev'[At(r, k)] = prev[At(s, k + 1)]
    BY <1>1, <2>2
  <2>4. CASE k = 1
    BY <1>3, <1>6, <2>2, <2>3, <2>4
  <2>5. CASE k # 1
    <3>1. k - 1 \in 1 .. Len(s) /\ (k - 1) + 1 = k /\ k + 1 # 2
      BY <2>1, <2>5
    <3>2. At(r, k - 1) = At(s, k)
      BY <1>6, <3>1
    <3>3. prev[At(s, k + 1)] = At(s, k)
      BY <1>2, <1>3, <2>1, <3>1 DEF ListShape
    <3> QED
      BY <2>3, <3>2, <3>3
  <2> QED
    BY <2>4, <2>5
<1>9. alive = Range(s) /\ size = Len(s) /\ \A m \in alive : data[m] \in Values
  BY <1>2, <1>3, <1>6 DEF ListShape, Owed
<1> HIDE DEF s
<1>10. ListShape(t)'
  <2>1. (\A k \in 1 .. Len(Listed) + 1 : prev[At(Listed, k)] = At(Listed, k - 1))'
    BY <1>7, <1>8 DEF At
  <2>2. (alive = Range(Listed) \union (IF Held(t) THEN {loc[t].node} ELSE {}))'
    BY <1>1, <1>3, <1>6, <1>7, <1>9
  <2>3. (size = Len(Listed) + Owed(t))'
    BY <1>1, <1>3, <1>6, <1>7, <1>9 DEF Owed
  <2> QED
    BY <1>1, <1>9, <2>1, <2>2, <2>3 DEF ListShape
<1>11. WorkShape(t)'
  BY <1>1, <1>3, <1>6, <1>7 DEF WorkShape, Held
<1> QED
  BY <1>3, <1>5, <1>6, <1>7, <1>10, <1>11 DEF r, s

LEMMA WorkerPoison ==
  ASSUME IInv, BInv', NEW t \in Tasks, Working(t), Poison(t)
  PROVE  ListShape(t)' /\ WorkShape(t)' /\ Links(next', Listed) /\ Listed' = Listed
<1> DEFINE n == loc[t].node
<1>1. Step(t) /\ UNCHANGED <<data, alive, size, loc>>
  BY DEF Step, Poison
<1>2. WorkShape(t) /\ PointShape(t) /\ TypeShape
  BY <1>1, Worker DEF IInv, BInv
<1>3. /\ pc[t] = "poison" /\ pc'[t] = "size_read" /\ loc[t].op \in {"pop", "clear"}
      /\ Held(t) /\ Held(t)' /\ loc[t].entry = n /\ n \in Nodes \ Range(Listed)
      /\ Owed(t) = 1 /\ Owed(t)' = 1
  BY <1>1, <1>2 DEF Poison, Goto, PointShape, WorkShape, TypeShape, Held, Owed
<1>4. next' = [next EXCEPT ![n] = None] /\ prev' = [prev EXCEPT ![n] = None]
  BY <1>3 DEF Poison
<1>5. ListShape(t)' /\ Links(next', Listed) /\ Listed' = Listed
  BY <1>1, <1>3, <1>4, HeldNode
<1>6. WorkShape(t)'
  BY <1>1, <1>3, <1>5 DEF WorkShape
<1> QED
  BY <1>5, <1>6

\* The count is in size_t, and never leaves 0 .. Cardinality(Nodes).
LEMMA WorkerSizeWrite ==
  ASSUME IInv, BInv', NEW t \in Tasks, Working(t), SizeWrite(t)
  PROVE  ListShape(t)' /\ WorkShape(t)' /\ Links(next, Listed)'
<1>1. Step(t) /\ UNCHANGED <<next, prev, data, alive, loc>>
  BY DEF Step, SizeWrite, listVars
<1>2. /\ ListShape(t) /\ WorkShape(t) /\ Listed \in Paths /\ Links(next, Listed) /\ PointShape(t)
      /\ TypeShape /\ TypeShape'
  BY <1>1, Worker DEF IInv, BInv
<1>3. Listed' = Listed /\ Links(next, Listed)'
  BY <1>1, <1>2, ListStays
<1>4. /\ pc[t] = "size_write" /\ pc'[t] = IF loc[t].op = "push" THEN "done" ELSE "kfree"
      /\ loc[t].op \in {"push", "pop", "clear"} /\ loc[t].size = size
      /\ size' = (loc[t].size + Delta(t)) % SizeWord
  BY <1>2 DEF SizeWrite, Goto, PointShape, WorkShape, TypeShape
<1>5. /\ size = Len(Listed) + Owed(t) /\ size + Delta(t) = Len(Listed)
      /\ Len(Listed) \in 0 .. SizeWord - 1
  BY <1>2, <1>4, PathFacts, SizeFacts DEF ListShape, Owed, Delta, TypeShape
<1>6. size' = Len(Listed)
  BY <1>4, <1>5, Remainder, SizeFacts
<1>7. Owed(t)' = 0 /\ (Held(t)' <=> Held(t))
  BY <1>1, <1>4 DEF Owed, Held
<1>8. ListShape(t)'
  BY <1>1, <1>2, <1>3, <1>4, <1>5, <1>6, <1>7 DEF ListShape, At
<1>9. WorkShape(t)'
  BY <1>1, <1>2, <1>3, <1>4, <1>7, SizeFacts DEF WorkShape, PointShape, Users, At
<1> QED
  BY <1>3, <1>8, <1>9

LEMMA WorkerKFree ==
  ASSUME IInv, BInv', NEW t \in Tasks, Working(t), KFree(t)
  PROVE  ListShape(t)' /\ WorkShape(t)' /\ Links(next, Listed)'
<1>1. Step(t) /\ UNCHANGED <<next, prev, data, size, loc>>
  BY DEF Step, KFree
<1>2. /\ ListShape(t) /\ WorkShape(t) /\ Listed \in Paths /\ Links(next, Listed) /\ PointShape(t)
      /\ TypeShape /\ TypeShape'
  BY <1>1, Worker DEF IInv, BInv
<1>3. Listed' = Listed /\ Links(next, Listed)'
  BY <1>1, <1>2, ListStays
<1>4. /\ pc[t] = "kfree" /\ pc'[t] = IF loc[t].op = "clear" THEN "loop" ELSE "done"
      /\ loc[t].op \in {"pop", "clear"} /\ alive' = alive \ {loc[t].node}
  BY <1>2 DEF KFree, Goto, PointShape, TypeShape
<1>5. Held(t) /\ ~ Held(t)' /\ Owed(t) = 0 /\ Owed(t)' = 0
  BY <1>1, <1>4 DEF Held, Owed
<1>6. alive' = Range(Listed)
  BY <1>2, <1>4, <1>5 DEF ListShape, WorkShape
<1>7. ListShape(t)'
  BY <1>1, <1>2, <1>3, <1>4, <1>5, <1>6 DEF ListShape, At
<1>8. WorkShape(t)'
  BY <1>1, <1>2, <1>4, <1>5, SizeFacts DEF WorkShape, PointShape, Users
<1> QED
  BY <1>3, <1>7, <1>8

-----------------------------------------------------------------------------
(***************************************************************************)
(* The invariant.                                                          *)
(***************************************************************************)
LEMMA TopIsNode ==
  ASSUME IInv, NEW t \in Tasks, Step(t), pc[t] = "top"
  PROVE  next[Elements] \in Nodes
<1>1. Working(t)
  BY DEF IInv, BInv, PointShape, Working
<1>2. WorkShape(t) /\ Listed \in Paths /\ Links(next, Listed)
  BY <1>1, Worker
<1> QED
  BY <1>2, Front DEF WorkShape

LEMMA StepRing ==
  ASSUME IInv, BInv', NEW t \in Tasks, Step(t)
  PROVE  RingShape'
<1>1. /\ phase # "absent" /\ phase' = phase
      /\ \A u \in Tasks \ {t} : pc'[u] = pc[u] /\ loc'[u] = loc[u]
  BY TopIsNode, StepStays, StepTypes DEF IInv
<1>2. CASE Working(t)
  <2>1. Sole(t) /\ Listed \in Paths /\ Links(next, Listed)
    BY <1>2, Worker
  <2>2. ListShape(t)' /\ WorkShape(t)' /\ \E s \in Paths : Links(next', s)
    <3>1. CASE \/ KmallocFails(t) \/ ReadFirst(t) \/ LoopTest(t) \/ EmptyTest(t) \/ ReadTop(t)
               \/ ReadData(t) \/ ReadEntry(t) \/ ReadLinks(t) \/ SizeRead(t) \/ Return(t)
      <4>1. Links(next, Listed)' /\ next' = next
        BY <1>2, <3>1, WorkerReads DEF KmallocFails, ReadFirst, LoopTest, EmptyTest, ReadTop,
           ReadData, ReadEntry, ReadLinks, SizeRead, Return, listVars
      <4>2. Listed' \in Paths
        BY <2>1, <4>1, ListStays
      <4> QED
        BY <1>2, <3>1, <4>1, <4>2, WorkerReads
    <3>2. CASE Kmalloc(t) \/ LinkBack(t) \/ LinkPrev(t) \/ UnlinkBack(t) \/ SizeWrite(t) \/ KFree(t)
      <4>1. ListShape(t)' /\ WorkShape(t)' /\ Links(next, Listed)' /\ next' = next
        BY <1>2, <3>2, WorkerKmalloc, WorkerLinkBack, WorkerLinkPrev, WorkerUnlinkBack,
           WorkerSizeWrite, WorkerKFree
           DEF Kmalloc, LinkBack, LinkPrev, UnlinkBack, SizeWrite, KFree, listVars
      <4>2. Listed' \in Paths
        BY <2>1, <4>1, ListStays
      <4> QED
        BY <4>1, <4>2
    <3>3. CASE LinkNext(t) \/ Poison(t)
      BY <1>2, <2>1, <3>3, WorkerLinkNext, WorkerPoison
    <3>4. CASE LinkFront(t)
      BY <1>2, <3>4, WorkerLinkFront
    <3>5. CASE UnlinkFront(t)
      BY <1>2, <3>5, WorkerUnlinkFront
    <3> QED
      BY <3>1, <3>2, <3>3, <3>4, <3>5 DEF Step
  <2> QED
    BY <1>1, <2>1, <2>2, Works
<1>3. CASE ~ Working(t)
  <2>1. PointShape(t) /\ TypeShape /\ pc[t] # "idle" /\ loc[t].op \in {"none", "size", "is_empty"}
    BY <1>3, StepStays DEF IInv, BInv, TypeShape, CallRecord, Working
  <2>2. EmptyTest(t) \/ SizeRead(t) \/ Return(t)
    BY <2>1 DEF Step, Kmalloc, KmallocFails, ReadFirst, LinkBack, LinkNext, LinkPrev, LinkFront,
       LoopTest, ReadTop, ReadData, ReadEntry, ReadLinks, UnlinkBack, UnlinkFront, Poison, SizeWrite,
       KFree, Answer, Goto, PointShape
  <2>3. UNCHANGED <<next, prev, data, alive, size>>
    BY <2>2 DEF EmptyTest, SizeRead, Return, listVars
  <2>4. ~ Working(t)'
    <3>1. CASE EmptyTest(t) \/ SizeRead(t)
      BY <1>3, <2>1, <3>1 DEF EmptyTest, SizeRead, Answer, Set, Working, TypeShape, CallRecord
    <3>2. CASE Return(t)
      BY <3>2 DEF Return, Working, NoCall, CallOf, IInv, BInv, TypeShape
    <3> QED
      BY <2>2, <3>1, <3>2
  <2> QED
    BY <1>1, <1>3, <2>3, <2>4, Beside
<1> QED
  BY <1>2, <1>3

\* With one writer, who begins to work on the list is alone.
LEMMA CallRing ==
  ASSUME OneWriter, IInv, BInv', NEW t \in Tasks, NEW op, NEW rc, NEW val, NEW at,
         Begins(t, op, rc, val, at), Begun(t, op, rc, val, at)
  PROVE  RingShape'
<1>1. /\ phase \in {"registering", "live"} /\ phase' = phase /\ pc[t] = "idle" /\ loc[t] = NoCall
      /\ pc'[t] = at /\ loc'[t] = CallOf(op, rc, val)
      /\ UNCHANGED <<next, prev, data, alive, size>>
      /\ \A u \in Tasks \ {t} : pc'[u] = pc[u] /\ loc'[u] = loc[u]
  BY DEF Begun, IInv, BInv, TypeShape
<1>2. ~ Working(t) /\ t # Rmmod
  BY <1>1, SizeFacts DEF Working, NoCall, CallOf, Begins, Users
<1>3. CASE op \in {"size", "is_empty"}
  <2>1. ~ Working(t)'
    BY <1>1, <1>3 DEF Working, CallOf
  <2> QED
    BY <1>1, <1>2, <2>1, Beside
<1>4. CASE op \notin {"size", "is_empty"}
  <2>1. t \in Writers
    BY <1>4 DEF Begins
  <2>2. Sole(t)
    <3> SUFFICES ASSUME NEW u \in Tasks \ {t}, Working(u) PROVE FALSE
      BY DEF Sole
    <3>1. u # Rmmod
      BY <1>1 DEF Working, IInv, BInv, ModuleShape, PointShape, NoCall, CallOf
    <3>2. u \in Writers
      BY <3>1 DEF Working, IInv, BInv, PointShape
    <3> QED
      BY <2>1, <3>2 DEF OneWriter
  <2>3. ListShape(t) /\ WorkShape(t) /\ Listed \in Paths /\ Links(next, Listed)
    BY <1>1, <2>2, Focus DEF IInv, RingShape
  <2>4. Listed' = Listed /\ Links(next, Listed)'
    BY <1>1, <2>3, ListStays
  <2>5. at \in {"kmalloc", "test", "loop", "done"}
    BY <1>4 DEF Begins
  <2>6. ~ Held(t) /\ ~ Held(t)' /\ Owed(t) = 0 /\ Owed(t)' = 0
    BY <1>1, <2>5 DEF Held, Owed
  <2>7. ListShape(t)'
    BY <1>1, <2>3, <2>4, <2>5, <2>6 DEF ListShape, At
  <2>8. WorkShape(t)'
    BY <1>1, <1>2, <2>4, <2>5, <2>6 DEF WorkShape
  <2> QED
    BY <1>1, <2>2, <2>3, <2>4, <2>7, <2>8, Works
<1> QED
  BY <1>3, <1>4

LEMMA EmptyList == <<>> \in Paths /\ Len(<<>>) = 0 /\ Range(<<>>) = {}
<1>1. <<>> \in Seq(Nodes) /\ Len(<<>>) = 0
  BY EmptySeq
<1>2. \A k, l \in 1 .. Len(<<>>) : <<>>[k] = <<>>[l] => k = l
  BY <1>1
<1>3. <<>> \in Paths
  BY <1>1, <1>2, SequenceIsPath
<1> QED
  BY <1>1, <1>3, RangeFacts

LEMMA EmptyRing ==
  ASSUME NEW link, link[Elements] = Elements
  PROVE  Links(link, <<>>)
BY EmptyList DEF Links, At

LEMMA ModuleRing ==
  ASSUME IInv, BInv', Module
  PROVE  RingShape'
<1> USE DEF listVars
<1>1. Rmmod \in Tasks
  BY DEF Tasks
<1>2. CASE Load \/ LoadFails
  <2>1. /\ phase = "absent" /\ UNCHANGED <<data, alive, pc, loc>> /\ size' = 0
        /\ next' = [next EXCEPT ![Elements] = Elements]
        /\ prev' = [prev EXCEPT ![Elements] = Elements]
    BY <1>2 DEF Load, LoadFails, StackInit
  <2>2. alive = {} /\ TypeShape /\ Elements \in Cells
    BY <2>1 DEF IInv, RingShape, BInv, Cells
  <2>3. next'[Elements] = Elements /\ prev'[Elements] = Elements
    BY <2>1, <2>2 DEF TypeShape
  <2>4. Links(next', <<>>) /\ Listed' = <<>>
    BY <2>3, EmptyRing, EmptyList, ListBecomes
  <2>5. CASE phase' = "absent"
    BY <2>1, <2>2, <2>4, <2>5 DEF RingShape
  <2>6. CASE phase' # "absent"
    <3>1. \A t \in Tasks : pc[t] = "idle" /\ loc[t] = NoCall
      BY <2>1 DEF IInv, BInv, ModuleShape, PointShape, Tasks
    <3>2. Sole(Rmmod)
      BY <3>1 DEF Sole, Working, NoCall, CallOf
    <3>3. ~ Held(Rmmod)' /\ Owed(Rmmod)' = 0 /\ pc'[Rmmod] = "idle" /\ ~ Working(Rmmod)'
      BY <1>1, <2>1, <3>1 DEF Held, Owed, Working, NoCall, CallOf
    <3>4. ListShape(Rmmod)'
      <4>1. (\A k \in 1 .. Len(Listed) + 1 : prev[At(Listed, k)] = At(Listed, k - 1))'
        BY <2>3, <2>4, EmptyList DEF At
      <4> QED
        BY <2>1, <2>2, <2>4, <3>3, <4>1, EmptyList DEF ListShape
    <3>5. WorkShape(Rmmod)'
      BY <3>3 DEF WorkShape
    <3> QED
      BY <1>1, <2>1, <2>4, <2>6, <3>2, <3>4, <3>5, EmptyList, Works
  <2> QED
    BY <2>5, <2>6
<1>3. CASE Registered \/ RegisterFails \/ Remove
  <2>1. /\ phase # "absent" /\ phase' # "absent" /\ UNCHANGED <<next, prev, data, alive, size, pc, loc>>
    BY <1>3 DEF Registered, RegisterFails, Remove
  <2>2. PICK t \in Tasks : Sole(t) /\ ListShape(t) /\ WorkShape(t)
    BY <2>1 DEF IInv, RingShape
  <2>3. Listed' = Listed /\ Listed \in Paths /\ Links(next, Listed)'
    BY <2>1, ListStays DEF IInv, RingShape
  <2>4. Sole(t)'
    BY <2>1, <2>2 DEF Sole, Working
  <2>5. ListShape(t)'
    BY <2>1, <2>2, <2>3 DEF ListShape, Held, Owed, At
  <2>6. WorkShape(t)'
    BY <2>1, <2>2, <2>3 DEF WorkShape, Held, Working, At
  <2> QED
    BY <2>1, <2>3, <2>4, <2>5, <2>6 DEF RingShape
<1>4. CASE ExitClear
  <2>1. /\ phase = "leaving" /\ phase' = "clearing" /\ Drained /\ pc[Rmmod] = "idle"
        /\ UNCHANGED <<next, prev, data, alive, size>>
        /\ pc'[Rmmod] = "loop" /\ loc'[Rmmod].op = "clear"
        /\ \A u \in Tasks \ {Rmmod} : pc'[u] = pc[u] /\ loc'[u] = loc[u]
    BY <1>1, <1>4 DEF ExitClear, Drained, Goto, Set, IInv, BInv, TypeShape, CallRecord
  <2>2. Sole(Rmmod)
    BY <2>1 DEF Sole, Working, Drained, Tasks, IInv, BInv, PointShape, NoCall, CallOf
  <2>3. ListShape(Rmmod) /\ WorkShape(Rmmod) /\ Listed \in Paths /\ Links(next, Listed)
    BY <1>1, <2>1, <2>2, Focus DEF IInv, RingShape
  <2>4. Listed' = Listed /\ Links(next, Listed)'
    BY <2>1, <2>3, ListStays
  <2>5. ~ Held(Rmmod) /\ ~ Held(Rmmod)' /\ Owed(Rmmod) = 0 /\ Owed(Rmmod)' = 0
    BY <2>1 DEF Held, Owed
  <2>6. ListShape(Rmmod)'
    BY <2>1, <2>3, <2>4, <2>5 DEF ListShape, At
  <2>7. WorkShape(Rmmod)'
    BY <2>1, <2>5 DEF WorkShape
  <2> QED
    BY <1>1, <2>1, <2>2, <2>3, <2>4, <2>6, <2>7, Works
<1>5. CASE Unloaded
  <2>1. /\ phase = "clearing" /\ phase' = "absent" /\ pc[Rmmod] = "done"
        /\ UNCHANGED <<next, prev, data, alive, size>>
    BY <1>5 DEF Unloaded, Goto
  <2>2. Working(Rmmod)
    <3>1. PointShape(Rmmod) /\ loc[Rmmod] \in CallRecord
      BY <1>1 DEF IInv, BInv, TypeShape
    <3>2. loc[Rmmod].op # "none" /\ loc[Rmmod].op \notin {"size", "is_empty"}
      BY <2>1, <3>1, SizeFacts DEF PointShape
    <3> QED
      BY <3>1, <3>2 DEF CallRecord, Working
  <2>3. ListShape(Rmmod) /\ WorkShape(Rmmod)
    BY <1>1, <2>1, <2>2, Alone, Focus DEF IInv
  <2>4. Listed = <<>> /\ Owed(Rmmod) = 0 /\ ~ Held(Rmmod)
    <3>1. loc[Rmmod].op \notin {"push", "pop"}
      BY <1>1, SizeFacts DEF IInv, BInv, PointShape, Users
    <3> QED
      BY <2>1, <2>3, <3>1 DEF WorkShape, Owed, Held
  <2>5. alive = {} /\ size = 0
    BY <2>3, <2>4, EmptyList DEF ListShape
  <2>6. Listed' = <<>>
    BY <2>1, <2>4, ListStays
  <2> QED
    BY <2>1, <2>5, <2>6 DEF RingShape
<1> QED
  BY <1>2, <1>3, <1>4, <1>5 DEF Module

LEMMA InitRing == Init => RingShape
<1> SUFFICES ASSUME Init PROVE RingShape
  OBVIOUS
<1>1. next[Elements] = None /\ phase = "absent" /\ alive = {} /\ size = 0
  BY DEF Init, Cells
<1>2. ASSUME NEW p \in Rings, Follows(next, p) PROVE FALSE
  <2>1. PICK s \in Paths : p = <<Elements>> \o s \o <<Elements>>
    BY DEF Rings
  <2>2. Links(next, s)
    BY <1>2, <2>1, FollowsIs
  <2> QED
    BY <1>1, <2>2, Front, SizeFacts
<1>3. Listed = <<>>
  BY <1>2 DEF Listed, ListOf
<1> QED
  BY <1>1, <1>3 DEF RingShape

LEMMA InvInit == Init => IInv
BY InitBase, InitRing DEF IInv

LEMMA InvNext == OneWriter /\ IInv /\ [Next]_vars => IInv'
<1> SUFFICES ASSUME OneWriter, IInv, [Next]_vars PROVE IInv'
  OBVIOUS
<1>1. CASE UNCHANGED vars
  <2>1. BInv'
    BY <1>1 DEF vars, listVars, IInv, BInv, TypeShape, PointShape, ModuleShape
  <2>2. Listed' = Listed /\ (Links(next, Listed) => Links(next, Listed)')
    BY <1>1, ListStays DEF vars, listVars
  <2>3. RingShape'
    BY <1>1, <2>2 DEF vars, listVars, IInv, RingShape, Sole, Working, ListShape,
       WorkShape, Held, Owed, At
  <2> QED
    BY <2>1, <2>3 DEF IInv
<1>2. CASE Module
  BY <1>2, ModuleBase, ModuleRing DEF IInv
<1>3. ASSUME NEW t \in Tasks,
             \/ t \in Users /\ (SizeShow(t) \/ IsEmptyShow(t))
             \/ /\ t \in Writers
                /\ \/ \E num \in Values : PushStore(t, num)
                   \/ PopShow(t) \/ PeekShow(t) \/ ClearStore(t) \/ ClearRefused(t)
      PROVE  IInv'
  <2>1. PICK op, rc, val, at : Begins(t, op, rc, val, at) /\ Begun(t, op, rc, val, at)
    BY <1>3, CallBegun DEF IInv
  <2>2. BInv'
    BY <2>1, CallBase DEF IInv
  <2> QED
    BY <2>1, <2>2, CallRing DEF IInv
<1>4. ASSUME NEW t \in Tasks, Step(t) PROVE IInv'
  <2>1. BInv'
    BY <1>4, TopIsNode, StepBase DEF IInv
  <2> QED
    BY <1>4, <2>1, StepRing DEF IInv
<1> QED
  BY <1>1, <1>2, <1>3, <1>4 DEF Next, Tasks, Users

LEMMA InvHolds == OneWriter => (Spec => []IInv)
<1> SUFFICES ASSUME OneWriter PROVE Spec => []IInv
  OBVIOUS
<1>1. IInv /\ [Next]_vars => IInv'
  BY InvNext
<1> QED
  BY <1>1, InvInit, PTL DEF Spec

-----------------------------------------------------------------------------
(***************************************************************************)
(* What follows from the invariant.                                        *)
(***************************************************************************)

\* The ring, and the one task that may be at work on it.
LEMMA RingThere ==
  ASSUME IInv, phase # "absent"
  PROVE  /\ Listed \in Paths /\ Links(next, Listed) /\ Listed \in Seq(Nodes)
         /\ InList = {Listed[k] : k \in 1 .. Len(Listed)} /\ Len(Listed) \in Nat
         /\ \E t \in Tasks : Sole(t) /\ ListShape(t) /\ WorkShape(t)
BY PathFacts, RangeFacts DEF IInv, RingShape, InList

\* A task that works on the list is the only one.
LEMMA AtWork ==
  ASSUME IInv, NEW t \in Tasks, Working(t)
  PROVE  /\ phase # "absent" /\ Sole(t) /\ ListShape(t) /\ WorkShape(t)
         /\ Listed \in Paths /\ PointShape(t)
<1>1. pc[t] # "idle"
  BY DEF IInv, BInv, PointShape, Working, NoCall, CallOf
<1>2. phase # "absent"
  BY <1>1 DEF IInv, BInv, ModuleShape, Tasks
<1> QED
  BY <1>2, Alone, Focus DEF IInv, BInv, RingShape

LEMMA SizeBound == IInv => size \in 0 .. Cardinality(Nodes)
<1> SUFFICES ASSUME IInv PROVE size \in 0 .. Cardinality(Nodes)
  OBVIOUS
<1>1. CASE phase = "absent"
  BY <1>1, SizeFacts DEF IInv, RingShape
<1>2. CASE phase # "absent"
  <2>1. PICK t \in Tasks : ListShape(t) /\ WorkShape(t)
    BY <1>2, RingThere
  <2>2. Listed \in Paths /\ Len(Listed) \in Nat /\ Len(Listed) <= Cardinality(Nodes)
    BY <1>2, RingThere, PathFacts
  <2>3. CASE Owed(t) <= 0
    <3>1. Owed(t) \in {-1, 0} /\ size = Len(Listed) + Owed(t) /\ size \in Nat
      BY <2>1, <2>3 DEF Owed, ListShape, IInv, BInv, TypeShape
    <3> QED
      BY <2>2, <3>1, SizeFacts
  <2>4. CASE ~ (Owed(t) <= 0)
    <3>1. Owed(t) = 1 /\ Held(t)
      BY <2>4 DEF Owed, Held
    <3>2. Len(Listed) + 1 <= Cardinality(Nodes)
      BY <2>1, <2>2, <3>1, Longer DEF WorkShape
    <3> QED
      BY <2>1, <2>2, <3>1, <3>2, SizeFacts DEF ListShape
  <2> QED
    BY <2>3, <2>4
<1> QED
  BY <1>1, <1>2

\* The types, and a count that never leaves the number of nodes there can be:
\* st->size-- never wraps.
THEOREM TypeCorrect == OneWriter => (Spec => []TypeOK)
<1> SUFFICES ASSUME OneWriter PROVE Spec => []TypeOK
  OBVIOUS
<1>1. IInv => TypeOK
  BY SizeBound DEF IInv, BInv, TypeShape, TypeOK, Points, CallRecord
<1> QED
  BY <1>1, InvHolds, PTL

\* At every step the list is a ring of allocated nodes, in both directions but for
\* the pointer that list_add or list_del is about to set.
THEOREM ListSoundCorrect == OneWriter => (Spec => []ListSound)
<1> SUFFICES ASSUME OneWriter PROVE Spec => []ListSound
  OBVIOUS
<1>1. IInv => ListSound
  <2> SUFFICES ASSUME IInv, Loaded PROVE ListSound
    BY DEF ListSound
  <2>1. phase # "absent"
    BY DEF Loaded
  <2>2. /\ Listed \in Paths /\ Links(next, Listed) /\ Len(Listed) \in Nat
        /\ InList = {Listed[k] : k \in 1 .. Len(Listed)}
    BY <2>1, RingThere
  <2>3. PICK t \in Tasks : Sole(t) /\ ListShape(t) /\ WorkShape(t)
    BY <2>1, RingThere
  <2>4. \E p \in Rings : Follows(next, p)
    BY <2>2, ListIs
  <2>5. InList \subseteq alive
    BY <2>3 DEF ListShape, InList
  <2>6. ASSUME NEW c \in InList \union {Elements}
        PROVE  \/ prev[next[c]] = c
               \/ /\ pc[t] \in {"link_next", "link_prev", "link_front", "unlink_front"}
                  /\ next[c] \in {loc[t].next, loc[t].node}
    <3>1. PICK k \in 0 .. Len(Listed) : c = At(Listed, k)
      <4>1. CASE c = Elements
        BY <2>2, <4>1, AtFacts
      <4>2. CASE c \in InList
        BY <2>2, <4>2, AtFacts
      <4> QED
        BY <4>1, <4>2
    <3>2. next[c] = At(Listed, k + 1) /\ k + 1 \in 1 .. Len(Listed) + 1 /\ (k + 1) - 1 = k
      BY <2>2, <3>1 DEF Links
    <3>3. CASE prev[At(Listed, k + 1)] = At(Listed, k)
      BY <3>1, <3>2, <3>3
    <3>4. CASE pc[t] \in {"link_next", "link_prev", "link_front"} /\ k + 1 = 1
      BY <2>3, <3>2, <3>4 DEF WorkShape
    <3>5. CASE pc[t] = "unlink_front" /\ k + 1 = 2
      BY <2>3, <3>2, <3>5 DEF WorkShape
    <3> QED
      BY <2>3, <3>2, <3>3, <3>4, <3>5 DEF ListShape
  <2> QED
    BY <2>4, <2>5, <2>6 DEF ListSound
<1> QED
  BY <1>1, InvHolds, PTL

\* size counts the list, but for the node that one operation has linked or
\* unlinked and not yet counted.
THEOREM SizeTracksCorrect == OneWriter => (Spec => []SizeTracks)
<1> SUFFICES ASSUME OneWriter PROVE Spec => []SizeTracks
  OBVIOUS
<1>1. IInv => SizeTracks
  <2> SUFFICES ASSUME IInv, Loaded
               PROVE  Len(Listed) = size + Cardinality(Late({"push"}))
                                         - Cardinality(Late({"pop", "clear"}))
    BY DEF SizeTracks
  <2>1. phase # "absent"
    BY DEF Loaded
  <2>2. PICK t \in Tasks : Sole(t) /\ ListShape(t) /\ WorkShape(t)
    BY <2>1, RingThere
  <2>3. Len(Listed) \in Nat /\ size = Len(Listed) + Owed(t)
    BY <2>1, <2>2, RingThere DEF ListShape
  <2>4. /\ Late({"push"}) = IF Owed(t) = -1 THEN {t} ELSE {}
        /\ Late({"pop", "clear"}) = IF Owed(t) = 1 THEN {t} ELSE {}
    BY <2>2 DEF Late, Owed, Sole, Working
  <2>5. Cardinality({t}) = 1 /\ Cardinality({}) = 0
    BY FS_EmptySet, FS_Singleton
  <2>6. Owed(t) = -1 \/ Owed(t) = 0 \/ Owed(t) = 1
    BY DEF Owed
  <2>7. /\ Cardinality(Late({"push"})) = IF Owed(t) = -1 THEN 1 ELSE 0
        /\ Cardinality(Late({"pop", "clear"})) = IF Owed(t) = 1 THEN 1 ELSE 0
    BY <2>4, <2>5
  <2> QED
    BY <2>3, <2>6, <2>7
<1> QED
  BY <1>1, InvHolds, PTL

\* Every allocated node is in the list or in one callback's hands, and none is
\* left when the module is gone.
THEOREM NothingLeakedCorrect == OneWriter => (Spec => []NothingLeaked)
<1> SUFFICES ASSUME OneWriter PROVE Spec => []NothingLeaked
  OBVIOUS
<1>1. IInv => NothingLeaked
  <2> SUFFICES ASSUME IInv PROVE NothingLeaked
    OBVIOUS
  <2>1. ASSUME Loaded PROVE alive = InList \union InHand
    <3>1. PICK t \in Tasks : Sole(t) /\ ListShape(t) /\ WorkShape(t)
      BY <2>1, RingThere DEF Loaded
    <3>2. InHand = IF Held(t) THEN {loc[t].node} ELSE {}
      BY <3>1 DEF InHand, Held, Sole, Working
    <3> QED
      BY <3>1, <3>2 DEF ListShape, InList
  <2> QED
    BY <2>1 DEF NothingLeaked, IInv, RingShape
<1> QED
  BY <1>1, InvHolds, PTL

\* No node is read, unlinked or freed that is not allocated, and the node that
\* is unlinked is the one that was read.
THEOREM NoStaleNodeCorrect == OneWriter => (Spec => []NoStaleNode)
<1> SUFFICES ASSUME OneWriter PROVE Spec => []NoStaleNode
  OBVIOUS
<1>1. IInv => NoStaleNode
  <2> SUFFICES ASSUME IInv, NEW t \in Tasks,
                      pc[t] \in {"read", "del", "links", "unlink_back", "unlink_front", "poison",
                                "kfree"}
               PROVE  /\ loc[t].node \in alive
                      /\ pc[t] \in {"links", "unlink_back", "unlink_front", "poison"} =>
                           loc[t].entry = loc[t].node
    BY DEF NoStaleNode
  <2>1. Working(t)
    BY DEF Working, IInv, BInv, PointShape
  <2>2. ListShape(t) /\ WorkShape(t) /\ Listed \in Paths /\ PointShape(t)
    BY <2>1, AtWork
  <2>3. CASE pc[t] \in {"poison", "kfree"}
    BY <2>2, <2>3 DEF ListShape, WorkShape, Held, PointShape
  <2>4. CASE pc[t] \notin {"poison", "kfree"}
    <3>1. Listed # <<>> /\ loc[t].node = Listed[1]
      BY <2>2, <2>4 DEF WorkShape
    <3>2. 1 \in 1 .. Len(Listed)
      BY <2>2, <3>1, Shorter, PathFacts
    <3>3. loc[t].node \in alive
      BY <2>2, <3>1, <3>2, RangeFacts DEF ListShape
    <3> QED
      BY <2>2, <3>3 DEF WorkShape
  <2> QED
    BY <2>3, <2>4
<1> QED
  BY <1>1, InvHolds, PTL

\* Between operations size is the length of the list: with one writer the race
\* that two of them lose does not happen.
THEOREM SizeCurrentCorrect == OneWriter => (Spec => []SizeCurrent)
<1> SUFFICES ASSUME OneWriter PROVE Spec => []SizeCurrent
  OBVIOUS
<1>1. IInv => SizeCurrent
  <2> SUFFICES ASSUME IInv, Loaded, \A t \in Tasks : pc[t] = "idle" PROVE size = Len(Listed)
    BY DEF SizeCurrent
  <2>1. PICK t \in Tasks : ListShape(t)
    BY RingThere DEF Loaded
  <2>2. Owed(t) = 0
    BY DEF Owed
  <2> QED
    BY <2>1, <2>2, RingThere DEF ListShape, Loaded
<1> QED
  BY <1>1, InvHolds, PTL

-----------------------------------------------------------------------------
(***************************************************************************)
(* The list implements LifoStack: the step that changes the head's next    *)
(* pointer is the one that pushes or pops.                                 *)
(***************************************************************************)
GivingOf == [t \in Tasks |-> Giving(t)]
TakenOf == [t \in Tasks |-> Taken(t)]
LookedOf == [t \in Tasks |-> Looked(t)]

ContentsAre ==
  /\ Contents \in Seq(Values \union {None}) /\ Len(Contents) = Len(Listed)
  /\ \A k \in 1 .. Len(Listed) : Contents[k] = data[Listed[k]]

LEMMA ContentsShape == TypeShape /\ Listed \in Paths => ContentsAre
<1> SUFFICES ASSUME TypeShape, Listed \in Paths PROVE ContentsAre
  OBVIOUS
<1>1. /\ Len(Listed) \in Nat /\ DOMAIN Listed = 1 .. Len(Listed)
      /\ \A k \in 1 .. Len(Listed) : Listed[k] \in Nodes
  BY PathFacts
<1>2. Contents = [k \in 1 .. Len(Listed) |-> data[Listed[k]]]
  BY <1>1 DEF Contents
<1>3. Contents \in [1 .. Len(Listed) -> Values \union {None}]
  BY <1>1, <1>2 DEF TypeShape
<1>4. Contents \in Seq(Values \union {None})
  BY <1>1, <1>3, SeqDef
<1>5. Len(Contents) = Len(Listed)
  BY <1>1, <1>2, <1>4, LenProperties
<1> QED
  BY <1>2, <1>4, <1>5 DEF ContentsAre

LEMMA ContentsShapeNext == TypeShape' /\ (Listed \in Paths)' => ContentsAre'
<1> QED
  BY ContentsShape, PTL

LEMMA ContentsSame ==
  ASSUME Listed \in Paths, Listed' = Listed, \A n \in Range(Listed) : data'[n] = data[n]
  PROVE  Contents' = Contents
<1>1. \A k \in DOMAIN Listed : Listed[k] \in Range(Listed)
  BY PathFacts, RangeFacts
<1> QED
  BY <1>1 DEF Contents

LEMMA ContentsPushed ==
  ASSUME TypeShape, TypeShape', Listed \in Paths, Listed' \in Paths, data' = data,
         NEW n \in Nodes \ Range(Listed), Listed' = <<n>> \o Listed
  PROVE  Contents' = <<data[n]>> \o Contents
<1> DEFINE C == <<data[n]>> \o Contents
<1>1. ContentsAre /\ ContentsAre' /\ Len(Listed) \in Nat /\ Len(Listed') = Len(Listed) + 1
      /\ data[n] \in Values \union {None}
  BY ContentsShape, ContentsShapeNext, Longer, PathFacts DEF TypeShape
<1>2. <<data[n]>> \in Seq(Values \union {None}) /\ Len(<<data[n]>>) = 1 /\ <<data[n]>>[1] = data[n]
  BY <1>1
<1>3. /\ C \in Seq(Values \union {None}) /\ Len(C) = Len(Listed) + 1 /\ C[1] = data[n]
      /\ \A k \in 1 .. Len(Listed) : C[k + 1] = Contents[k]
  BY <1>1, <1>2, ConcatProperties DEF ContentsAre
<1>4. /\ Listed'[1] = n /\ \A k \in 1 .. Len(Listed) : Listed'[k + 1] = Listed[k]
  <2>1. Listed \in Seq(Nodes) /\ <<n>> \in Seq(Nodes) /\ Len(<<n>>) = 1 /\ <<n>>[1] = n
    BY PathFacts
  <2> QED
    BY <1>1, <2>1, ConcatProperties
<1> HIDE DEF C
<1>5. /\ Contents' \in Seq(Values \union {None}) /\ Len(Contents') = Len(Listed) + 1
      /\ \A k \in 1 .. Len(Listed) + 1 : Contents'[k] = data[Listed'[k]]
  BY <1>1 DEF ContentsAre
<1>6. ASSUME NEW k \in 1 .. Len(Listed) + 1 PROVE Contents'[k] = C[k]
  <2>1. CASE k = 1
    BY <1>1, <1>3, <1>4, <1>5, <2>1
  <2>2. CASE k # 1
    <3>1. k - 1 \in 1 .. Len(Listed) /\ (k - 1) + 1 = k
      BY <1>1, <2>2
    <3>2. Listed'[k] = Listed[k - 1] /\ C[k] = Contents[k - 1]
      BY <1>3, <1>4, <3>1
    <3>3. Contents[k - 1] = data[Listed[k - 1]]
      BY <1>1, <3>1 DEF ContentsAre
    <3> QED
      BY <1>5, <3>2, <3>3
  <2> QED
    BY <2>1, <2>2
<1>7. Contents' = C
  BY <1>3, <1>5, <1>6, SeqEqual
<1> QED
  BY <1>7 DEF C

LEMMA ContentsTop ==
  ASSUME TypeShape, Listed \in Paths, Listed # <<>>
  PROVE  Contents # <<>> /\ Head(Contents) = data[Listed[1]]
<1>1. ContentsAre /\ Len(Listed) >= 1 /\ 1 \in 1 .. Len(Listed)
  BY ContentsShape, Shorter, PathFacts
<1>2. Len(Contents) # 0 /\ Contents[1] = data[Listed[1]]
  BY <1>1 DEF ContentsAre
<1> QED
  BY <1>2, EmptySeq DEF Head

LEMMA ContentsPopped ==
  ASSUME TypeShape, TypeShape', Listed \in Paths, Listed' \in Paths, data' = data,
         Listed # <<>>, Listed' = Tail(Listed)
  PROVE  Contents' = Tail(Contents)
<1>1. ContentsAre /\ ContentsAre' /\ Len(Listed) \in Nat /\ Len(Listed') = Len(Listed) - 1
      /\ Len(Listed) >= 1 /\ Contents # <<>>
  BY ContentsShape, ContentsShapeNext, Shorter, PathFacts, ContentsTop
<1>2. /\ Tail(Contents) \in Seq(Values \union {None}) /\ Len(Tail(Contents)) = Len(Listed) - 1
      /\ \A k \in 1 .. Len(Listed) - 1 : Tail(Contents)[k] = Contents[k + 1]
  BY <1>1, HeadTailProperties DEF ContentsAre
<1>3. /\ Contents' \in Seq(Values \union {None}) /\ Len(Contents') = Len(Listed) - 1
      /\ \A k \in 1 .. Len(Listed) - 1 : Contents'[k] = data[Listed'[k]]
  BY <1>1 DEF ContentsAre
<1>4. ASSUME NEW k \in 1 .. Len(Listed) - 1 PROVE Contents'[k] = Tail(Contents)[k]
  <2>1. k + 1 \in 1 .. Len(Listed)
    BY <1>1
  <2>2. Listed'[k] = Listed[k + 1]
    <3>1. Listed \in Seq(Nodes)
      BY PathFacts
    <3> QED
      BY <1>1, <3>1, HeadTailProperties
  <2>3. Contents[k + 1] = data[Listed[k + 1]]
    BY <1>1, <2>1 DEF ContentsAre
  <2> QED
    BY <1>2, <1>3, <2>2, <2>3
<1> QED
  BY <1>2, <1>3, <1>4, SeqEqual

LEMMA Lift ==
  ASSUME NEW t \in Tasks, \A u \in Tasks \ {t} : pc'[u] = pc[u] /\ loc'[u] = loc[u]
  PROVE  /\ GivingOf' = [GivingOf EXCEPT ![t] = Giving(t)'] /\ GivingOf[t] = Giving(t)
         /\ TakenOf' = [TakenOf EXCEPT ![t] = Taken(t)'] /\ TakenOf[t] = Taken(t)
         /\ LookedOf' = [LookedOf EXCEPT ![t] = Looked(t)'] /\ LookedOf[t] = Looked(t)
         /\ Giving(t)' = Giving(t) => GivingOf' = GivingOf
         /\ Taken(t)' = Taken(t) => TakenOf' = TakenOf
         /\ Looked(t)' = Looked(t) => LookedOf' = LookedOf
<1>1. \A u \in Tasks \ {t} : Giving(u)' = Giving(u) /\ Taken(u)' = Taken(u) /\ Looked(u)' = Looked(u)
  BY DEF Giving, Taken, Looked
<1> QED
  BY <1>1 DEF GivingOf, TakenOf, LookedOf

\* A step that neither the contents nor t's part in them shows.
LEMMA QuietMaps ==
  ASSUME NEW t \in Tasks, \A u \in Tasks \ {t} : pc'[u] = pc[u] /\ loc'[u] = loc[u],
         Contents' = Contents,
         Giving(t)' = Giving(t), Taken(t)' = Taken(t), Looked(t)' = Looked(t)
  PROVE  UNCHANGED Promise!vars
BY Lift DEF Promise!vars, GivingOf, TakenOf, LookedOf

LEMMA ContentsStays ==
  ASSUME IInv, BInv', NEW t \in Tasks, Step(t), ~ LinkFront(t), ~ UnlinkFront(t)
  PROVE  Contents' = Contents
<1>1. phase # "absent" /\ Listed \in Paths /\ PointShape(t)
  BY StepStays, RingThere DEF IInv, BInv
<1>2. CASE Kmalloc(t)
  <2>1. Working(t)
    BY <1>1, <1>2 DEF Kmalloc, Goto, PointShape, Working
  <2>2. Range(Listed) \subseteq alive
    BY <2>1, Worker DEF ListShape
  <2>3. \A n \in Range(Listed) : data'[n] = data[n]
    BY <1>2, <2>2 DEF Kmalloc, IInv, BInv, TypeShape
  <2>4. Listed' = Listed
    BY <1>2, ListStays DEF Kmalloc
  <2> QED
    BY <1>1, <2>3, <2>4, ContentsSame
<1>3. CASE LinkNext(t) \/ Poison(t)
  <2>1. Working(t)
    BY <1>1, <1>3 DEF LinkNext, Poison, Goto, PointShape, Working
  <2>2. Listed' = Listed /\ data' = data
    BY <1>3, <2>1, WorkerLinkNext, WorkerPoison DEF LinkNext, Poison
  <2> QED
    BY <1>1, <2>2, ContentsSame
<1>4. CASE ~ Kmalloc(t) /\ ~ LinkNext(t) /\ ~ Poison(t)
  <2>1. UNCHANGED <<next, data>>
    BY <1>4 DEF Step, KmallocFails, ReadFirst, LinkBack, LinkPrev, LoopTest, EmptyTest, ReadTop,
       ReadData, ReadEntry, ReadLinks, UnlinkBack, SizeRead, SizeWrite, KFree, Return, listVars
  <2> QED
    BY <1>1, <2>1, ListStays, ContentsSame
<1> QED
  BY <1>2, <1>3, <1>4

LEMMA PushMaps ==
  ASSUME IInv, IInv', NEW t \in Tasks, LinkFront(t),
         \A u \in Tasks \ {t} : pc'[u] = pc[u] /\ loc'[u] = loc[u]
  PROVE  Promise!Push(t)
<1> USE DEF IInv, BInv
<1>1. /\ pc[t] = "link_front" /\ pc'[t] = "size_read" /\ loc' = loc /\ data' = data /\ phase' = phase
      /\ loc[t].op = "push" /\ loc[t].val \in Values /\ loc[t].node \in Nodes /\ Working(t) /\ Step(t)
  BY DEF LinkFront, Goto, PointShape, TypeShape, Working, Step
<1>2. /\ Listed \in Paths /\ Held(t) /\ loc[t].node \notin Range(Listed) /\ phase # "absent"
      /\ data[loc[t].node] = loc[t].val
  BY <1>1, Worker DEF WorkShape, Held
<1>3. Listed' = <<loc[t].node>> \o Listed /\ Listed' \in Paths
  BY <1>1, <1>2, WorkerLinkFront DEF RingShape
<1>4. Contents' = <<loc[t].val>> \o Contents
  BY <1>1, <1>2, <1>3, ContentsPushed
<1>5. /\ Giving(t) = loc[t].val /\ Giving(t)' = None /\ loc[t].val # None
      /\ Taken(t)' = Taken(t) /\ Looked(t)' = Looked(t)
  BY <1>1, StackAssumption DEF Giving, Taken, Looked
<1> QED
  BY <1>4, <1>5, Lift DEF Promise!Push, GivingOf, TakenOf, LookedOf

LEMMA PopMaps ==
  ASSUME IInv, IInv', NEW t \in Tasks, UnlinkFront(t),
         \A u \in Tasks \ {t} : pc'[u] = pc[u] /\ loc'[u] = loc[u]
  PROVE  Promise!Pop(t)
<1> USE DEF IInv, BInv
<1>1. /\ pc[t] = "unlink_front" /\ pc'[t] = "poison" /\ loc' = loc /\ data' = data /\ phase' = phase
      /\ loc[t].op \in {"pop", "clear"} /\ Working(t) /\ Step(t)
  BY DEF UnlinkFront, Goto, PointShape, TypeShape, Working, Step
<1>2. /\ Listed \in Paths /\ loc[t].val = data[loc[t].node] /\ phase # "absent"
  BY <1>1, Worker DEF WorkShape
<1>3. /\ Listed' = Tail(Listed) /\ Listed # <<>> /\ loc[t].node = Listed[1] /\ Listed' \in Paths
  BY <1>1, <1>2, WorkerUnlinkFront DEF RingShape
<1>4. Contents # <<>> /\ Head(Contents) = loc[t].val /\ Contents' = Tail(Contents)
  BY <1>1, <1>2, <1>3, ContentsTop, ContentsPopped
<1>5. /\ Taken(t) = None /\ Taken(t)' = loc[t].val
      /\ Giving(t)' = Giving(t) /\ Looked(t)' = Looked(t)
  BY <1>1 DEF Giving, Taken, Looked
<1> QED
  BY <1>4, <1>5, Lift DEF Promise!Pop, GivingOf, TakenOf, LookedOf

\* A task hands its value on: a popped or seen one, or none.
LEMMA DeliverMaps ==
  ASSUME NEW t \in Tasks, \A u \in Tasks \ {t} : pc'[u] = pc[u] /\ loc'[u] = loc[u],
         Contents' = Contents, Giving(t)' = Giving(t), Taken(t)' = None, Looked(t)' = None
  PROVE  Promise!Deliver(t) \/ UNCHANGED Promise!vars
<1>1. CASE Taken(t) = None /\ Looked(t) = None
  BY <1>1, QuietMaps
<1>2. CASE Taken(t) # None \/ Looked(t) # None
  BY <1>2, Lift DEF Promise!Deliver, GivingOf, TakenOf, LookedOf
<1> QED
  BY <1>1, <1>2

LEMMA StepMaps ==
  ASSUME IInv, IInv', NEW t \in Tasks, Step(t)
  PROVE  [Promise!Next]_(Promise!vars)
<1> USE DEF IInv, BInv
<1>1. /\ \A u \in Tasks \ {t} : pc'[u] = pc[u] /\ loc'[u] = loc[u]
      /\ PointShape(t) /\ PointShape(t)' /\ TypeShape /\ TypeShape'
  BY TopIsNode, StepTypes
<1>2. Contents' = Contents \/ LinkFront(t) \/ UnlinkFront(t)
  BY ContentsStays
<1>3. CASE LinkFront(t)
  BY <1>1, <1>3, PushMaps DEF Promise!Next
<1>4. CASE UnlinkFront(t)
  BY <1>1, <1>4, PopMaps DEF Promise!Next
<1>5. CASE KmallocFails(t)
  <2>1. /\ pc[t] = "kmalloc" /\ pc'[t] = "done" /\ loc[t].op = "push" /\ loc'[t].op = "push"
        /\ loc[t].val \in Values /\ Contents' = Contents
    BY <1>1, <1>2, <1>5 DEF KmallocFails, Answer, Goto, Set, LinkFront, UnlinkFront, PointShape,
       TypeShape, CallRecord
  <2>2. /\ Giving(t) # None /\ Giving(t)' = None
        /\ Taken(t)' = Taken(t) /\ Looked(t)' = Looked(t)
    BY <2>1, StackAssumption DEF Giving, Taken, Looked
  <2>3. Promise!Withdraw(t)
    BY <1>1, <2>1, <2>2, Lift DEF Promise!Withdraw, GivingOf, TakenOf, LookedOf
  <2> QED
    BY <2>3 DEF Promise!Next
<1>6. CASE ReadData(t)
  <2>1. /\ pc[t] = "read" /\ pc'[t] = IF loc[t].op = "peek" THEN "done" ELSE "del"
        /\ loc[t].op \in {"pop", "peek", "clear"} /\ Contents' = Contents /\ Working(t)
    BY <1>1, <1>2, <1>6 DEF ReadData, Goto, LinkFront, UnlinkFront, PointShape, TypeShape, Working
  <2>2. loc'[t].op = loc[t].op /\ loc'[t].val = data[loc[t].node]
    BY <1>1, <1>6 DEF ReadData, Set, TypeShape, CallRecord
  <2>3. Listed \in Paths /\ Listed # <<>> /\ loc[t].node = Listed[1]
    BY <2>1, Worker DEF WorkShape
  <2>4. CASE loc[t].op = "peek"
    <3>1. Contents # <<>> /\ Head(Contents) = loc'[t].val
      BY <1>1, <2>2, <2>3, ContentsTop
    <3>2. /\ Looked(t) = None /\ Looked(t)' = loc'[t].val
          /\ Giving(t)' = Giving(t) /\ Taken(t)' = Taken(t)
      BY <2>1, <2>2, <2>4 DEF Giving, Taken, Looked
    <3>3. Promise!Peek(t)
      BY <1>1, <2>1, <2>2, <3>1, <3>2, Lift DEF Promise!Peek, GivingOf, TakenOf, LookedOf
    <3> QED
      BY <3>3 DEF Promise!Next
  <2>5. CASE loc[t].op # "peek"
    BY <1>1, <2>1, <2>2, <2>5, QuietMaps DEF Giving, Taken, Looked
  <2> QED
    BY <2>4, <2>5
<1>7. CASE Return(t)
  <2>1. pc[t] = "done" /\ pc'[t] = "idle" /\ loc'[t] = NoCall /\ Contents' = Contents
    BY <1>1, <1>2, <1>7 DEF Return, Goto, LinkFront, UnlinkFront, TypeShape
  <2>2. Giving(t)' = Giving(t) /\ Taken(t)' = None /\ Looked(t)' = None
    BY <2>1 DEF Giving, Taken, Looked, NoCall, CallOf
  <2> QED
    BY <1>1, <2>1, <2>2, DeliverMaps DEF Promise!Next
<1>8. CASE KFree(t)
  <2>1. /\ pc[t] = "kfree" /\ pc'[t] = IF loc[t].op = "clear" THEN "loop" ELSE "done"
        /\ loc[t].op \in {"pop", "clear"} /\ loc[t].rc = "ok" /\ loc' = loc /\ Contents' = Contents
    BY <1>1, <1>2, <1>8 DEF KFree, Goto, LinkFront, UnlinkFront, PointShape, TypeShape
  <2>2. CASE loc[t].op = "clear"
    <3>1. Giving(t)' = Giving(t) /\ Taken(t)' = None /\ Looked(t)' = None
      BY <2>1, <2>2 DEF Giving, Taken, Looked
    <3> QED
      BY <1>1, <2>1, <3>1, DeliverMaps DEF Promise!Next
  <2>3. CASE loc[t].op = "pop"
    BY <1>1, <2>1, <2>3, QuietMaps DEF Giving, Taken, Looked
  <2> QED
    BY <2>1, <2>2, <2>3
<1>9. CASE EmptyTest(t) \/ LoopTest(t)
  <2>1. /\ pc[t] \in {"test", "loop"} /\ Contents' = Contents
        /\ loc'[t].op = loc[t].op /\ loc'[t].val = loc[t].val
        /\ pc'[t] \in {"test", "top", "done"}
        /\ pc'[t] = "done" => loc'[t].rc = "empty" \/ loc[t].op \in {"is_empty", "clear"}
    BY <1>1, <1>2, <1>9 DEF EmptyTest, LoopTest, Answer, Goto, Set, LinkFront, UnlinkFront, TypeShape,
       CallRecord, PointShape
  <2>2. Giving(t)' = Giving(t) /\ Taken(t)' = Taken(t)
    BY <2>1 DEF Giving, Taken
  <2>3. Looked(t)' = Looked(t)
    BY <1>1, <2>1 DEF Looked, PointShape
  <2> QED
    BY <1>1, <2>1, <2>2, <2>3, QuietMaps
<1>10. CASE Kmalloc(t) \/ ReadFirst(t) \/ LinkBack(t) \/ LinkNext(t) \/ LinkPrev(t)
  <2>1. /\ loc[t].op = "push" /\ loc'[t].op = "push" /\ loc'[t].val = loc[t].val
        /\ pc[t] \in {"kmalloc", "add", "link_back", "link_next", "link_prev"}
        /\ pc'[t] \in {"add", "link_back", "link_next", "link_prev", "link_front"}
        /\ Contents' = Contents
    BY <1>1, <1>2, <1>10 DEF Kmalloc, ReadFirst, LinkBack, LinkNext, LinkPrev, Goto, Set, LinkFront,
       UnlinkFront, PointShape, TypeShape, CallRecord
  <2> QED
    BY <1>1, <2>1, QuietMaps DEF Giving, Taken, Looked
<1>11. CASE ReadTop(t) \/ ReadEntry(t) \/ ReadLinks(t) \/ UnlinkBack(t)
  <2>1. /\ pc[t] \in {"top", "del", "links", "unlink_back"}
        /\ pc'[t] \in {"read", "links", "unlink_back", "unlink_front"}
        /\ loc[t].op \in {"pop", "peek", "clear"} /\ Contents' = Contents
    BY <1>1, <1>2, <1>11 DEF ReadTop, ReadEntry, ReadLinks, UnlinkBack, Goto, LinkFront, UnlinkFront,
       PointShape, TypeShape
  <2>2. loc'[t].op = loc[t].op
    <3>1. CASE ReadTop(t) \/ ReadEntry(t)
      BY <1>1, <3>1 DEF ReadTop, ReadEntry, Set, TypeShape, CallRecord
    <3>2. CASE ReadLinks(t)
      BY <1>1, <3>2 DEF ReadLinks, TypeShape, CallRecord
    <3>3. CASE UnlinkBack(t)
      BY <3>3 DEF UnlinkBack
    <3> QED
      BY <1>11, <3>1, <3>2, <3>3
  <2> QED
    BY <1>1, <2>1, <2>2, QuietMaps DEF Giving, Taken, Looked
<1>13. CASE Poison(t)
  <2>1. /\ pc[t] = "poison" /\ pc'[t] = "size_read" /\ loc' = loc /\ Contents' = Contents
        /\ loc[t].op \in {"pop", "clear"}
    BY <1>1, <1>2, <1>13 DEF Poison, Goto, LinkFront, UnlinkFront, PointShape, TypeShape
  <2> QED
    BY <1>1, <2>1, QuietMaps DEF Giving, Taken, Looked
<1>12. CASE SizeRead(t) \/ SizeWrite(t)
  <2>1. /\ loc'[t].op = loc[t].op /\ loc'[t].val = loc[t].val /\ Contents' = Contents
        /\ loc[t].op \in {"push", "pop", "clear", "size"}
        /\ pc[t] \in {"size_read", "size_write"}
        /\ pc'[t] \in {"size_write", "kfree"} \/ (pc'[t] = "done" /\ loc[t].op \in {"push", "size"})
    BY <1>1, <1>2, <1>12 DEF SizeRead, SizeWrite, Goto, Set, LinkFront, UnlinkFront, PointShape,
       TypeShape, CallRecord
  <2> QED
    BY <1>1, <2>1, QuietMaps DEF Giving, Taken, Looked
<1> QED
  BY <1>3, <1>4, <1>5, <1>6, <1>7, <1>8, <1>9, <1>10, <1>11, <1>12, <1>13 DEF Step

LEMMA CallMaps ==
  ASSUME IInv, NEW t \in Tasks, NEW op, NEW rc, NEW val, NEW at,
         Begins(t, op, rc, val, at), Begun(t, op, rc, val, at)
  PROVE  [Promise!Next]_(Promise!vars)
<1>1. /\ phase # "absent" /\ pc[t] = "idle" /\ loc[t] = NoCall
      /\ pc'[t] = at /\ loc'[t] = CallOf(op, rc, val) /\ UNCHANGED <<next, data>>
      /\ \A u \in Tasks \ {t} : pc'[u] = pc[u] /\ loc'[u] = loc[u]
  BY DEF Begun, IInv, BInv, TypeShape
<1>2. Contents' = Contents
  BY <1>1, RingThere, ListStays, ContentsSame
<1>3. Giving(t) = None /\ Taken(t) = None /\ Looked(t) = None
  BY <1>1 DEF Giving, Taken, Looked, NoCall, CallOf
<1>4. Taken(t)' = None /\ Looked(t)' = None
  BY <1>1 DEF Taken, Looked, CallOf, Begins
<1>5. CASE op = "push"
  <2>1. Giving(t)' = val /\ val \in Values
    BY <1>1, <1>5 DEF Giving, CallOf, Begins
  <2>2. Promise!Give(t, val)
    BY <1>1, <1>2, <1>3, <1>4, <2>1, Lift DEF Promise!Give, GivingOf, TakenOf, LookedOf
  <2> QED
    BY <2>1, <2>2 DEF Promise!Next
<1>6. CASE op # "push"
  <2>1. Giving(t)' = None
    BY <1>1, <1>6 DEF Giving, CallOf
  <2> QED
    BY <1>1, <1>2, <1>3, <1>4, <2>1, QuietMaps
<1> QED
  BY <1>5, <1>6

LEMMA EmptyContents == Listed = <<>> => Contents = <<>>
<1> SUFFICES ASSUME Listed = <<>> PROVE Contents = <<>>
  OBVIOUS
<1>1. Contents = [k \in DOMAIN <<>> |-> data[Listed[k]]] /\ DOMAIN <<>> = 1 .. 0 /\ 1 .. 0 = {}
  BY DEF Contents
<1>2. Contents \in [1 .. 0 -> {}]
  BY <1>1
<1>3. Contents \in Seq({})
  BY <1>2, SeqDef
<1> QED
  BY <1>1, <1>2, <1>3, EmptySeq, LenProperties

LEMMA EmptyContentsNext == (Listed = <<>> => Contents = <<>>)'
<1> QED
  BY EmptyContents, PTL

LEMMA ModuleMaps ==
  ASSUME IInv, IInv', Module
  PROVE  UNCHANGED Promise!vars
<1> USE DEF IInv, BInv
<1>1. CASE Load \/ LoadFails
  <2>1. phase = "absent" /\ UNCHANGED <<pc, loc>> /\ next' = [next EXCEPT ![Elements] = Elements]
    BY <1>1 DEF Load, LoadFails, StackInit
  <2>2. next'[Elements] = Elements
    BY <2>1 DEF TypeShape, Cells
  <2>3. Listed = <<>> /\ Listed' = <<>>
    BY <2>1, <2>2, EmptyRing, EmptyList, ListBecomes DEF RingShape
  <2>4. Contents' = Contents
    BY <2>3, EmptyContents, EmptyContentsNext
  <2> QED
    BY <2>1, <2>4 DEF Promise!vars, Giving, Taken, Looked
<1>2. CASE ~ Load /\ ~ LoadFails
  <2>1. /\ phase # "absent" /\ UNCHANGED <<next, data>>
    BY <1>2 DEF Module, Registered, RegisterFails, Remove, ExitClear, Unloaded, Drained, listVars
  <2>2. Contents' = Contents
    BY <2>1, RingThere, ListStays, ContentsSame
  <2>3. CASE UNCHANGED <<pc, loc>>
    BY <2>2, <2>3 DEF Promise!vars, Giving, Taken, Looked
  <2>4. CASE ~ UNCHANGED <<pc, loc>>
    <3>1. ExitClear \/ Unloaded
      BY <1>2, <2>4 DEF Module, Registered, RegisterFails, Remove
    <3>2. /\ Rmmod \in Tasks /\ \A u \in Tasks \ {Rmmod} : pc'[u] = pc[u] /\ loc'[u] = loc[u]
          /\ pc[Rmmod] \in {"idle", "done"} /\ pc'[Rmmod] \in {"idle", "loop"}
      BY <3>1 DEF ExitClear, Unloaded, Goto, Set, TypeShape, Tasks
    <3>3. loc[Rmmod].op \notin {"push", "pop", "peek"} /\ loc'[Rmmod].op \notin {"push", "pop", "peek"}
      BY <3>2, SizeFacts DEF PointShape, Users
    <3> QED
      BY <2>2, <3>2, <3>3, QuietMaps DEF Giving, Taken, Looked
  <2> QED
    BY <2>3, <2>4
<1> QED
  BY <1>1, <1>2

\* The linked list is a stack for one writer, whatever it and the tasks that ask
\* do: a value pushed is the next popped, and peek sees the one that pop would take.
THEOREM LifoKept == OneWriter => (Spec => IsLifo)
<1> SUFFICES ASSUME OneWriter PROVE Spec => IsLifo
  OBVIOUS
<1>1. Init => Promise!Init
  <2> SUFFICES ASSUME Init PROVE Promise!Init
    OBVIOUS
  <2>1. Listed = <<>>
    BY InitRing DEF Init, RingShape
  <2>2. \A t \in Tasks : pc[t] = "idle" /\ loc[t] = NoCall
    BY DEF Init
  <2>3. \A t \in Tasks : Giving(t) = None /\ Taken(t) = None /\ Looked(t) = None
    BY <2>2 DEF Giving, Taken, Looked, NoCall, CallOf
  <2> QED
    BY <2>1, <2>3, EmptyContents DEF Promise!Init
<1>2. IInv /\ IInv' /\ [Next]_vars => [Promise!Next]_(Promise!vars)
  <2> SUFFICES ASSUME IInv, IInv', [Next]_vars PROVE [Promise!Next]_(Promise!vars)
    OBVIOUS
  <2>1. CASE UNCHANGED vars
    BY <2>1 DEF vars, listVars, Promise!vars, Contents, Listed, Giving, Taken, Looked
  <2>2. CASE Module
    BY <2>2, ModuleMaps
  <2>3. ASSUME NEW t \in Tasks,
               \/ t \in Users /\ (SizeShow(t) \/ IsEmptyShow(t))
               \/ /\ t \in Writers
                  /\ \/ \E num \in Values : PushStore(t, num)
                     \/ PopShow(t) \/ PeekShow(t) \/ ClearStore(t) \/ ClearRefused(t)
        PROVE  [Promise!Next]_(Promise!vars)
    <3>1. PICK op, rc, val, at : Begins(t, op, rc, val, at) /\ Begun(t, op, rc, val, at)
      BY <2>3, CallBegun DEF IInv
    <3> QED
      BY <3>1, CallMaps
  <2>4. ASSUME NEW t \in Tasks, Step(t) PROVE [Promise!Next]_(Promise!vars)
    BY <2>4, StepMaps
  <2> QED
    BY <2>1, <2>2, <2>3, <2>4 DEF Next, Tasks, Users
<1> QED
  BY <1>1, <1>2, InvHolds, PTL DEF Spec, IsLifo, Promise!Spec

-----------------------------------------------------------------------------
(***************************************************************************)
(* Every call goes on, and ends after a number of steps that the nodes     *)
(* bound, whatever the other tasks do.  With the fairness of FairSpec this *)
(* is what RemovalEnds needs of the callbacks and of stack_clear.          *)
(***************************************************************************)
\* The step of t at its program point is not one that a poisoned pointer stops.
GoesOn(t) ==
  /\ pc[t] \in {"link_back", "unlink_back"} => loc[t].next \in Cells
  /\ pc[t] = "read" => loc[t].node \in Nodes
  /\ pc[t] = "links" => loc[t].entry \in Cells
  /\ pc[t] = "unlink_front" => loc[t].prev \in Cells
NobodyStops == \A t \in Tasks : GoesOn(t)

\* How far a call is from its end, and, of stack_clear, a turn of its loop: the
\* node it takes off makes up for the steps that the next turn needs.
Place(p) ==
  CASE p = "kmalloc" -> 18 [] p = "add" -> 17 [] p = "link_back" -> 16 [] p = "link_next" -> 15
    [] p = "link_prev" -> 14 [] p = "link_front" -> 13 [] p = "test" -> 12 [] p = "top" -> 11
    [] p = "read" -> 10 [] p = "del" -> 9 [] p = "links" -> 8 [] p = "unlink_back" -> 7
    [] p = "unlink_front" -> 6 [] p = "poison" -> 5 [] p = "size_read" -> 4
    [] p = "size_write" -> 3 [] p = "kfree" -> 2 [] p = "done" -> 1 [] OTHER -> 0
TurnPlace(p) ==
  CASE p = "loop" -> 3 [] p = "test" -> 2 [] p = "top" -> 1 [] p = "del" -> -1 [] p = "links" -> -2
    [] p = "unlink_back" -> -3 [] p = "unlink_front" -> -4 [] p = "poison" -> 7
    [] p = "size_read" -> 6 [] p = "size_write" -> 5 [] p = "kfree" -> 4 [] OTHER -> 0
Clears(t) == loc[t].op = "clear" /\ pc[t] # "done"
StepsLeft(t) == IF Clears(t) THEN 12 * Len(Listed) + TurnPlace(pc[t]) ELSE Place(pc[t])

EndsSoon == \A t \in Tasks : StepsLeft(t) \in 0 .. 12 * Cardinality(Nodes) + 18

StepCounts ==
  \A t \in Tasks : Step(t) =>
    /\ StepsLeft(t)' < StepsLeft(t)
    /\ \A u \in Tasks \ {t} : StepsLeft(u)' = StepsLeft(u)
EveryStepCounts == [][StepCounts]_vars

LEMMA InvGoesOn == IInv => NobodyStops
<1> SUFFICES ASSUME IInv, NEW t \in Tasks PROVE GoesOn(t)
  BY DEF NobodyStops
<1>1. CASE pc[t] \in {"link_back", "read", "links", "unlink_back", "unlink_front"}
  <2>1. Working(t)
    BY <1>1 DEF Working, IInv, BInv, PointShape
  <2>2. Listed \in Paths /\ WorkShape(t)
    BY <2>1, AtWork
  <2>3. At(Listed, 1) \in Cells /\ At(Listed, 2) \in Cells /\ Elements \in Cells
    BY <2>2, AtFacts DEF Cells
  <2>4. Listed # <<>> => Listed[1] \in Nodes /\ Listed[1] \in Cells
    BY <2>2, Shorter DEF Cells
  <2> QED
    BY <2>2, <2>3, <2>4 DEF WorkShape, GoesOn
<1>2. CASE pc[t] \notin {"link_back", "read", "links", "unlink_back", "unlink_front"}
  BY <1>2 DEF GoesOn
<1> QED
  BY <1>1, <1>2

\* No task follows a poisoned pointer, so that the kernel kills none
\* (stack_ops.c:48, 79-80, 106): each can always take the next step of its call.
THEOREM NobodyStopsCorrect == OneWriter => (Spec => []NobodyStops)
BY InvGoesOn, InvHolds, PTL

LEMMA ClearShape ==
  ASSUME IInv, NEW t \in Tasks, Clears(t)
  PROVE  /\ Working(t) /\ Sole(t) /\ Listed \in Paths
         /\ pc[t] \in {"loop", "test", "top", "read", "del", "links", "unlink_back", "unlink_front",
                       "poison", "size_read", "size_write", "kfree"}
         /\ pc[t] \in {"top", "read", "del", "links", "unlink_back", "unlink_front"} => Len(Listed) >= 1
<1>1. Working(t)
  BY DEF Clears, Working
<1>2. Listed \in Paths /\ Sole(t) /\ WorkShape(t) /\ PointShape(t) /\ pc[t] \in Points
  BY <1>1, AtWork DEF IInv, BInv, TypeShape
<1>3. pc[t] \in {"loop", "test", "top", "read", "del", "links", "unlink_back", "unlink_front",
                 "poison", "size_read", "size_write", "kfree"}
  BY <1>2 DEF Clears, PointShape, Points, NoCall, CallOf
<1>4. pc[t] \in {"top", "read", "del", "links", "unlink_back", "unlink_front"} => Len(Listed) >= 1
  BY <1>2, Shorter DEF WorkShape
<1> QED
  BY <1>1, <1>2, <1>3, <1>4

LEMMA InvEnds == IInv => EndsSoon
<1> SUFFICES ASSUME IInv, NEW t \in Tasks
             PROVE  StepsLeft(t) \in 0 .. 12 * Cardinality(Nodes) + 18
  BY DEF EndsSoon
<1>1. Cardinality(Nodes) \in Nat
  BY SizeFacts
<1>2. CASE ~ Clears(t)
  <2>1. Place(pc[t]) \in 0 .. 18
    BY DEF Place
  <2> QED
    BY <1>1, <1>2, <2>1 DEF StepsLeft
<1>3. CASE Clears(t)
  <2>1. Len(Listed) \in Nat /\ Len(Listed) <= Cardinality(Nodes)
    BY <1>3, ClearShape, PathFacts
  <2>2. /\ TurnPlace(pc[t]) \in Int /\ TurnPlace(pc[t]) <= 7 /\ TurnPlace(pc[t]) >= -4
        /\ TurnPlace(pc[t]) < 0 => Len(Listed) >= 1
    BY <1>3, ClearShape DEF TurnPlace
  <2>3. StepsLeft(t) = 12 * Len(Listed) + TurnPlace(pc[t])
    BY <1>3 DEF StepsLeft
  <2>4. StepsLeft(t) \in Int /\ StepsLeft(t) >= 0
    BY <2>1, <2>2, <2>3
  <2>5. StepsLeft(t) <= 12 * Cardinality(Nodes) + 18
    BY <1>1, <2>1, <2>2, <2>3
  <2> QED
    BY <1>1, <2>4, <2>5
<1> QED
  BY <1>2, <1>3

\* A step of one task neither lengthens nor shortens what another has left.
LEMMA OthersKeep ==
  ASSUME IInv, NEW t \in Tasks, Step(t), NEW u \in Tasks \ {t}
  PROVE  StepsLeft(u)' = StepsLeft(u)
<1>1. pc'[u] = pc[u] /\ loc'[u] = loc[u]
  BY TopIsNode, StepTypes DEF IInv
<1>2. Clears(u)' <=> Clears(u)
  BY <1>1 DEF Clears
<1>3. CASE ~ Clears(u)
  BY <1>1, <1>2, <1>3 DEF StepsLeft
<1>4. CASE Clears(u)
  <2>1. ~ Working(t)
    BY <1>4, ClearShape DEF Sole
  <2>2. ~ LinkNext(t) /\ ~ LinkFront(t) /\ ~ UnlinkFront(t) /\ ~ Poison(t)
    BY <2>1 DEF LinkNext, LinkFront, UnlinkFront, Poison, Goto, Working, IInv, BInv, PointShape
  <2>3. UNCHANGED next
    BY <2>2 DEF Step, Kmalloc, KmallocFails, ReadFirst, LinkBack, LinkPrev, LoopTest, EmptyTest,
       ReadTop, ReadData, ReadEntry, ReadLinks, UnlinkBack, SizeRead, SizeWrite, KFree, Return,
       listVars
  <2>4. Listed' = Listed
    BY <2>3, ListStays
  <2> QED
    BY <1>1, <1>2, <1>4, <2>4 DEF StepsLeft
<1> QED
  BY <1>3, <1>4

\* The points that a step goes from and to.
LEMMA StepGoes ==
  ASSUME IInv, NEW t \in Tasks, Step(t)
  PROVE  /\ loc'[t].op = loc[t].op \/ pc'[t] = "idle"
         /\ \/ pc[t] = "kmalloc" /\ pc'[t] \in {"add", "done"}
            \/ pc[t] = "add" /\ pc'[t] = "link_back"
            \/ pc[t] = "link_back" /\ pc'[t] = "link_next"
            \/ pc[t] = "link_next" /\ pc'[t] = "link_prev"
            \/ pc[t] = "link_prev" /\ pc'[t] = "link_front"
            \/ pc[t] = "link_front" /\ pc'[t] = "size_read"
            \/ pc[t] = "loop" /\ pc'[t] \in {"test", "done"}
            \/ pc[t] = "test" /\ pc'[t] \in {"top", "done"}
            \/ pc[t] = "top" /\ pc'[t] = "read"
            \/ pc[t] = "read" /\ pc'[t] = (IF loc[t].op = "peek" THEN "done" ELSE "del")
            \/ pc[t] = "del" /\ pc'[t] = "links"
            \/ pc[t] = "links" /\ pc'[t] = "unlink_back"
            \/ pc[t] = "unlink_back" /\ pc'[t] = "unlink_front"
            \/ pc[t] = "unlink_front" /\ pc'[t] = "poison" /\ UnlinkFront(t)
            \/ pc[t] = "poison" /\ pc'[t] = "size_read" /\ Poison(t)
            \/ pc[t] = "size_read" /\ pc'[t] = (IF loc[t].op = "size" THEN "done" ELSE "size_write")
            \/ pc[t] = "size_write" /\ pc'[t] = (IF loc[t].op = "push" THEN "done" ELSE "kfree")
            \/ pc[t] = "kfree" /\ pc'[t] = (IF loc[t].op = "clear" THEN "loop" ELSE "done")
            \/ pc[t] = "done" /\ pc'[t] = "idle"
<1> USE DEF IInv, BInv, TypeShape
<1>1. loc'[t].op = loc[t].op \/ Return(t)
  <2>1. CASE Kmalloc(t) \/ KmallocFails(t) \/ ReadFirst(t)
    BY <2>1 DEF Kmalloc, KmallocFails, ReadFirst, Answer, Set, CallRecord
  <2>2. CASE LoopTest(t) \/ EmptyTest(t)
    BY <2>2 DEF LoopTest, EmptyTest, Answer, Set, CallRecord
  <2>3. CASE ReadTop(t) \/ ReadData(t) \/ ReadEntry(t) \/ ReadLinks(t) \/ SizeRead(t)
    BY <2>3 DEF ReadTop, ReadData, ReadEntry, ReadLinks, SizeRead, Set, CallRecord
  <2>4. CASE \/ LinkBack(t) \/ LinkNext(t) \/ LinkPrev(t) \/ LinkFront(t)
             \/ UnlinkBack(t) \/ UnlinkFront(t) \/ Poison(t) \/ SizeWrite(t) \/ KFree(t)
    BY <2>4 DEF LinkBack, LinkNext, LinkPrev, LinkFront, UnlinkBack, UnlinkFront, Poison, SizeWrite,
       KFree
  <2> QED
    BY <2>1, <2>2, <2>3, <2>4 DEF Step
<1>a. CASE Kmalloc(t) \/ KmallocFails(t)
  BY <1>1, <1>a DEF Kmalloc, KmallocFails, Answer, Goto, Return
<1>b. CASE ReadFirst(t) \/ LinkBack(t) \/ LinkNext(t) \/ LinkPrev(t) \/ LinkFront(t)
  BY <1>1, <1>b DEF ReadFirst, LinkBack, LinkNext, LinkPrev, LinkFront, Goto, Return
<1>c. CASE LoopTest(t)
  BY <1>1, <1>c DEF LoopTest, Answer, Goto, Return
<1>d. CASE EmptyTest(t)
  BY <1>1, <1>d DEF EmptyTest, Answer, Goto, Return
<1>e. CASE ReadTop(t) \/ ReadData(t) \/ ReadEntry(t) \/ ReadLinks(t)
  BY <1>1, <1>e DEF ReadTop, ReadData, ReadEntry, ReadLinks, Goto, Return
<1>f. CASE UnlinkBack(t) \/ UnlinkFront(t) \/ Poison(t)
  BY <1>1, <1>f DEF UnlinkBack, UnlinkFront, Poison, Goto, Return
<1>g. CASE SizeRead(t) \/ SizeWrite(t) \/ KFree(t)
  BY <1>1, <1>g DEF SizeRead, SizeWrite, KFree, Goto, Return
<1>h. CASE Return(t)
  BY <1>h DEF Return, Goto
<1> QED
  BY <1>a, <1>b, <1>c, <1>d, <1>e, <1>f, <1>g, <1>h DEF Step

\* A step of a call that clears: the list is as it was, or shorter by one.
LEMMA ClearStep ==
  ASSUME IInv, IInv', NEW t \in Tasks, Step(t), Clears(t)
  PROVE  IF pc[t] = "unlink_front" THEN Len(Listed)' = Len(Listed) - 1
         ELSE Listed' = Listed
<1>1. /\ Working(t) /\ Listed \in Paths
      /\ pc[t] \in {"loop", "test", "top", "read", "del", "links", "unlink_back", "unlink_front",
                    "poison", "size_read", "size_write", "kfree"}
  BY ClearShape
<1>2. CASE UnlinkFront(t)
  <2>1. Listed' = Tail(Listed) /\ Listed # <<>>
    BY <1>1, <1>2, WorkerUnlinkFront DEF IInv
  <2>2. Len(Tail(Listed)) = Len(Listed) - 1
    BY <1>1, <2>1, Shorter
  <2> QED
    BY <1>2, <2>1, <2>2 DEF UnlinkFront, Goto
<1>3. CASE Poison(t)
  BY <1>1, <1>3, WorkerPoison DEF Poison, Goto, IInv
<1>4. CASE ~ UnlinkFront(t) /\ ~ Poison(t)
  <2>1. UNCHANGED next /\ pc[t] # "unlink_front"
    BY <1>1, <1>4 DEF Step, Kmalloc, KmallocFails, ReadFirst, LinkBack, LinkNext, LinkPrev, LinkFront,
       LoopTest, EmptyTest, ReadTop, ReadData, ReadEntry, ReadLinks, UnlinkBack, SizeRead, SizeWrite,
       KFree, Return, Answer, Goto, listVars
  <2> QED
    BY <2>1, ListStays
<1> QED
  BY <1>2, <1>3, <1>4

LEMMA OwnCounts ==
  ASSUME IInv, IInv', NEW t \in Tasks, Step(t)
  PROVE  StepsLeft(t)' < StepsLeft(t)
<1>1. CASE ~ Clears(t)
  <2>1. ~ Clears(t)'
    BY <1>1, StepGoes DEF Clears, IInv, BInv, PointShape, NoCall, CallOf
  <2>2. Place(pc'[t]) < Place(pc[t])
    <3>1. pc[t] # "loop" /\ (pc[t] = "kfree" => loc[t].op # "clear")
      BY <1>1 DEF Clears, IInv, BInv, PointShape
    <3> QED
      BY <3>1, StepGoes DEF Place
  <2> QED
    BY <1>1, <2>1, <2>2 DEF StepsLeft
<1>2. CASE Clears(t)
  <2>1. /\ Len(Listed) \in Nat /\ loc[t].op = "clear" /\ loc'[t].op = "clear" /\ pc[t] # "done"
        /\ Len(Listed)' \in Nat
    BY <1>2, ClearShape, StepGoes, StepStays, RingThere, PathFacts DEF Clears, IInv
  <2>2. CASE pc'[t] = "done"
    <3>1. ~ Clears(t)' /\ pc[t] \in {"loop", "test"} /\ Place(pc'[t]) = 1
      BY <1>2, <2>1, <2>2, ClearShape, StepGoes DEF Clears, Place
    <3>2. TurnPlace(pc[t]) >= 2 /\ TurnPlace(pc[t]) \in Int
      BY <3>1 DEF TurnPlace
    <3> QED
      BY <1>2, <2>1, <3>1, <3>2 DEF StepsLeft
  <2>3. CASE pc'[t] # "done"
    <3>1. Clears(t)'
      BY <2>1, <2>3 DEF Clears
    <3>2. CASE pc[t] = "unlink_front"
      <4>1. Len(Listed)' = Len(Listed) - 1 /\ TurnPlace(pc[t]) = -4 /\ TurnPlace(pc'[t]) = 7
        BY <1>2, <3>2, ClearStep, StepGoes DEF TurnPlace
      <4> QED
        BY <1>2, <2>1, <3>1, <4>1 DEF StepsLeft
    <3>3. CASE pc[t] # "unlink_front"
      <4>1. Len(Listed)' = Len(Listed)
        BY <1>2, <3>3, ClearStep
      <4>2. TurnPlace(pc'[t]) < TurnPlace(pc[t]) /\ TurnPlace(pc'[t]) \in Int /\ TurnPlace(pc[t]) \in Int
        BY <1>2, <2>1, <2>3, <3>3, ClearShape, StepGoes DEF TurnPlace
      <4> QED
        BY <1>2, <2>1, <3>1, <4>1, <4>2 DEF StepsLeft
    <3> QED
      BY <3>2, <3>3
  <2> QED
    BY <2>2, <2>3
<1> QED
  BY <1>1, <1>2

\* What a call has left is bounded by the number of nodes
\* (stack_ops.c:140-143: the loop of stack_clear takes a node off every turn).
THEOREM EndsSoonCorrect == OneWriter => (Spec => []EndsSoon)
BY InvEnds, InvHolds, PTL

\* Every step of a task brings its own call nearer its end, and no step of
\* another task takes it away from it again.
THEOREM StepsCounted == OneWriter => (Spec => EveryStepCounts)
<1> SUFFICES ASSUME OneWriter PROVE Spec => EveryStepCounts
  OBVIOUS
<1>1. IInv /\ IInv' /\ [Next]_vars => [StepCounts]_vars
  BY OwnCounts, OthersKeep DEF StepCounts
<1> QED
  BY <1>1, InvHolds, PTL DEF Spec, EveryStepCounts
=============================================================================
